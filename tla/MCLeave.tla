------------------------------ MODULE MCLeave ------------------------------
(* Small instances of Leave. *)
EXTENDS Leave, TLC

Symmetry == Permutations(Request) \cup Permutations(Employee) \cup Permutations(Extension)
=============================================================================

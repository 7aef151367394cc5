----------------------------- MODULE MCPayroll -----------------------------
(* Small instances of Payroll. *)
EXTENDS Payroll, TLC

Symmetry == Permutations(Run) \cup Permutations(Employee) \cup Permutations(Period)
=============================================================================

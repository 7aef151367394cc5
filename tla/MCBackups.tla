----------------------------- MODULE MCBackups -----------------------------
(* Small instances of Backups. *)
EXTENDS Backups, TLC

Symmetry == Permutations(Backup) \cup Permutations(Request)
=============================================================================

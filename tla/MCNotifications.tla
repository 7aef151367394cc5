--------------------------- MODULE MCNotifications --------------------------
(* Small instances of Notifications, with the queue of mail. *)
EXTENDS Notifications, TLC

Symmetry == Permutations(Ticks) \cup Permutations(Drains)
=============================================================================

---------------------------- MODULE MCWorkflows ----------------------------
(* A small instance of Workflows: the sets of numbers and of keys. *)
EXTENDS Workflows

CONSTANTS Hr, Custom   \* role keys, next to Super, and addresses

Keys == {Super, Hr, Custom}
Defaults == {Super, Hr}
Two == 1..2
Three == 1..3
FromZero == 0..1
Times == 0..2
=============================================================================

--------------------------- MODULE MCPersistence ---------------------------
(* Small instances of Persistence. *)
EXTENDS Persistence
=============================================================================

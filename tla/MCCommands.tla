----------------------------- MODULE MCCommands -----------------------------
(* A journaled request, a direct one and a read. *)
EXTENDS RemoteCommands

CONSTANTS j1, d1, q1
=============================================================================

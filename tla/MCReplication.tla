---------------------------- MODULE MCReplication ----------------------------
(* One worker, two connections, two events. *)
EXTENDS EventReplication
=============================================================================

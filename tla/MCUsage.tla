------------------------------- MODULE MCUsage -------------------------------
(* Two processes that read the usage of one account. *)
EXTENDS UsageReads
=============================================================================

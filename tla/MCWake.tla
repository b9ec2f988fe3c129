------------------------------- MODULE MCWake -------------------------------
(* Two missions and a foreign suspender on one host. *)
EXTENDS SharedWake, TLC

Symmetry == Permutations(Missions)
=============================================================================

-------------------------- MODULE MCBridgeController --------------------------
(* Instances of BridgeController for TLC. *)
EXTENDS BridgeController, TLC

CONSTANTS t1, t2, t3

TaskSymmetry == Permutations(Tasks)
=============================================================================

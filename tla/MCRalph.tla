------------------------------- MODULE MCRalph -------------------------------
(* The rotation loop on rotations of two entries. *)
EXTENDS RalphLoop

\* A Bridge controller never limits the duration; a standalone run does.
MCConfigurations ==
    {[routes |-> TRUE, evenBurn |-> TRUE, bridged |-> TRUE, duration |-> 0, spec |-> 1,
      opaque |-> {1}],
     [routes |-> FALSE, evenBurn |-> TRUE, bridged |-> FALSE, duration |-> MaxDuration, spec |-> 1,
      opaque |-> {}]}
=============================================================================

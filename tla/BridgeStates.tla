---------------------------- MODULE BridgeStates ----------------------------
EXTENDS Naturals

(* The status vocabulary and transition tables that the Bridge store, the    *)
(* controller and the command line share (bridge_states.py, bridge_vocab.py). *)

MissionStates == {"CREATED", "RUNNING", "PAUSED", "STOPPING", "STOPPED",
                  "COMPLETED", "FAILED", "CANCELLED"}

TaskStates == {"QUEUED", "READY", "RUNNING", "PAUSED", "BLOCKED",
               "VERIFYING", "COMPLETED", "FAILED", "CANCELLED"}

\* INTENT is a name the store accepts but never writes: begin_operation
\* inserts PREPARED rows.
OperationStates == {"PREPARED", "RUNNING", "EXITED", "UNCERTAIN"}
ActiveOperationStatuses == {"PREPARED", "RUNNING"}

FinishedMissionStatuses == {"COMPLETED", "CANCELLED"}
ControlledMissionStatuses == {"RUNNING", "PAUSED", "STOPPING"}
StartedMissionStatuses == {"RUNNING", "PAUSED"}
HaltedMissionStatuses == {"PAUSED", "STOPPING", "STOPPED"}
FinishedTaskStatuses == {"COMPLETED", "CANCELLED"}

\* Statuses that a mission may move to; a move to the same status is always
\* accepted and is not listed.
MissionTransitions ==
  [s \in MissionStates |->
     CASE s = "CREATED"  -> {"RUNNING", "CANCELLED"}
       [] s = "RUNNING"  -> {"PAUSED", "STOPPING", "STOPPED", "COMPLETED",
                             "FAILED", "CANCELLED"}
       [] s = "PAUSED"   -> {"RUNNING", "STOPPING", "CANCELLED"}
       [] s = "STOPPING" -> {"STOPPED", "RUNNING", "FAILED", "CANCELLED"}
       [] s \in {"STOPPED", "FAILED"} -> {"RUNNING", "CANCELLED"}
       [] OTHER -> {}]

TaskTransitions ==
  [s \in TaskStates |->
     CASE s = "QUEUED"    -> {"READY", "PAUSED", "BLOCKED", "CANCELLED"}
       [] s = "READY"     -> {"QUEUED", "RUNNING", "PAUSED", "BLOCKED", "CANCELLED"}
       [] s = "RUNNING"   -> {"PAUSED", "BLOCKED", "CANCELLED"}
       [] s \in {"PAUSED", "BLOCKED"} -> {"QUEUED", "READY", "CANCELLED"}
       [] s = "VERIFYING" -> {"FAILED", "CANCELLED"}
       [] s = "FAILED"    -> {"QUEUED", "CANCELLED"}
       [] OTHER -> {}]

\* The operator declined the provider's own trust prompt.
OPERATOR_DECLINED == 76
=============================================================================

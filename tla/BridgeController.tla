--------------------------- MODULE BridgeController ---------------------------
(***************************************************************************)
(* The mission controller (run_controller, the Ralph loop and the hooks    *)
(* Bridge puts around it), the processes it owns, the operator's commands  *)
(* and "stop --force", all on the store of BridgeStore.                    *)
(*                                                                         *)
(* The controller is one process with a program counter: each step is one  *)
(* store transaction, or one read whose result a later step uses.  What it *)
(* holds in memory (ctl) is lost when it crashes; the store, the provider  *)
(* process (alive) and the verifier process (checking) are not.            *)
(***************************************************************************)
EXTENDS BridgeStore

CONSTANTS
  Native,       \* the mission has a terminal station (TRUE) or is headless
  HasVerifier,  \* the mission configures a verifier
  AutoContinue, \* auto_continue_default: do not hold for a review
  Commands,     \* the operator commands of this instance
  MaxCommands,  \* bound: operator commands in a behaviour
  MaxStarts,    \* bound: starts of a controller
  MaxCrashes    \* bound: crashes of the controller

CommandNames ==
  {"pause", "resume", "stop", "cancel", "continue", "task.add", "task.amend",
   "task.pause", "task.requeue", "task.cancel", "task.dependency", "task.verify",
   "task.reject", "task.propose", "task.proposal-decision", "steer.verify",
   "steer.pause-after-iteration", "steer.stop-after-task", "start", "force-stop"}

ASSUME ControllerAssumption ==
  /\ {Native, HasVerifier, AutoContinue} \subseteq BOOLEAN
  /\ Commands \subseteq CommandNames
  /\ MaxCommands \in Nat /\ MaxStarts \in Nat /\ MaxCrashes \in Nat
  /\ 0 \in ExitCodes

VARIABLES
  ctl,        \* the controller process: its program counter and its memory
  requests,   \* config verification_requests
  pauseAfter, \* config pause_after_iteration
  stopAfter,  \* config stop_after_task
  released,   \* config released_reviews, by the operation that asked for review
  identity,   \* the process identity each operation records: none, its living or
              \* last process (current), or one of an earlier attempt (stale)
  managed,    \* the unresolved row of managed_processes
  station,    \* the mission's tmux server runs
  alive,      \* operations whose provider process lives
  checking,   \* a verifier process lives
  force,      \* a "stop --force" under way
  used        \* commands, starts and crashes so far

configVars == <<requests, pauseAfter, stopAfter, released>>
processVars == <<identity, managed, station, alive, checking>>
vars == <<storeVars, ctl, configVars, processVars, force, used>>

\* No controller holds the mission lock.
Off == [pc |-> "off", task |-> NoTask, rev |-> 0, op |-> 0, code |-> NoExit,
        seen |-> "CREATED", inAfter |-> FALSE, checked |-> NoTask, asked |-> {},
        todo |-> {}, kept |-> {}, left |-> {}]

\* Program counters before the ready file names the controller's process.
BootPCs == {"reconcile", "cleanup", "release", "read", "admit", "setup"}
LoopPCs == {"boundary", "drain", "drained", "flags", "halt", "look", "pick", "begin",
            "idle", "complete", "select", "launch", "refused", "prepared", "unmarked",
            "scheduled", "attempt", "spawned", "provider", "retry", "exited", "diagnose", "after", "handoff",
            "verify", "vprepare", "vstart", "vmark", "vrun", "vpass", "vfail"}
EndPCs == {"failing", "failed", "closing", "close"}

CInit ==
  /\ Init
  /\ ctl = Off
  /\ requests = {} /\ pauseAfter = FALSE /\ stopAfter = NoTask /\ released = {}
  /\ identity = [o \in Ops |-> "none"] /\ managed = "none" /\ station = FALSE /\ alive = {} /\ checking = FALSE
  /\ force = [pc |-> "idle", left |-> {}]
  /\ used = [commands |-> 0, starts |-> 0, crashes |-> 0]

----------------------------------------------------------------------------
(* Shorthands *)

At(pc) == ctl.pc = pc
Goto(pc) == ctl' = [ctl EXCEPT !.pc = pc]

\* The Ralph loop after a provider returned: the next iteration, or a return
\* because of a streak of failures or of instant successes.
LoopOrReturn ==
  \E pc \in {"boundary"} \cup (IF ctl.code \in {75, 76, 78} THEN {} ELSE {"closing"}) :
    ctl' = [ctl EXCEPT !.pc = pc, !.inAfter = FALSE]

\* A TransitionError: after_iteration swallows it, elsewhere it ends the loop.
Raise == IF ctl.inAfter THEN LoopOrReturn ELSE Goto("failing")

OnlyCtl == UNCHANGED <<storeVars, configVars, processVars, force, used>>
StoreStep == UNCHANGED <<configVars, processVars, force, used>>

\* The latest operation of a task: for a VERIFYING task, the one whose exit
\* asked for the review.
LastOp(t) == CHOOSE o \in Ops : opTask[o] = t /\ \A p \in Ops : opTask[p] = t => p <= o

Runnable(t) == Effective(t) /\ status[t] \in {"QUEUED", "READY"} /\ DependenciesComplete(t)

ReviewHold ==
  /\ ~AutoContinue
  /\ mission \notin {"COMPLETED", "FAILED", "CANCELLED"}
  /\ \A t \in Tasks : Effective(t) => status[t] # "RUNNING"
  /\ \E t \in Tasks : Effective(t) /\ status[t] = "VERIFYING" /\ LastOp(t) \notin released
  /\ \E t \in Tasks : Runnable(t)

\* wait_interrupted and _should_interrupt_wait, for a scheduler wait.
WaitInterrupted ==
  \/ mission \in HaltedMissionStatuses \cup {"COMPLETED", "FAILED", "CANCELLED"}
  \/ pauseAfter
  \/ stopAfter # NoTask /\ status[stopAfter] = "COMPLETED"
  \/ status[ctl.task] \in {"PAUSED", "CANCELLED"}

----------------------------------------------------------------------------
(* Startup and recovery: run_controller up to the loop *)

Identities == {"none", "current", "stale"}
OpenRows == Ops \X ActiveOperationStatuses \X Identities

\* The rows a recovery or a force stop reads before it reconciles.
OpenOperations == {<<o, opStatus[o], identity[o]>> : o \in {p \in Ops : ActiveOp(p)}}

\* The flock admits one process; the operations to recover are read first.
StartController ==
  /\ "start" \in Commands
  /\ At("off")
  /\ used.starts < MaxStarts
  /\ used' = [used EXCEPT !.starts = @ + 1]
  /\ ctl' = [Off EXCEPT !.pc = "reconcile", !.left = OpenOperations]
  /\ UNCHANGED <<storeVars, configVars, processVars, force>>

\* A start while a controller runs only releases the declined tasks.
StartAgain ==
  /\ "start" \in Commands
  /\ ~At("off")
  /\ ReleaseDeclinedTasks
  /\ UNCHANGED ctl /\ StoreStep

\* Mutant: a restart does not reconcile.
RecoverNothing == At("reconcile") /\ UNCHANGED storeVars /\ Goto("cleanup") /\ StoreStep

\* Mutant: a restart marks the operations and leaves their tasks RUNNING.
RecoverOperationsOnly == At("reconcile") /\ ReconcileOperationsOnly /\ Goto("cleanup") /\ StoreStep

Recover == At("reconcile") /\ ReconcileInterruptedOperations /\ Goto("cleanup") /\ StoreStep

\* An operation that was RUNNING and whose process cannot be named.
Unprovable(left) == \E o \in Ops : <<o, "RUNNING", "none">> \in left

\* Mutant: nothing is signalled.
SurvivorsOfNothing(left) == alive

\* The provider processes that stopping the station, or signalling the
\* recorded identities of the operations in left, leaves alive.
Survivors(left) ==
  IF station THEN {}
  ELSE {o \in alive : identity[o] = "current" =>
          \A s \in ActiveOperationStatuses : <<o, s, "current">> \notin left}

\* The pid of a provider that is gone now belongs to another process.
PidReused(left) ==
  \E row \in left : row[3] = "stale" \/ (row[3] = "current" /\ (row[1] \notin alive \/ identity[row[1]] = "stale"))

\* The exceptions here are outside the try block: the process just ends, and
\* what was reconciled stays reconciled.
Cleanup ==
  /\ At("cleanup")
  /\ IF managed = "STARTING"
     THEN ctl' = Off /\ UNCHANGED <<managed, checking, alive, station>>
     ELSE /\ managed' = "none"
          /\ checking' = (checking /\ managed # "RUNNING")
          /\ alive' = Survivors(ctl.left)
          /\ station' = FALSE
          /\ \/ ~(Unprovable(ctl.left) /\ ~station) /\ Goto("release")
             \/ (Unprovable(ctl.left) /\ ~station) /\ ctl' = Off
             \/ PidReused(ctl.left) /\ ctl' = Off
  /\ UNCHANGED <<storeVars, configVars, identity, force, used>>

Release == At("release") /\ ReleaseDeclinedTasks /\ Goto("read") /\ StoreStep

ReadStatus == At("read") /\ ctl' = [ctl EXCEPT !.pc = "admit", !.seen = mission] /\ OnlyCtl

\* The status decided on was read one step earlier.
Admit ==
  /\ At("admit")
  /\ CASE ctl.seen \in {"CREATED", "PAUSED", "STOPPED", "FAILED"} ->
            IF CanSetMissionStatus("RUNNING")
            THEN SetMissionStatus("RUNNING") /\ Goto("setup")
            ELSE UNCHANGED storeVars /\ ctl' = Off
       [] ctl.seen = "STOPPING" ->
            /\ IF CanSetMissionStatus("STOPPED") THEN SetMissionStatus("STOPPED") ELSE UNCHANGED storeVars
            /\ ctl' = Off
       [] ctl.seen \in FinishedMissionStatuses -> UNCHANGED storeVars /\ ctl' = Off
       [] OTHER -> UNCHANGED storeVars /\ Goto("setup")
  /\ StoreStep

\* The rotation is checked and the station opened; a bad rotation fails the
\* mission, a station that does not open ends the process.
Setup ==
  /\ At("setup")
  /\ \/ UNCHANGED storeVars /\ Goto("boundary") /\ station' = Native
     \/ /\ IF CanSetMissionStatus("FAILED") THEN SetMissionStatus("FAILED") ELSE UNCHANGED storeVars
        /\ ctl' = Off /\ UNCHANGED station
     \/ Native /\ UNCHANGED <<storeVars, station>> /\ ctl' = Off
  /\ UNCHANGED <<configVars, identity, managed, alive, checking, force, used>>

----------------------------------------------------------------------------
(* _apply_pending_boundary_requests *)

Boundary ==
  /\ At("boundary")
  /\ ctl' = [ctl EXCEPT !.pc = "drain", !.asked = requests, !.todo = requests, !.kept = {}]
  /\ OnlyCtl

Drain ==
  /\ At("drain")
  /\ \/ \E t \in ctl.todo :
          \/ /\ status[t] = "VERIFYING"
             /\ ctl' = [ctl EXCEPT !.pc = "verify", !.checked = t, !.todo = ctl.todo \ {t}]
          \/ /\ status[t] # "VERIFYING"
             /\ ctl' = [ctl EXCEPT !.todo = ctl.todo \ {t}, !.kept = ctl.kept \cup {t}]
     \/ ctl.todo = {} /\ Goto("drained")
  /\ OnlyCtl

\* The list that is written back was read before the verifiers ran.
Drained ==
  /\ At("drained")
  /\ requests' = IF ctl.kept # ctl.asked THEN ctl.kept ELSE requests
  /\ Goto("flags")
  /\ UNCHANGED <<storeVars, pauseAfter, stopAfter, released, processVars, force, used>>

\* Where the hook that drained the requests goes on.
BoundaryDone == IF ctl.inAfter THEN LoopOrReturn ELSE Goto("look")

Flags ==
  /\ At("flags")
  /\ LET stops == stopAfter # NoTask /\ status[stopAfter] = "COMPLETED" IN
     /\ stopAfter' = IF stops THEN NoTask ELSE stopAfter
     /\ pauseAfter' = (pauseAfter /\ stops)
     /\ IF (stops \/ pauseAfter) /\ mission = "RUNNING"
        THEN ctl' = [ctl EXCEPT !.pc = "halt", !.seen = IF stops THEN "STOPPING" ELSE "PAUSED"]
        ELSE BoundaryDone
  /\ UNCHANGED <<storeVars, requests, released, processVars, force, used>>

Halt ==
  /\ At("halt")
  /\ IF CanSetMissionStatus(ctl.seen)
     THEN SetMissionStatus(ctl.seen) /\ BoundaryDone
     ELSE UNCHANGED storeVars /\ Raise
  /\ StoreStep

----------------------------------------------------------------------------
(* before_iteration and the provider selection *)

\* Mutant: a stop is waited out like a pause.
LookPastStop ==
  /\ At("look")
  /\ Goto(IF mission \in {"PAUSED", "STOPPING"} THEN "boundary"
          ELSE IF mission # "RUNNING" THEN "closing"
          ELSE IF ReviewHold THEN "boundary" ELSE "pick")
  /\ OnlyCtl

Look ==
  /\ At("look")
  /\ Goto(IF mission = "PAUSED" THEN "boundary"
          ELSE IF mission # "RUNNING" THEN "closing"
          ELSE IF ReviewHold THEN "boundary" ELSE "pick")
  /\ OnlyCtl

\* The queue order is priority, order and age, which the operator sets at
\* will: any runnable task may be first.
Pick ==
  /\ At("pick")
  /\ ReadyTasks
  /\ LET ready == {t \in Tasks : /\ status'[t] = "READY" /\ Effective(t)
                                 /\ DependenciesComplete(t)} IN
     \/ \E t \in ready : ctl' = [ctl EXCEPT !.pc = "begin", !.task = t]
     \/ ready = {} /\ Goto("idle")
  /\ StoreStep

\* The prompt is made from the text of this moment.
Begin ==
  /\ At("begin")
  /\ BeginIteration(ctl.task)
  /\ ctl' = [ctl EXCEPT !.pc = "select", !.rev = revision[ctl.task]]
  /\ StoreStep

\* Mutant: an idle mission is not examined.
IdleForever == At("idle") /\ Goto("boundary") /\ OnlyCtl

Idle == At("idle") /\ Goto(IF AllTasksComplete THEN "complete" ELSE "boundary") /\ OnlyCtl

Complete ==
  /\ At("complete")
  /\ IF CanSetMissionStatus("COMPLETED")
     THEN SetMissionStatus("COMPLETED") /\ Goto("closing")
     ELSE UNCHANGED storeVars /\ Raise
  /\ StoreStep

\* Probing the providers takes seconds; when none is usable the loop waits
\* (_wait_signature promotes tasks) and starts over.
Select ==
  /\ At("select")
  /\ \/ UNCHANGED storeVars /\ Goto("launch")
     \/ ReadyTasks /\ Goto("boundary")
  /\ StoreStep

----------------------------------------------------------------------------
(* before_launch, the scheduler and the provider process *)

Launch ==
  /\ At("launch")
  /\ IF CanBeginOperation(ctl.task)
     THEN \E o \in Ops : /\ BeginOperation(ctl.task, o)
                         /\ ctl' = [ctl EXCEPT !.pc = "prepared", !.op = o]
     ELSE UNCHANGED storeVars /\ Goto(IF mission # "RUNNING" THEN "boundary" ELSE "refused")
  /\ StoreStep

\* The reads that tell a lost race from an error.
LaunchLost == mission # "RUNNING" \/ status[ctl.task] \in {"PAUSED", "CANCELLED"}

Refused == At("refused") /\ (IF LaunchLost THEN Goto("boundary") ELSE Raise) /\ OnlyCtl

MarkRunning ==
  /\ At("prepared")
  /\ IF CanMarkRunning(ctl.op)
     THEN MarkOperationRunning(ctl.op) /\ Goto("scheduled")
     ELSE UNCHANGED storeVars /\ Goto("unmarked")
  /\ StoreStep

Unmarked ==
  /\ At("unmarked")
  /\ IF LaunchLost /\ CanAbortPrepared(ctl.op)
     THEN AbortPreparedOperation(ctl.op) /\ Goto("boundary")
     ELSE UNCHANGED storeVars /\ Raise
  /\ StoreStep

\* run_scheduler_inline.  It may wait for capacity first: a wait that is
\* interrupted ends with 143, a command line that is too long with 78.
Scheduled ==
  /\ At("scheduled")
  /\ \/ \E code \in ExitCodes :
          /\ code = 78 \/ (code = 143 /\ WaitInterrupted)
          /\ ctl' = [ctl EXCEPT !.pc = "exited", !.code = code]
     \/ Goto("attempt")
  /\ OnlyCtl

\* A station that is gone shows as 143, which output_is_retryable takes for the
\* end of an attached run; a pane that cannot be used is an error or an abort.
\* The identity recorded for an earlier attempt is not that of the new process.
Attempt ==
  /\ At("attempt")
  /\ \/ \E code \in ExitCodes :
          /\ IF station # Native THEN code = 0 ELSE code = 1 \/ (code = 75 /\ Native)
          /\ ctl' = [ctl EXCEPT !.pc = "exited", !.code = code]
          /\ UNCHANGED <<alive, identity>>
     \/ /\ station = Native
        /\ Goto("spawned")
        /\ alive' = alive \cup {ctl.op}
        /\ identity' = [identity EXCEPT ![ctl.op] = IF @ = "none" THEN @ ELSE "stale"]
  /\ UNCHANGED <<storeVars, configVars, managed, station, checking, force, used>>

\* _record_process: a force stop may have resolved the operation, and then the
\* fresh process is killed.  A process that ended at once, or whose pid tmux
\* does not report, is not recorded.
RecordProcess ==
  /\ At("spawned")
  /\ IF opStatus[ctl.op] = "RUNNING"
     THEN /\ Goto("provider")
          /\ identity' \in {identity, [identity EXCEPT ![ctl.op] = "current"]}
          /\ UNCHANGED alive
     ELSE Raise /\ alive' = alive \ {ctl.op} /\ UNCHANGED identity
  /\ UNCHANGED <<storeVars, configVars, managed, station, checking, force, used>>

\* Mutant: the wait for the provider gives up and leaves the process.
ProviderAbandoned ==
  /\ At("provider")
  /\ ctl' = [ctl EXCEPT !.pc = "exited", !.code = 1]
  /\ UNCHANGED <<storeVars, configVars, processVars, force, used>>

\* The provider returns, with success, a failure, an abort (75) or a declined
\* trust prompt (76).  One that was killed is a success in a station and a
\* failure without one.  A failure is tried again after a delay.
ProviderExits ==
  /\ At("provider")
  /\ LET results == IF ctl.op \in alive THEN {0, 1, 75, 76} ELSE {IF Native THEN 0 ELSE 1} IN
     \/ \E code \in results \cap ExitCodes : ctl' = [ctl EXCEPT !.pc = "exited", !.code = code]
     \/ 1 \in results /\ Goto("retry")
  /\ alive' = alive \ {ctl.op}
  /\ UNCHANGED <<storeVars, configVars, identity, managed, station, checking, force, used>>

\* The delay before the next attempt is a wait like the one for capacity.
Retry ==
  /\ At("retry")
  /\ ctl' = IF WaitInterrupted THEN [ctl EXCEPT !.pc = "exited", !.code = 143]
            ELSE [ctl EXCEPT !.pc = "attempt"]
  /\ OnlyCtl

----------------------------------------------------------------------------
(* after_iteration *)

Exited ==
  /\ At("exited")
  /\ IF ActiveOp(ctl.op)
     THEN /\ FinishOperation(ctl.op, ctl.code)
          /\ ctl' = [ctl EXCEPT !.pc = "diagnose", !.inAfter = TRUE, !.seen = status'[ctl.task]]
     ELSE UNCHANGED storeVars /\ LoopOrReturn
  /\ StoreStep

Diagnose ==
  /\ At("diagnose")
  /\ UNCHANGED storeVars \/ DiagnoseCapacity(ctl.op)
  /\ Goto("after")
  /\ StoreStep

\* A failure is the boundary at which a pending amendment is applied; the task
\* status is the one finish_operation returned.
After ==
  /\ At("after")
  /\ \/ /\ ctl.code = 0
        /\ UNCHANGED storeVars
        /\ IF ctl.seen = "VERIFYING" /\ ctl.task \notin requests
           THEN ctl' = [ctl EXCEPT !.pc = "verify", !.checked = ctl.task, !.todo = {}, !.kept = {}, !.asked = {}]
           ELSE Goto("boundary")
     \/ /\ ctl.code \in {75, 76, 78}
        /\ UNCHANGED storeVars
        /\ Goto("boundary")
     \/ /\ ctl.code \notin {0, 75, 76, 78}
        /\ IF ctl.seen \in {"BLOCKED", "FAILED"}
           THEN BeginIteration(ctl.task) ELSE UNCHANGED storeVars
        /\ Goto("handoff")
  /\ StoreStep

Handoff ==
  /\ At("handoff")
  /\ IF CanContinue(ctl.op) THEN ContinueTaskAfterProviderFailure(ctl.op) ELSE UNCHANGED storeVars
  /\ Goto("boundary")
  /\ StoreStep

----------------------------------------------------------------------------
(* run_configured_verifier, called for ctl.checked *)

\* Where the verifier's caller goes on: the drain loop, or in after_iteration
\* the drain that follows.
VerifierDone == Goto(IF ctl.inAfter /\ ctl.asked = {} THEN "boundary" ELSE "drain")

Verify ==
  /\ At("verify")
  /\ \/ (status[ctl.checked] # "VERIFYING" \/ ~HasVerifier) /\ VerifierDone
     \/ /\ status[ctl.checked] = "VERIFYING" /\ HasVerifier
        /\ \E pc \in {"vprepare", "vfail"} :  \* vfail: the verifier's files were changed
             ctl' = [ctl EXCEPT !.pc = pc, !.rev = revision[ctl.checked]]
  /\ OnlyCtl

PrepareManagedProcess ==
  /\ At("vprepare")
  /\ IF mission = "RUNNING" /\ status[ctl.checked] = "VERIFYING"
     THEN managed' = "STARTING" /\ Goto("vstart")
     ELSE UNCHANGED managed /\ Raise
  /\ UNCHANGED <<storeVars, configVars, identity, station, alive, checking, force, used>>

\* The process is spawned, or cannot be (FAILED resolves the row).
SpawnVerifier ==
  /\ At("vstart")
  /\ \/ checking' = TRUE /\ Goto("vmark") /\ UNCHANGED managed
     \/ managed' = "none" /\ Goto("vfail") /\ UNCHANGED checking
  /\ UNCHANGED <<storeVars, configVars, identity, station, alive, force, used>>

\* A verifier that ended before its identity could be read stays STARTING.
MarkManagedProcessRunning ==
  /\ At("vmark")
  /\ \/ managed' = "RUNNING" /\ UNCHANGED checking
     \/ checking' = FALSE /\ UNCHANGED managed
  /\ Goto("vrun")
  /\ UNCHANGED <<storeVars, configVars, identity, station, alive, force, used>>

\* The verifier ends, or its time is up; the row may have been resolved by a
\* force stop, and then finish_managed_process raises.
FinishManagedProcess ==
  /\ At("vrun")
  /\ checking' = FALSE
  /\ IF managed # "none"
     THEN managed' = "none" /\ \E pc \in {"vpass", "vfail"} : Goto(pc)
     ELSE UNCHANGED managed /\ Raise
  /\ UNCHANGED <<storeVars, configVars, identity, station, alive, force, used>>

VerifierPassed ==
  /\ At("vpass")
  /\ IF CanVerify(ctl.checked) THEN VerifyTask(ctl.checked, TRUE) ELSE UNCHANGED storeVars
  /\ VerifierDone
  /\ StoreStep

VerifierFailed ==
  /\ At("vfail")
  /\ IF status[ctl.checked] = "VERIFYING" THEN VerifierDone ELSE Raise
  /\ OnlyCtl

----------------------------------------------------------------------------
(* The except and finally blocks of run_controller *)

Failing == At("failing") /\ ReconcileInterruptedOperations /\ Goto("failed") /\ StoreStep

\* A PAUSED mission cannot become FAILED: that error passes through finally.
Failed ==
  /\ At("failed")
  /\ IF mission \in {"RUNNING", "PAUSED"} /\ CanSetMissionStatus("FAILED")
     THEN SetMissionStatus("FAILED") ELSE UNCHANGED storeVars
  /\ Goto("closing")
  /\ StoreStep

Closing == At("closing") /\ ctl' = [ctl EXCEPT !.pc = "close", !.seen = mission] /\ OnlyCtl

\* The station closes with a stop or a cancel, stays with a pause or an error,
\* and closes with a finished mission unless somebody is attached.
Close ==
  /\ At("close")
  /\ LET final == IF ctl.seen = "STOPPING" THEN "STOPPED" ELSE "FAILED" IN
     IF ctl.seen \in {"STOPPING", "RUNNING"} /\ CanSetMissionStatus(final)
     THEN SetMissionStatus(final) ELSE UNCHANGED storeVars
  /\ ctl' = Off
  /\ station' \in IF ctl.seen \in {"STOPPING", "STOPPED", "CANCELLED"} THEN {FALSE}
                  ELSE IF ctl.seen = "PAUSED" \/ (ctl.seen = "RUNNING" /\ mission' # "FAILED") THEN {station}
                  ELSE {station, FALSE}
  /\ UNCHANGED <<configVars, identity, managed, alive, checking, force, used>>

\* The process dies at any point; what it spawned lives on.
Crash ==
  /\ ~At("off")
  /\ used.crashes < MaxCrashes
  /\ used' = [used EXCEPT !.crashes = @ + 1]
  /\ ctl' = Off
  /\ UNCHANGED <<storeVars, configVars, processVars, force>>

----------------------------------------------------------------------------
(* Processes without their controller *)

OrphanExits ==
  /\ \/ \E o \in alive : (At("off") \/ ctl.op # o) /\ alive' = alive \ {o} /\ UNCHANGED checking
     \/ checking /\ ctl.pc \notin {"vmark", "vrun"} /\ checking' = FALSE /\ UNCHANGED alive
  /\ UNCHANGED <<storeVars, ctl, configVars, identity, managed, station, force, used>>

----------------------------------------------------------------------------
(* stop --force, run from another process *)

ForceGoto(pc) == force' = [force EXCEPT !.pc = pc]
ForceIdle == force' = [pc |-> "idle", left |-> {}]

ForceBegin ==
  /\ "force-stop" \in Commands
  /\ force.pc = "idle"
  /\ used.commands < MaxCommands
  /\ used' = [used EXCEPT !.commands = @ + 1]
  /\ mission # "CREATED"
  /\ IF mission \in StartedMissionStatuses THEN SetMissionStatus("STOPPING") ELSE UNCHANGED storeVars
  /\ ForceGoto("snapshot")
  /\ UNCHANGED <<ctl, configVars, processVars>>

ForceSnapshot ==
  /\ force.pc = "snapshot"
  /\ force' = [pc |-> "reconcile", left |-> OpenOperations]
  /\ UNCHANGED <<storeVars, ctl, configVars, processVars, used>>

ForceReconcile ==
  /\ force.pc = "reconcile"
  /\ ReconcileInterruptedOperations
  /\ ForceGoto("managed")
  /\ UNCHANGED <<ctl, configVars, processVars, used>>

ForceManaged ==
  /\ force.pc = "managed"
  /\ IF managed = "STARTING"
     THEN ForceIdle /\ UNCHANGED <<managed, checking>>
     ELSE /\ ForceGoto("providers")
          /\ managed' = "none"
          /\ checking' = (checking /\ managed # "RUNNING")
  /\ UNCHANGED <<storeVars, ctl, configVars, identity, station, alive, used>>

\* Without a station and an identity the operation is given up only when the
\* controller has finished the stop itself.
ForceProviders ==
  /\ force.pc = "providers"
  /\ alive' = Survivors(force.left)
  /\ station' = FALSE
  /\ LET gaveUp == Unprovable(force.left) /\ ~station /\ mission # "STOPPED" IN
     \/ ~gaveUp /\ ForceGoto("controller")
     \/ gaveUp /\ ForceIdle
     \/ PidReused(force.left) /\ ~station /\ ForceIdle
  /\ UNCHANGED <<storeVars, ctl, configVars, identity, managed, checking, used>>

\* The ready file names the controller only once its startup is over.  With the
\* controller go its children: the verifier, and a provider without a station.
ForceController ==
  /\ force.pc = "controller"
  /\ IF ctl.pc \in {"off"} \cup BootPCs
     THEN UNCHANGED <<ctl, alive, checking>>
     ELSE /\ ctl' = Off
          /\ alive' = IF Native THEN alive ELSE alive \ {ctl.op}
          /\ checking' = (checking /\ ctl.pc \notin {"vmark", "vrun"})
  /\ ForceGoto("lock")
  /\ UNCHANGED <<storeVars, configVars, identity, managed, station, used>>

ForceFinish ==
  /\ force.pc = "lock"
  /\ \/ ~At("off") /\ UNCHANGED storeVars
     \/ At("off") /\ (IF mission = "STOPPING" THEN SetMissionStatus("STOPPED") ELSE UNCHANGED storeVars)
  /\ ForceIdle
  /\ UNCHANGED <<ctl, configVars, processVars, used>>

----------------------------------------------------------------------------
(* The operator's commands: _apply_operator_effect *)

Command(name) ==
  /\ name \in Commands
  /\ used.commands < MaxCommands
  /\ used' = [used EXCEPT !.commands = @ + 1]
  /\ UNCHANGED <<ctl, processVars, force>>

Pause == /\ Command("pause") /\ mission \in StartedMissionStatuses
         /\ SetMissionStatus("PAUSED") /\ UNCHANGED configVars

Resume == Command("resume") /\ SetMissionStatus("RUNNING") /\ UNCHANGED configVars

\* With no controller a PAUSED mission has nothing to stop.
Stop == /\ Command("stop")
        /\ mission = "RUNNING" \/ (mission = "PAUSED" /\ ~At("off"))
        /\ SetMissionStatus("STOPPING") /\ UNCHANGED configVars

Cancel == Command("cancel") /\ CancelMission /\ UNCHANGED configVars

Continue ==
  /\ Command("continue")
  /\ ReviewHold
  /\ released' = released \cup {LastOp(t) : t \in {u \in Tasks : Effective(u) /\ status[u] = "VERIFYING"}}
  /\ UNCHANGED <<storeVars, requests, pauseAfter, stopAfter>>

TaskCommand ==
  /\ \/ Command("task.add") /\ \E t \in Tasks, ds \in SUBSET Tasks : AddTask(t, ds)
     \/ Command("task.amend") /\ \E t \in Tasks : AmendTask(t)
     \/ Command("task.pause") /\ \E t \in Tasks : SetTaskStatus(t, "PAUSED")
     \/ Command("task.cancel") /\ \E t \in Tasks : SetTaskStatus(t, "CANCELLED")
     \/ Command("task.requeue") /\ \E t \in Tasks : RequeueTask(t)
     \/ Command("task.dependency") /\ \E t, d \in Tasks : AddDependency(t, d)
     \/ Command("task.verify") /\ \E t \in Tasks, approved \in BOOLEAN : VerifyTask(t, approved)
     \/ Command("task.reject") /\ \E t \in Tasks : RejectTask(t)
     \/ Command("task.propose") /\ \E t \in Tasks, o \in Ops, ds \in SUBSET Tasks : ProposeTask(t, o, ds)
     \/ Command("task.proposal-decision") /\ \E t \in Tasks : AcceptProposal(t) \/ RejectProposal(t)
  /\ UNCHANGED configVars

Steer ==
  /\ UNCHANGED storeVars
  /\ \/ /\ Command("steer.verify") /\ HasVerifier
        /\ \E t \in Tasks : status[t] \in {"RUNNING", "VERIFYING"} /\ requests' = requests \cup {t}
        /\ UNCHANGED <<pauseAfter, stopAfter, released>>
     \/ /\ Command("steer.pause-after-iteration")
        /\ pauseAfter' = TRUE
        /\ UNCHANGED <<requests, stopAfter, released>>
     \/ /\ Command("steer.stop-after-task")
        /\ \E t \in Tasks : Exists(t) /\ stopAfter' = t
        /\ UNCHANGED <<requests, pauseAfter, released>>

----------------------------------------------------------------------------
Boot == Recover \/ Cleanup \/ Release \/ ReadStatus \/ Admit \/ Setup
Iterate ==
  \/ Boundary \/ Drain \/ Drained \/ Flags \/ Halt
  \/ Look \/ Pick \/ Begin \/ Idle \/ Complete \/ Select
  \/ Launch \/ Refused \/ MarkRunning \/ Unmarked \/ Scheduled
  \/ Attempt \/ RecordProcess \/ ProviderExits \/ Retry
  \/ Exited \/ Diagnose \/ After \/ Handoff
Verifier ==
  \/ Verify \/ PrepareManagedProcess \/ SpawnVerifier \/ MarkManagedProcessRunning
  \/ FinishManagedProcess \/ VerifierPassed \/ VerifierFailed
End == Failing \/ Failed \/ Closing \/ Close

Controller == Boot \/ Iterate \/ Verifier \/ End
ForceStop ==
  \/ ForceBegin \/ ForceSnapshot \/ ForceReconcile \/ ForceManaged \/ ForceProviders \/ ForceController \/ ForceFinish
Operator == StartController \/ StartAgain \/ Pause \/ Resume \/ Stop \/ Cancel \/ Continue \/ TaskCommand \/ Steer

CNext == Controller \/ Crash \/ OrphanExits \/ ForceStop \/ Operator

CSpec == CInit /\ [][CNext]_vars

\* A live controller keeps taking steps and its provider eventually returns.
FairCSpec == CSpec /\ WF_vars(Controller)

----------------------------------------------------------------------------
(* Properties *)

PCs == {"off"} \cup BootPCs \cup LoopPCs \cup EndPCs

Memory ==
  [pc : PCs, task : Tasks \cup {NoTask}, checked : Tasks \cup {NoTask},
   rev : Revisions \cup {0}, op : Ops \cup {0}, code : ExitCodes \cup {NoExit},
   seen : MissionStates \cup TaskStates \cup {"ABSENT"}, inAfter : BOOLEAN,
   asked : SUBSET Tasks, todo : SUBSET Tasks, kept : SUBSET Tasks, left : SUBSET OpenRows]

SharedTypeOK ==
  /\ requests \subseteq Tasks /\ pauseAfter \in BOOLEAN /\ stopAfter \in Tasks \cup {NoTask}
  /\ released \subseteq Ops /\ alive \subseteq Ops
  /\ identity \in [Ops -> Identities]
  /\ managed \in {"none", "STARTING", "RUNNING"}
  /\ station \in BOOLEAN /\ checking \in BOOLEAN
  /\ force \in [pc : {"idle", "snapshot", "reconcile", "managed", "providers", "controller", "lock"},
               left : SUBSET OpenRows]
  /\ used \in [commands : Nat, starts : Nat, crashes : Nat]

\* The memory of the controller and of a force stop, the configuration and the
\* process tables hold values of their domains.
CTypeOK == ctl \in Memory /\ SharedTypeOK

\* One provider works for a mission at a time: whatever crashes, restarts and
\* force stops do, at most one operation of the mission is unresolved.
SoleOperation == \A o, p \in Ops : ActiveOp(o) /\ ActiveOp(p) => o = p

\* A provider process belongs to an operation that is RUNNING or whose outcome
\* is recorded as UNCERTAIN, never to one with a recorded exit, and there is
\* only one, in a mission with a station.
ProviderIsAccountedFor ==
  /\ \A o \in alive : opStatus[o] \in {"RUNNING", "UNCERTAIN"}
  /\ Cardinality(alive) <= 1

\* The controller, its operator and a force stop change the store only by the
\* transactions of BridgeStore: the composed system implements the store, so
\* what holds of the store holds of it.
ImplementsStore == Spec

\* STOPPED is truthful (comment in run_controller): no provider process is
\* alive, whichever of the controller and its successors wrote it.  A mission
\* with a station, without a force stop that a start overtakes (README).
StoppedIsTruthful == mission = "STOPPED" => alive = {}

\* The task waits for the operator because the outcome of its last operation
\* is not known.
Unknown(t) ==
  /\ status[t] = "BLOCKED"
  /\ \E o \in Ops : /\ opTask[o] = t /\ opStatus[o] = "UNCERTAIN"
                   /\ \A p \in Ops : opTask[p] = t => p <= o

\* Interrupted work is never replayed on its own: only a command of the
\* operator takes a task whose outcome is unknown out of BLOCKED, not a
\* restart, a released trust prompt or a provider handoff.
UnknownNeedsOperator ==
  [][\A t \in Tasks : Unknown(t) /\ ~Unknown(t)' => used'.commands # used.commands]_vars

\* A verifier's verdict completes only the revision it was started for,
\* although the operator may amend, reject or cancel the task meanwhile.
VerdictIsForItsRevision ==
  [][ctl.pc = "vpass" /\ status[ctl.checked] # "COMPLETED" /\ status'[ctl.checked] = "COMPLETED"
       => ctl.rev = revision[ctl.checked]]_vars

\* A stop that reaches a running controller is carried out, wherever in its
\* loop the controller is.
StopIsFollowed == (mission = "STOPPING" /\ ctl.pc \in LoopPCs) ~> mission # "STOPPING"

\* A mission whose tasks are all verified does not stay RUNNING.
CompletionIsReached ==
  (AllTasksComplete /\ mission = "RUNNING" /\ ctl.pc \in LoopPCs)
    ~> (mission # "RUNNING" \/ ~AllTasksComplete)

\* A mission that is to end does, whatever its controller is in the middle of.
MissionsEnd == StopIsFollowed /\ CompletionIsReached

=============================================================================

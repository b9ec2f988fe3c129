----------------------------- MODULE BridgeStore -----------------------------
(***************************************************************************)
(* The durable state of one Bridge mission and every transaction that      *)
(* changes it (bridge_store.py, and the operator effects of bridge.py that *)
(* run several store calls in one transaction).  SQLite serializes the     *)
(* transactions (BEGIN IMMEDIATE), so each one is one action; a call that  *)
(* raises rolls back and is no step.                                       *)
(*                                                                         *)
(* Any process may call any transaction at any time here: what             *)
(* BridgeControllerProofs proves of the store holds whatever the callers   *)
(* do.  BridgeController composes these actions with the controller        *)
(* process.                                                                *)
(***************************************************************************)
EXTENDS BridgeStates, Integers, FiniteSets

CONSTANTS
  Tasks,        \* task ids that may ever be created
  MaxOps,       \* bound: operations that may ever be created
  MaxRevision,  \* bound: amendments raise a task's revision up to this
  MaxFailures,  \* handoff budget of continue_task_after_provider_failure
  MaxProposals, \* MAX_PROPOSALS_PER_OPERATION
  InitialTasks, \* tasks created together with the mission
  NoTask,       \* the task of an operation row that does not exist yet
  ExitCodes     \* exit statuses a provider run may end with

ASSUME ConstantsAssumption ==
  /\ MaxOps \in Nat \ {0}
  /\ MaxRevision \in Nat \ {0}
  /\ MaxFailures \in Nat \ {0}
  /\ MaxProposals \in Nat
  /\ InitialTasks \subseteq Tasks
  /\ IsFiniteSet(Tasks)
  /\ NoTask \notin Tasks
  /\ ExitCodes \subseteq Nat /\ 143 \in ExitCodes

VARIABLES
  mission,    \* missions.status
  status,     \* tasks.status; ABSENT before the row exists
  origin,     \* tasks.origin and proposal_status in one value
  proposer,   \* tasks.proposed_by_operation, 0 for an operator's task
  deps,       \* task_dependencies
  revision,   \* tasks.revision
  pending,    \* tasks.pending_json is not empty
  evidence,   \* the revisions named by the entries of tasks.evidence_json
  opTask,     \* operations.task_id
  opStatus,   \* operations.status; ABSENT before the row exists
  opExit,     \* operations.exit_code
  capacity    \* operations diagnosed as a quota failure

taskVars == <<status, origin, proposer, deps, revision, pending, evidence>>
opVars == <<opTask, opStatus, opExit, capacity>>
storeVars == <<mission, taskVars, opVars>>

Ops == 1..MaxOps
Revisions == 1..MaxRevision
NoExit == -1

----------------------------------------------------------------------------
(* Queries *)

Exists(t) == status[t] # "ABSENT"

\* A task the mission counts: the operator's own, or an accepted proposal.
Effective(t) == Exists(t) /\ origin[t] \in {"operator", "ACCEPTED"}

ActiveOp(o) == opStatus[o] \in ActiveOperationStatuses
HasActiveOp(t) == \E o \in Ops : opTask[o] = t /\ ActiveOp(o)

\* Mutant: work that waits for its verdict counts as done.
DependenciesRun(t) == \A d \in deps[t] : status[d] \in {"VERIFYING", "COMPLETED"}

DependenciesComplete(t) == \A d \in deps[t] : status[d] = "COMPLETED"

\* The recursive query of _add_dependency_locked: everything t waits for,
\* the least set that holds deps[t] and is closed under deps.
Ancestors(D, t) ==
  {x \in Tasks : \A S \in SUBSET Tasks :
     (D[t] \subseteq S /\ \A y \in S : D[y] \subseteq S) => x \in S}

\* The task's latest operation is one the operator declined.
Declined(t) ==
  \E o \in Ops : /\ opTask[o] = t
                 /\ opExit[o] = OPERATOR_DECLINED
                 /\ \A p \in Ops : opTask[p] = t => p <= o

\* Exits that count against the handoff budget: quota failures do not.
ProviderFailures(t) ==
  {o \in Ops : /\ opTask[o] = t
               /\ opStatus[o] = "EXITED"
               /\ opExit[o] \notin {0, OPERATOR_DECLINED}
               /\ o \notin capacity}

\* ready_tasks: every runnable queued task becomes READY.
Promoted(st) ==
  [t \in Tasks |->
     IF /\ st[t] = "QUEUED"
        /\ Effective(t)
        /\ \A d \in deps[t] : st[d] = "COMPLETED"
     THEN "READY" ELSE st[t]]

----------------------------------------------------------------------------
Init ==
  /\ mission = "CREATED"
  /\ status = [t \in Tasks |-> IF t \in InitialTasks THEN "QUEUED" ELSE "ABSENT"]
  /\ origin = [t \in Tasks |-> "operator"]
  /\ proposer = [t \in Tasks |-> 0]
  /\ deps = [t \in Tasks |-> {}]
  /\ revision = [t \in Tasks |-> 1]
  /\ pending = [t \in Tasks |-> FALSE]
  /\ evidence = [t \in Tasks |-> {}]
  /\ opTask = [o \in Ops |-> NoTask]
  /\ opStatus = [o \in Ops |-> "ABSENT"]
  /\ opExit = [o \in Ops |-> NoExit]
  /\ capacity = {}

----------------------------------------------------------------------------
(* The mission *)

AllTasksComplete ==
  /\ \E t \in Tasks : Effective(t)
  /\ \A t \in Tasks : Effective(t) => status[t] = "COMPLETED"

CanSetMissionStatus(s) ==
  /\ s = mission \/ s \in MissionTransitions[mission]
  /\ s = "COMPLETED" => AllTasksComplete

SetMissionStatus(s) ==
  /\ CanSetMissionStatus(s)
  /\ mission' = s
  /\ UNCHANGED <<taskVars, opVars>>

\* Mutant: the cancel command also takes tasks that are COMPLETED.
CancelEveryTask ==
  /\ mission' = IF mission \in FinishedMissionStatuses THEN mission ELSE "CANCELLED"
  /\ status' = [t \in Tasks |-> IF Exists(t) THEN "CANCELLED" ELSE status[t]]
  /\ UNCHANGED <<origin, proposer, deps, revision, pending, evidence, opVars>>

\* The cancel command: the mission, then each task that is not finished.  A
\* mission that is COMPLETED keeps its status, its open proposals still go.
CancelMission ==
  /\ mission' = IF mission \in FinishedMissionStatuses THEN mission ELSE "CANCELLED"
  /\ status' = [t \in Tasks |->
                  IF Exists(t) /\ status[t] \notin FinishedTaskStatuses
                  THEN "CANCELLED" ELSE status[t]]
  /\ UNCHANGED <<origin, proposer, deps, revision, pending, evidence, opVars>>

----------------------------------------------------------------------------
(* Tasks and dependencies *)

\* Mutant: a row that exists is overwritten and keeps its dependencies.
InsertOrReplaceTask(t, ds, orig, o) ==
  /\ \A d \in ds : Exists(d)
  /\ status' = [status EXCEPT ![t] = "QUEUED"]
  /\ origin' = [origin EXCEPT ![t] = orig]
  /\ proposer' = [proposer EXCEPT ![t] = o]
  /\ deps' = [deps EXCEPT ![t] = IF Exists(t) THEN @ ELSE ds]
  /\ UNCHANGED <<revision, pending, evidence, opVars>>

\* A new task row with its dependencies.  The fresh row is QUEUED and nothing
\* waits for it yet, so the checks of _add_dependency_locked reduce to the
\* existence of each prerequisite.
InsertTask(t, ds, orig, o) ==
  /\ ~Exists(t)
  /\ \A d \in ds : Exists(d)
  /\ status' = [status EXCEPT ![t] = "QUEUED"]
  /\ origin' = [origin EXCEPT ![t] = orig]
  /\ proposer' = [proposer EXCEPT ![t] = o]
  /\ deps' = [deps EXCEPT ![t] = ds]
  /\ UNCHANGED <<revision, pending, evidence, opVars>>

\* Mutant: a follow-up task does not reopen a COMPLETED mission.
AddTaskWithoutReopening(t, ds) ==
  /\ mission # "CANCELLED"
  /\ InsertTask(t, ds, "operator", 0)
  /\ UNCHANGED mission

AddTask(t, ds) ==
  /\ mission # "CANCELLED"
  /\ InsertTask(t, ds, "operator", 0)
  /\ mission' = IF mission = "COMPLETED" THEN "STOPPED" ELSE mission

ProposeTask(t, o, ds) ==
  /\ mission \notin FinishedMissionStatuses
  /\ opStatus[o] # "ABSENT"
  /\ Cardinality({p \in Tasks : proposer[p] = o}) < MaxProposals
  /\ InsertTask(t, ds, "PENDING", o)
  /\ UNCHANGED mission

AcceptProposal(t) ==
  /\ Exists(t)
  /\ origin[t] = "PENDING"
  /\ mission \notin FinishedMissionStatuses
  /\ origin' = [origin EXCEPT ![t] = "ACCEPTED"]
  /\ UNCHANGED <<mission, status, proposer, deps, revision, pending, evidence, opVars>>

RejectProposal(t) ==
  /\ Exists(t)
  /\ origin[t] = "PENDING"
  /\ origin' = [origin EXCEPT ![t] = "REJECTED"]
  /\ status' = [status EXCEPT ![t] = "CANCELLED"]
  /\ UNCHANGED <<mission, proposer, deps, revision, pending, evidence, opVars>>

\* Mutant: no cycle check.
CanAddAnyDependency(t, d) ==
  /\ Exists(t) /\ Exists(d)
  /\ status[t] \notin {"RUNNING", "VERIFYING"} \cup FinishedTaskStatuses
  /\ t # d

CanAddDependency(t, d) ==
  /\ Exists(t) /\ Exists(d)
  /\ status[t] \notin {"RUNNING", "VERIFYING"} \cup FinishedTaskStatuses
  /\ t # d
  /\ t \notin Ancestors(deps, d)

AddDependency(t, d) ==
  /\ CanAddDependency(t, d)
  /\ deps' = [deps EXCEPT ![t] = @ \cup {d}]
  /\ status' = IF status[d] # "COMPLETED" /\ status[t] = "READY"
               THEN [status EXCEPT ![t] = "QUEUED"] ELSE status
  /\ UNCHANGED <<mission, origin, proposer, revision, pending, evidence, opVars>>

ReadyTasks ==
  /\ status' = Promoted(status)
  /\ UNCHANGED <<mission, origin, proposer, deps, revision, pending, evidence, opVars>>

CanSetTaskStatus(t, s) ==
  /\ Exists(t)
  /\ s = status[t] \/ s \in TaskTransitions[status[t]]
  /\ s = "READY" => DependenciesComplete(t)

\* task pause and task cancel: the statuses the callers of set_task_status
\* pass on their own.
SetTaskStatus(t, s) ==
  /\ s \in {"PAUSED", "CANCELLED"}
  /\ CanSetTaskStatus(t, s)
  /\ status' = [status EXCEPT ![t] = s]
  /\ UNCHANGED <<mission, origin, proposer, deps, revision, pending, evidence, opVars>>

\* task resume and task retry: QUEUED, then ready_tasks, in one transaction.
RequeueTask(t) ==
  /\ CanSetTaskStatus(t, "QUEUED")
  /\ status' = Promoted([status EXCEPT ![t] = "QUEUED"])
  /\ UNCHANGED <<mission, origin, proposer, deps, revision, pending, evidence, opVars>>

----------------------------------------------------------------------------
(* Amendments *)

\* Mutant: text amended during verification leaves the task VERIFYING.
AmendDuringVerification(t) ==
  /\ Exists(t)
  /\ status[t] \notin {"COMPLETED", "FAILED", "CANCELLED"}
  /\ revision[t] < MaxRevision
  /\ revision' = [revision EXCEPT ![t] = @ + 1]
  /\ pending' = [pending EXCEPT ![t] = status[t] # "VERIFYING" /\ HasActiveOp(t)]
  /\ UNCHANGED <<mission, status, evidence, origin, proposer, deps, opVars>>

\* The new text waits for the boundary only while a provider step is active;
\* text amended while it awaits verification sends the task back to READY and
\* drops its evidence.
AmendTask(t) ==
  /\ Exists(t)
  /\ status[t] \notin {"COMPLETED", "FAILED", "CANCELLED"}
  /\ revision[t] < MaxRevision
  /\ revision' = [revision EXCEPT ![t] = @ + 1]
  /\ pending' = [pending EXCEPT ![t] = status[t] # "VERIFYING" /\ HasActiveOp(t)]
  /\ IF status[t] = "VERIFYING"
     THEN /\ status' = [status EXCEPT ![t] = "READY"]
          /\ evidence' = [evidence EXCEPT ![t] = {}]
     ELSE UNCHANGED <<status, evidence>>
  /\ UNCHANGED <<mission, origin, proposer, deps, opVars>>

BeginIteration(t) ==
  /\ Exists(t)
  /\ pending' = [pending EXCEPT ![t] = FALSE]
  /\ UNCHANGED <<mission, status, origin, proposer, deps, revision, evidence, opVars>>

----------------------------------------------------------------------------
(* Operations: one launch of a provider for a task *)

NewOp(o) == /\ opStatus[o] = "ABSENT"
            /\ \A p \in Ops : p < o => opStatus[p] # "ABSENT"

CanBeginOperation(t) ==
  /\ mission = "RUNNING"
  /\ status[t] \in {"QUEUED", "READY", "RUNNING"}
  /\ origin[t] \in {"operator", "ACCEPTED"}
  /\ ~HasActiveOp(t)
  /\ DependenciesComplete(t)

BeginOperation(t, o) ==
  /\ CanBeginOperation(t)
  /\ NewOp(o)
  /\ pending' = [pending EXCEPT ![t] = FALSE]
  /\ status' = [status EXCEPT ![t] = "RUNNING"]
  /\ opTask' = [opTask EXCEPT ![o] = t]
  /\ opStatus' = [opStatus EXCEPT ![o] = "PREPARED"]
  /\ UNCHANGED <<mission, origin, proposer, deps, revision, evidence, opExit, capacity>>

CanMarkRunning(o) ==
  /\ opStatus[o] = "PREPARED"
  /\ mission = "RUNNING"
  /\ status[opTask[o]] = "RUNNING"

MarkOperationRunning(o) ==
  /\ CanMarkRunning(o)
  /\ opStatus' = [opStatus EXCEPT ![o] = "RUNNING"]
  /\ UNCHANGED <<mission, taskVars, opTask, opExit, capacity>>

\* A pause or cancel won before the launch.  The last alternative of the code
\* raises, so the action has no step there.
CanAbortPrepared(o) ==
  /\ opStatus[o] = "PREPARED"
  /\ \/ status[opTask[o]] \in {"PAUSED", "CANCELLED"}
     \/ mission \in HaltedMissionStatuses \cup {"CANCELLED"}

AbortPreparedOperation(o) ==
  /\ CanAbortPrepared(o)
  /\ status' = [status EXCEPT ![opTask[o]] =
                  IF @ \in {"PAUSED", "CANCELLED"} THEN @
                  ELSE IF mission = "CANCELLED" THEN "CANCELLED" ELSE "READY"]
  /\ opStatus' = [opStatus EXCEPT ![o] = "EXITED"]
  /\ opExit' = [opExit EXCEPT ![o] = 143]
  /\ UNCHANGED <<mission, origin, proposer, deps, revision, pending, evidence, opTask, capacity>>

\* Mutant: a run that was interrupted is verified like one that succeeded.
ExitStatusAnyExit(code, amended) ==
  CASE code \in {0, 143} -> IF amended THEN "READY" ELSE "VERIFYING"
    [] code \in {75, OPERATOR_DECLINED} -> "BLOCKED"
    [] OTHER -> "FAILED"

\* The status an exit code leads to when no pause or cancel is waiting.
ExitStatus(code, amended) ==
  CASE code = 0 -> IF amended THEN "READY" ELSE "VERIFYING"
    [] code \in {75, OPERATOR_DECLINED} -> "BLOCKED"
    [] code = 143 /\ mission \in HaltedMissionStatuses -> "READY"
    [] OTHER -> "FAILED"

FinishOperation(o, code) ==
  LET t == opTask[o]
      applies == code = 0 /\ pending[t] IN
  /\ ActiveOp(o)
  /\ status' = [status EXCEPT ![t] =
                  IF @ \in {"PAUSED", "CANCELLED"} THEN @ ELSE ExitStatus(code, pending[t])]
  /\ pending' = [pending EXCEPT ![t] = @ /\ ~applies]
  /\ evidence' = [evidence EXCEPT ![t] = IF applies THEN {} ELSE @]
  /\ opStatus' = [opStatus EXCEPT ![o] = "EXITED"]
  /\ opExit' = [opExit EXCEPT ![o] = code]
  /\ UNCHANGED <<mission, origin, proposer, deps, revision, opTask, capacity>>

\* Mutant: the reconciliation forgets the tasks.
ReconcileOperationsOnly ==
  /\ opStatus' = [o \in Ops |-> IF ActiveOp(o) THEN "UNCERTAIN" ELSE opStatus[o]]
  /\ UNCHANGED <<mission, taskVars, opTask, opExit, capacity>>

\* Every operation a dead controller left open; its task whatever its status.
ReconcileInterruptedOperations ==
  /\ opStatus' = [o \in Ops |-> IF ActiveOp(o) THEN "UNCERTAIN" ELSE opStatus[o]]
  /\ status' = [t \in Tasks |-> IF HasActiveOp(t) THEN "BLOCKED" ELSE status[t]]
  /\ UNCHANGED <<mission, origin, proposer, deps, revision, pending, evidence,
                 opTask, opExit, capacity>>

\* Mutant: a start releases every BLOCKED task.
ReleaseBlockedTasks ==
  /\ status' = [t \in Tasks |-> IF status[t] = "BLOCKED" THEN "READY" ELSE status[t]]
  /\ UNCHANGED <<mission, origin, proposer, deps, revision, pending, evidence, opVars>>

ReleaseDeclinedTasks ==
  /\ status' = [t \in Tasks |->
                  IF status[t] = "BLOCKED" /\ Declined(t) THEN "READY" ELSE status[t]]
  /\ UNCHANGED <<mission, origin, proposer, deps, revision, pending, evidence, opVars>>

\* The quota diagnosis after_iteration records for a failed operation; a
\* diagnosis of any other exit is never read again.
DiagnoseCapacity(o) ==
  /\ opStatus[o] = "EXITED"
  /\ opExit[o] \notin {0, OPERATOR_DECLINED}
  /\ capacity' = capacity \cup {o}
  /\ UNCHANGED <<mission, taskVars, opTask, opStatus, opExit>>

CanContinue(o) ==
  /\ opStatus[o] = "EXITED"
  /\ opExit[o] \notin {NoExit, 0, OPERATOR_DECLINED}
  /\ mission = "RUNNING"
  /\ status[opTask[o]] \in {"BLOCKED", "FAILED"}
  /\ ~pending[opTask[o]]
  /\ DependenciesComplete(opTask[o])
  /\ Cardinality(ProviderFailures(opTask[o])) <= MaxFailures

ContinueTaskAfterProviderFailure(o) ==
  /\ CanContinue(o)
  /\ status' = [status EXCEPT ![opTask[o]] = "READY"]
  /\ UNCHANGED <<mission, origin, proposer, deps, revision, pending, evidence, opVars>>

----------------------------------------------------------------------------
(* Verification *)

CanVerify(t) ==
  /\ status[t] = "VERIFYING"
  /\ ~pending[t]
  /\ DependenciesComplete(t)

\* Evidence or an approval names the current revision; the operator's note
\* alone (record_only) does not complete the task.
VerifyTask(t, completes) ==
  /\ CanVerify(t)
  /\ evidence' = [evidence EXCEPT ![t] = @ \cup {revision[t]}]
  /\ status' = IF completes THEN [status EXCEPT ![t] = "COMPLETED"] ELSE status
  /\ UNCHANGED <<mission, origin, proposer, deps, revision, pending, opVars>>

\* VERIFYING -> FAILED -> QUEUED in one transaction.
RejectTask(t) ==
  /\ status[t] = "VERIFYING"
  /\ status' = [status EXCEPT ![t] = "QUEUED"]
  /\ UNCHANGED <<mission, origin, proposer, deps, revision, pending, evidence, opVars>>

----------------------------------------------------------------------------
MissionNext == (\E s \in MissionStates : SetMissionStatus(s)) \/ CancelMission

TaskNext ==
  \/ ReadyTasks
  \/ \E t \in Tasks :
       \/ \E ds \in SUBSET Tasks : AddTask(t, ds)
       \/ \E o \in Ops, ds \in SUBSET Tasks : ProposeTask(t, o, ds)
       \/ AcceptProposal(t)
       \/ RejectProposal(t)
       \/ \E d \in Tasks : AddDependency(t, d)
       \/ \E s \in TaskStates : SetTaskStatus(t, s)
       \/ RequeueTask(t)
       \/ AmendTask(t)
       \/ BeginIteration(t)
       \/ \E completes \in BOOLEAN : VerifyTask(t, completes)
       \/ RejectTask(t)

OperationNext ==
  \/ ReconcileInterruptedOperations
  \/ ReleaseDeclinedTasks
  \/ \E o \in Ops :
       \/ \E t \in Tasks : BeginOperation(t, o)
       \/ MarkOperationRunning(o)
       \/ AbortPreparedOperation(o)
       \/ \E code \in ExitCodes : FinishOperation(o, code)
       \/ DiagnoseCapacity(o)
       \/ ContinueTaskAfterProviderFailure(o)

Next == MissionNext \/ TaskNext \/ OperationNext

Spec == Init /\ [][Next]_storeVars

----------------------------------------------------------------------------
(* Properties *)

Origins == {"operator", "PENDING", "ACCEPTED", "REJECTED"}

\* Every column holds a value of its domain, and the operation rows are
\* filled in from the first one on.
TypeOK ==
  /\ mission \in MissionStates
  /\ status \in [Tasks -> TaskStates \cup {"ABSENT"}]
  /\ origin \in [Tasks -> Origins]
  /\ proposer \in [Tasks -> Ops \cup {0}]
  /\ deps \in [Tasks -> SUBSET Tasks]
  /\ revision \in [Tasks -> Revisions]
  /\ pending \in [Tasks -> BOOLEAN]
  /\ evidence \in [Tasks -> SUBSET Revisions]
  /\ opTask \in [Ops -> Tasks \cup {NoTask}]
  /\ opStatus \in [Ops -> OperationStates \cup {"ABSENT"}]
  /\ opExit \in [Ops -> ExitCodes \cup {NoExit}]
  /\ capacity \subseteq Ops

\* Two provider runs never work on one task: at most one operation of a task
\* is unresolved, although pausing and resuming a task makes it READY again
\* while its operation still runs.
OneActiveOperation ==
  \A o, p \in Ops : ActiveOp(o) /\ ActiveOp(p) /\ opTask[o] = opTask[p] => o = p

\* A task shows RUNNING exactly as long as an unresolved operation backs it,
\* and no unresolved operation belongs to a task that waits for a verdict or
\* has one (finish, abort and reconcile each settle both rows together).
RunningIsBacked ==
  \A t \in Tasks :
    /\ status[t] = "RUNNING" => HasActiveOp(t)
    /\ status[t] \in {"ABSENT", "BLOCKED", "VERIFYING", "COMPLETED", "FAILED"}
         => ~HasActiveOp(t)

\* No task ever waits for itself, directly or through others: the cycle check
\* of _add_dependency_locked suffices over any sequence of additions.
DependenciesAcyclic == \A t \in Tasks : t \notin Ancestors(deps, t)

\* The work a COMPLETED task was built on is COMPLETED and stays so, although
\* dependencies may be added to a task between its run and its verification.
CompletedDependencies ==
  \A t \in Tasks : status[t] = "COMPLETED" => \A d \in deps[t] : status[d] = "COMPLETED"

\* A task is COMPLETED only after a provider run that exited with success and
\* with evidence for the very revision the task has; no amendment is lost.
CompletedIsVerified ==
  \A t \in Tasks :
    status[t] = "COMPLETED" =>
      /\ revision[t] \in evidence[t]
      /\ ~pending[t]
      /\ \E o \in Ops : opTask[o] = t /\ opExit[o] = 0

\* No provider runs for an agent's proposal that the operator has not accepted.
ProposalsNeedAcceptance ==
  \A o \in Ops : opStatus[o] # "ABSENT" => origin[opTask[o]] \in {"operator", "ACCEPTED"}

\* A COMPLETED mission has only COMPLETED tasks, through follow-up tasks,
\* proposals, cancellation and reconciliation.
CompletedMission == mission = "COMPLETED" => AllTasksComplete

\* The rows of a mission fit together after every transaction: running work is
\* backed, nothing waits for itself, and what is finished was accepted, verified
\* and built on finished work.
TasksAreSound ==
  /\ RunningIsBacked
  /\ DependenciesAcyclic
  /\ CompletedDependencies
  /\ CompletedIsVerified
  /\ ProposalsNeedAcceptance
  /\ CompletedMission

\* Nothing takes a COMPLETED task out of that status (architecture.md, task
\* table): not a retry, an amendment, a mission cancel or a reconciliation.
CompletedIsFinal ==
  [][\A t \in Tasks : status[t] = "COMPLETED" => status'[t] = "COMPLETED"]_storeVars

\* A resolved operation is never reopened and never moves to another task, so
\* an UNCERTAIN outcome stays on record.
OperationsAreFinal ==
  [][\A o \in Ops :
       /\ opStatus[o] \in {"EXITED", "UNCERTAIN"} => opStatus'[o] = opStatus[o]
       /\ opStatus[o] # "ABSENT" => opTask'[o] = opTask[o]]_storeVars
=============================================================================

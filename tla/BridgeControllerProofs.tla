------------------------ MODULE BridgeControllerProofs ------------------------
(* Proofs about BridgeStore and BridgeController, for every instance.          *)
(*  1. The store by itself, whatever calls its transactions.                   *)
(*  2. The composed system: it implements the store, so the theorems of part 1 *)
(*     hold of it, and at most one provider launch of a mission is unresolved. *)
(*  3. Provider processes and verdicts: a provider is accounted for, STOPPED   *)
(*     is truthful, and a verdict is for the revision it was started for.      *)
EXTENDS BridgeController, FiniteSetTheorems, WellFoundedInduction, TLAPS

-----------------------------------------------------------------------------
(* 1. The store *)

\* The store's columns keep their domains under every transaction.
LEMMA TypeStep == TypeOK /\ [Next]_storeVars => TypeOK'
<1> SUFFICES ASSUME TypeOK, [Next]_storeVars PROVE TypeOK'
  OBVIOUS
<1> USE ConstantsAssumption DEF TypeOK, Ops, Revisions, taskVars, opVars
<1>1. CASE MissionNext
  <2>1. ASSUME NEW s \in MissionStates, SetMissionStatus(s) PROVE TypeOK'
    BY <2>1 DEF SetMissionStatus
  <2>2. CASE CancelMission
    BY <2>2 DEF CancelMission, MissionStates, TaskStates
  <2> QED BY <1>1, <2>1, <2>2 DEF MissionNext
<1>2. CASE TaskNext
  <2>1. CASE ReadyTasks
    BY <2>1 DEF ReadyTasks, Promoted, TaskStates
  <2>2. ASSUME NEW t \in Tasks, NEW ds \in SUBSET Tasks, AddTask(t, ds) PROVE TypeOK'
    BY <2>2 DEF AddTask, InsertTask, MissionStates, TaskStates, Origins
  <2>3. ASSUME NEW t \in Tasks, NEW o \in Ops, NEW ds \in SUBSET Tasks, ProposeTask(t, o, ds)
        PROVE TypeOK'
    BY <2>3 DEF ProposeTask, InsertTask, TaskStates, Origins
  <2>4. ASSUME NEW t \in Tasks, AcceptProposal(t) PROVE TypeOK'
    BY <2>4 DEF AcceptProposal, Origins
  <2>5. ASSUME NEW t \in Tasks, RejectProposal(t) PROVE TypeOK'
    BY <2>5 DEF RejectProposal, Origins, TaskStates
  <2>6. ASSUME NEW t \in Tasks, NEW d \in Tasks, AddDependency(t, d) PROVE TypeOK'
    BY <2>6 DEF AddDependency, TaskStates
  <2>7. ASSUME NEW t \in Tasks, NEW s \in TaskStates, SetTaskStatus(t, s) PROVE TypeOK'
    BY <2>7 DEF SetTaskStatus
  <2>8. ASSUME NEW t \in Tasks, RequeueTask(t) PROVE TypeOK'
    BY <2>8 DEF RequeueTask, Promoted, TaskStates
  <2>9. ASSUME NEW t \in Tasks, AmendTask(t) PROVE TypeOK'
    <3>1. revision' \in [Tasks -> Revisions]
      BY <2>9 DEF AmendTask
    <3>2. pending' \in [Tasks -> BOOLEAN]
      BY <2>9 DEF AmendTask
    <3>3. status' \in [Tasks -> TaskStates \cup {"ABSENT"}] /\ evidence' \in [Tasks -> SUBSET Revisions]
      BY <2>9 DEF AmendTask, TaskStates
    <3> QED BY <2>9, <3>1, <3>2, <3>3 DEF AmendTask
  <2>10. ASSUME NEW t \in Tasks, BeginIteration(t) PROVE TypeOK'
    BY <2>10 DEF BeginIteration
  <2>11. ASSUME NEW t \in Tasks, NEW completes \in BOOLEAN, VerifyTask(t, completes) PROVE TypeOK'
    BY <2>11 DEF VerifyTask, TaskStates
  <2>12. ASSUME NEW t \in Tasks, RejectTask(t) PROVE TypeOK'
    BY <2>12 DEF RejectTask, TaskStates
  <2> QED BY <1>2, <2>1, <2>2, <2>3, <2>4, <2>5, <2>6, <2>7, <2>8, <2>9, <2>10, <2>11, <2>12 DEF TaskNext
<1>3. CASE OperationNext
  <2>1. CASE ReconcileInterruptedOperations
    BY <2>1 DEF ReconcileInterruptedOperations, TaskStates, OperationStates
  <2>2. CASE ReleaseDeclinedTasks
    BY <2>2 DEF ReleaseDeclinedTasks, TaskStates
  <2>3. ASSUME NEW o \in Ops, NEW t \in Tasks, BeginOperation(t, o) PROVE TypeOK'
    BY <2>3 DEF BeginOperation, TaskStates, OperationStates
  <2>4. ASSUME NEW o \in Ops, MarkOperationRunning(o) PROVE TypeOK'
    BY <2>4 DEF MarkOperationRunning, OperationStates
  <2>5. ASSUME NEW o \in Ops, AbortPreparedOperation(o) PROVE TypeOK'
    BY <2>5 DEF AbortPreparedOperation, CanAbortPrepared, TaskStates, OperationStates
  <2>6. ASSUME NEW o \in Ops, NEW code \in ExitCodes, FinishOperation(o, code) PROVE TypeOK'
    BY <2>6 DEF FinishOperation, ExitStatus, TaskStates, OperationStates
  <2>7. ASSUME NEW o \in Ops, DiagnoseCapacity(o) PROVE TypeOK'
    BY <2>7 DEF DiagnoseCapacity
  <2>8. ASSUME NEW o \in Ops, ContinueTaskAfterProviderFailure(o) PROVE TypeOK'
    BY <2>8 DEF ContinueTaskAfterProviderFailure, TaskStates
  <2> QED BY <1>3, <2>1, <2>2, <2>3, <2>4, <2>5, <2>6, <2>7, <2>8 DEF OperationNext
<1>4. CASE UNCHANGED storeVars
  BY <1>4 DEF storeVars
<1> QED BY <1>1, <1>2, <1>3, <1>4 DEF Next

\* Every reachable state of the store is well typed.
THEOREM TypeCorrect == Spec => []TypeOK
<1>1. Init => TypeOK
  BY ConstantsAssumption DEF Init, TypeOK, Ops, Revisions, MissionStates, TaskStates, Origins,
     OperationStates
<1> QED BY <1>1, TypeStep, PTL DEF Spec

----------------------------------------------------------------------------
(* Dependencies *)

\* Ancestors(D, t) holds D[t] and is closed under D.
LEMMA AncestorsClosed ==
  ASSUME NEW D \in [Tasks -> SUBSET Tasks], NEW t \in Tasks
  PROVE  /\ Ancestors(D, t) \subseteq Tasks
         /\ D[t] \subseteq Ancestors(D, t)
         /\ \A y \in Ancestors(D, t) : D[y] \subseteq Ancestors(D, t)
  BY DEF Ancestors

\* It is the least such set.
LEMMA AncestorsLeast ==
  ASSUME NEW D, NEW t \in Tasks, NEW S \in SUBSET Tasks,
         D[t] \subseteq S, \A y \in S : D[y] \subseteq S
  PROVE  Ancestors(D, t) \subseteq S
  BY DEF Ancestors

\* The check of _add_dependency_locked is enough: giving task a prerequisites
\* B none of which waits for a keeps an acyclic graph acyclic.
LEMMA AddEdgesAcyclic ==
  ASSUME NEW D \in [Tasks -> SUBSET Tasks], NEW E \in [Tasks -> SUBSET Tasks],
         NEW a \in Tasks, NEW B \in SUBSET Tasks,
         \A t \in Tasks : t \notin Ancestors(D, t),
         a \notin B,
         \A b \in B : a \notin Ancestors(D, b),
         E[a] \subseteq D[a] \cup B,
         \A t \in Tasks : t # a => E[t] = D[t]
  PROVE  \A t \in Tasks : t \notin Ancestors(E, t)
<1> DEFINE C == B \cup UNION {Ancestors(D, b) : b \in B}
<1>1. C \in SUBSET Tasks /\ B \subseteq C /\ a \notin C
  BY AncestorsClosed
<1>2. \A y \in C : D[y] \subseteq C
  <2> SUFFICES ASSUME NEW y \in C PROVE D[y] \subseteq C
    OBVIOUS
  <2>1. CASE y \in B
    BY <2>1, AncestorsClosed
  <2>2. CASE y \notin B
    <3>1. PICK b \in B : y \in Ancestors(D, b)
      BY <2>2
    <3> QED BY <3>1, AncestorsClosed
  <2> QED BY <2>1, <2>2
<1> HIDE DEF C
<1> SUFFICES ASSUME NEW t \in Tasks
             PROVE  \E S \in SUBSET Tasks :
                      /\ E[t] \subseteq S
                      /\ \A y \in S : E[y] \subseteq S
                      /\ t \notin S
  BY DEF Ancestors
<1> DEFINE A == Ancestors(D, t)
<1>3. A \in SUBSET Tasks /\ D[t] \subseteq A /\ (\A y \in A : D[y] \subseteq A) /\ t \notin A
  BY AncestorsClosed
<1>4. t \in C => A \subseteq C
  BY <1>1, <1>2, AncestorsLeast
<1> HIDE DEF A
<1>5. CASE t = a
  <2> A \cup C \in SUBSET Tasks
    BY <1>1, <1>3
  <2> WITNESS A \cup C \in SUBSET Tasks
  <2> QED BY <1>1, <1>2, <1>3, <1>5
<1>6. CASE t # a /\ a \in A
  <2> A \cup C \in SUBSET Tasks
    BY <1>1, <1>3
  <2> WITNESS A \cup C \in SUBSET Tasks
  <2> QED BY <1>1, <1>2, <1>3, <1>4, <1>6
<1>7. CASE t # a /\ a \notin A
  <2> A \in SUBSET Tasks
    BY <1>3
  <2> WITNESS A \in SUBSET Tasks
  <2> QED BY <1>3, <1>7
<1> QED BY <1>5, <1>6, <1>7
----------------------------------------------------------------------------
(* Operations and their tasks *)

\* Operation rows and task rows refer to each other consistently: a row that
\* exists belongs to a task that exists, a row that does not has no outcome,
\* and only a task some provider run succeeded on can await a verdict.
RowsConsistent ==
  /\ \A o \in Ops : IF opStatus[o] = "ABSENT"
                    THEN opTask[o] = NoTask /\ opExit[o] = NoExit
                    ELSE opTask[o] \in Tasks /\ Exists(opTask[o])
  /\ \A t \in Tasks : status[t] \in {"VERIFYING", "COMPLETED"} =>
                        \E o \in Ops : opTask[o] = t /\ opExit[o] = 0

OpsInv == OneActiveOperation /\ RunningIsBacked /\ RowsConsistent /\ ProposalsNeedAcceptance

\* No transaction breaks the bond between a task's status and its operations.
LEMMA OpsStep == TypeOK /\ OpsInv /\ [Next]_storeVars => OpsInv'
<1> SUFFICES ASSUME TypeOK, OpsInv, [Next]_storeVars PROVE OpsInv'
  OBVIOUS
<1> USE ConstantsAssumption
<1> USE DEF TypeOK, OpsInv, OneActiveOperation, RunningIsBacked, RowsConsistent, ProposalsNeedAcceptance,
            ActiveOp, HasActiveOp, Exists, Ops, taskVars, opVars, ActiveOperationStatuses, NoExit
<1>1. CASE MissionNext
  <2>1. ASSUME NEW s \in MissionStates, SetMissionStatus(s) PROVE OpsInv'
    BY <2>1 DEF SetMissionStatus
  <2>2. CASE CancelMission
    BY <2>2 DEF CancelMission, FinishedTaskStatuses
  <2> QED BY <1>1, <2>1, <2>2 DEF MissionNext
<1>2. CASE TaskNext
  <2>1. CASE ReadyTasks
    BY <2>1 DEF ReadyTasks, Promoted
  <2>2. ASSUME NEW t \in Tasks, NEW ds \in SUBSET Tasks, AddTask(t, ds) PROVE OpsInv'
    BY <2>2 DEF AddTask, InsertTask
  <2>3. ASSUME NEW t \in Tasks, NEW o \in Ops, NEW ds \in SUBSET Tasks, ProposeTask(t, o, ds)
        PROVE OpsInv'
    BY <2>3 DEF ProposeTask, InsertTask
  <2>4. ASSUME NEW t \in Tasks, AcceptProposal(t) PROVE OpsInv'
    BY <2>4 DEF AcceptProposal
  <2>5. ASSUME NEW t \in Tasks, RejectProposal(t) PROVE OpsInv'
    BY <2>5 DEF RejectProposal
  <2>6. ASSUME NEW t \in Tasks, NEW d \in Tasks, AddDependency(t, d) PROVE OpsInv'
    BY <2>6 DEF AddDependency, CanAddDependency
  <2>7. ASSUME NEW t \in Tasks, NEW s \in TaskStates, SetTaskStatus(t, s) PROVE OpsInv'
    BY <2>7 DEF SetTaskStatus, CanSetTaskStatus
  <2>8. ASSUME NEW t \in Tasks, RequeueTask(t) PROVE OpsInv'
    BY <2>8 DEF RequeueTask, CanSetTaskStatus, Promoted
  <2>9. ASSUME NEW t \in Tasks, AmendTask(t) PROVE OpsInv'
    BY <2>9 DEF AmendTask
  <2>10. ASSUME NEW t \in Tasks, BeginIteration(t) PROVE OpsInv'
    BY <2>10 DEF BeginIteration
  <2>11. ASSUME NEW t \in Tasks, NEW completes \in BOOLEAN, VerifyTask(t, completes) PROVE OpsInv'
    BY <2>11 DEF VerifyTask, CanVerify
  <2>12. ASSUME NEW t \in Tasks, RejectTask(t) PROVE OpsInv'
    BY <2>12 DEF RejectTask
  <2> HIDE DEF OpsInv, TypeOK
  <2> QED BY <1>2, <2>1, <2>2, <2>3, <2>4, <2>5, <2>6, <2>7, <2>8, <2>9, <2>10, <2>11, <2>12 DEF TaskNext
<1>3. CASE OperationNext
  <2>1. CASE ReconcileInterruptedOperations
    BY <2>1 DEF ReconcileInterruptedOperations
  <2>2. CASE ReleaseDeclinedTasks
    BY <2>2 DEF ReleaseDeclinedTasks
  <2>3. ASSUME NEW o \in Ops, NEW t \in Tasks, BeginOperation(t, o) PROVE OpsInv'
    BY <2>3 DEF BeginOperation, CanBeginOperation, NewOp
  <2>4. ASSUME NEW o \in Ops, MarkOperationRunning(o) PROVE OpsInv'
    BY <2>4 DEF MarkOperationRunning, CanMarkRunning
  <2>5. ASSUME NEW o \in Ops, AbortPreparedOperation(o) PROVE OpsInv'
    BY <2>5 DEF AbortPreparedOperation, CanAbortPrepared
  <2>6. ASSUME NEW o \in Ops, NEW code \in ExitCodes, FinishOperation(o, code) PROVE OpsInv'
    BY <2>6 DEF FinishOperation, ExitStatus
  <2>7. ASSUME NEW o \in Ops, DiagnoseCapacity(o) PROVE OpsInv'
    BY <2>7 DEF DiagnoseCapacity
  <2>8. ASSUME NEW o \in Ops, ContinueTaskAfterProviderFailure(o) PROVE OpsInv'
    BY <2>8 DEF ContinueTaskAfterProviderFailure, CanContinue
  <2> QED BY <1>3, <2>1, <2>2, <2>3, <2>4, <2>5, <2>6, <2>7, <2>8 DEF OperationNext
<1>4. CASE UNCHANGED storeVars
  BY <1>4 DEF storeVars
<1> QED BY <1>1, <1>2, <1>3, <1>4 DEF Next
----------------------------------------------------------------------------
(* The dependency graph *)

\* Prerequisites are rows that exist.
DependenciesExist == \A t \in Tasks : \A d \in deps[t] : Exists(d)

GraphInv == DependenciesExist /\ DependenciesAcyclic

\* Inserting a task keeps the graph acyclic: nothing waits for a row that did
\* not exist.
LEMMA InsertAcyclic ==
  ASSUME TypeOK, GraphInv, NEW t \in Tasks, NEW ds \in SUBSET Tasks,
         NEW orig, NEW o, InsertTask(t, ds, orig, o)
  PROVE  DependenciesAcyclic'
<1> DEFINE X == {x \in Tasks : Exists(x)}
<1>1. t \notin X /\ ds \subseteq X
  BY DEF InsertTask
<1>2. \A b \in ds : t \notin Ancestors(deps, b)
  <2> SUFFICES ASSUME NEW b \in ds PROVE t \notin Ancestors(deps, b)
    OBVIOUS
  <2>1. deps[b] \subseteq X /\ \A y \in X : deps[y] \subseteq X
    BY <1>1 DEF GraphInv, DependenciesExist, TypeOK
  <2>2. Ancestors(deps, b) \subseteq X
    BY <2>1, AncestorsLeast
  <2> QED BY <1>1, <2>2
<1>3. deps' \in [Tasks -> SUBSET Tasks] /\ deps'[t] = ds /\ \A x \in Tasks : x # t => deps'[x] = deps[x]
  BY DEF InsertTask, TypeOK
<1>4. deps \in [Tasks -> SUBSET Tasks] /\ \A x \in Tasks : x \notin Ancestors(deps, x)
  BY DEF TypeOK, GraphInv, DependenciesAcyclic
<1>5. t \notin ds
  BY <1>1
<1>6. \A x \in Tasks : x \notin Ancestors(deps', x)
  BY <1>2, <1>3, <1>4, <1>5, AddEdgesAcyclic
<1> QED BY <1>6 DEF DependenciesAcyclic, Ancestors

\* add_dependency keeps the graph acyclic.
LEMMA AddDependencyAcyclic ==
  ASSUME TypeOK, GraphInv, NEW t \in Tasks, NEW d \in Tasks, AddDependency(t, d)
  PROVE  DependenciesAcyclic'
<1> DEFINE B == {d}
<1>1. deps' \in [Tasks -> SUBSET Tasks] /\ deps'[t] \subseteq deps[t] \cup B
      /\ \A x \in Tasks : x # t => deps'[x] = deps[x]
  BY DEF AddDependency, TypeOK
<1>2. B \in SUBSET Tasks /\ t \notin B /\ \A b \in B : t \notin Ancestors(deps, b)
  BY DEF AddDependency, CanAddDependency
<1>3. deps \in [Tasks -> SUBSET Tasks] /\ \A x \in Tasks : x \notin Ancestors(deps, x)
  BY DEF TypeOK, GraphInv, DependenciesAcyclic
<1> HIDE DEF B
<1>4. \A x \in Tasks : x \notin Ancestors(deps', x)
  BY <1>1, <1>2, <1>3, AddEdgesAcyclic
<1> QED BY <1>4 DEF DependenciesAcyclic, Ancestors

\* Only the three transactions that write task_dependencies change the graph,
\* and no row ever disappears.
LEMMA GraphFrame ==
  ASSUME TypeOK, [Next]_storeVars
  PROVE  \/ \E t \in Tasks, ds \in SUBSET Tasks : AddTask(t, ds)
         \/ \E t \in Tasks, o \in Ops, ds \in SUBSET Tasks : ProposeTask(t, o, ds)
         \/ \E t \in Tasks, d \in Tasks : AddDependency(t, d)
         \/ deps' = deps /\ \A x \in Tasks : Exists(x) => Exists(x)'
<1> USE DEF TypeOK, Exists, taskVars, opVars
<1>1. CASE MissionNext
  BY <1>1 DEF MissionNext, SetMissionStatus, CancelMission
<1>2. CASE TaskNext
  BY <1>2 DEF TaskNext, ReadyTasks, Promoted, AcceptProposal, RejectProposal, SetTaskStatus, RequeueTask,
     AmendTask, BeginIteration, VerifyTask, RejectTask, TaskStates
<1>3. CASE OperationNext
  <2>1. CASE ReconcileInterruptedOperations \/ ReleaseDeclinedTasks
    BY <2>1 DEF ReconcileInterruptedOperations, ReleaseDeclinedTasks
  <2>2. ASSUME NEW o \in Ops, NEW t \in Tasks, BeginOperation(t, o)
        PROVE  deps' = deps /\ \A x \in Tasks : Exists(x) => Exists(x)'
    BY <2>2 DEF BeginOperation
  <2>3. ASSUME NEW o \in Ops, MarkOperationRunning(o) \/ DiagnoseCapacity(o)
        PROVE  deps' = deps /\ \A x \in Tasks : Exists(x) => Exists(x)'
    BY <2>3 DEF MarkOperationRunning, DiagnoseCapacity
  <2>4. ASSUME NEW o \in Ops, AbortPreparedOperation(o) \/ ContinueTaskAfterProviderFailure(o)
        PROVE  deps' = deps /\ \A x \in Tasks : Exists(x) => Exists(x)'
    BY <2>4 DEF AbortPreparedOperation, CanAbortPrepared, ContinueTaskAfterProviderFailure
  <2>5. ASSUME NEW o \in Ops, NEW code \in ExitCodes, FinishOperation(o, code)
        PROVE  deps' = deps /\ \A x \in Tasks : Exists(x) => Exists(x)'
    BY <2>5 DEF FinishOperation, ExitStatus
  <2> QED BY <1>3, <2>1, <2>2, <2>3, <2>4, <2>5 DEF OperationNext
<1>4. CASE UNCHANGED storeVars
  BY <1>4 DEF storeVars
<1> QED BY <1>1, <1>2, <1>3, <1>4 DEF Next

\* The graph stays acyclic over rows that exist.
LEMMA GraphStep == TypeOK /\ GraphInv /\ [Next]_storeVars => GraphInv'
<1> SUFFICES ASSUME TypeOK, GraphInv, [Next]_storeVars PROVE GraphInv'
  OBVIOUS
<1>1. ASSUME NEW t \in Tasks, NEW ds \in SUBSET Tasks, AddTask(t, ds) PROVE GraphInv'
  <2>1. DependenciesAcyclic'
    BY <1>1, InsertAcyclic DEF AddTask
  <2> QED BY <1>1, <2>1 DEF GraphInv, DependenciesExist, Exists, AddTask, InsertTask, TypeOK
<1>2. ASSUME NEW t \in Tasks, NEW o \in Ops, NEW ds \in SUBSET Tasks, ProposeTask(t, o, ds)
      PROVE  GraphInv'
  <2>1. DependenciesAcyclic'
    BY <1>2, InsertAcyclic DEF ProposeTask
  <2> QED BY <1>2, <2>1 DEF GraphInv, DependenciesExist, Exists, ProposeTask, InsertTask, TypeOK
<1>3. ASSUME NEW t \in Tasks, NEW d \in Tasks, AddDependency(t, d) PROVE GraphInv'
  <2>1. DependenciesAcyclic'
    BY <1>3, AddDependencyAcyclic
  <2> QED BY <1>3, <2>1 DEF GraphInv, DependenciesExist, Exists, AddDependency, CanAddDependency, TypeOK
<1>4. CASE deps' = deps /\ \A x \in Tasks : Exists(x) => Exists(x)'
  BY <1>4 DEF GraphInv, DependenciesExist, DependenciesAcyclic, Ancestors, TypeOK
<1> QED BY <1>1, <1>2, <1>3, <1>4, GraphFrame
----------------------------------------------------------------------------
(* Verdicts *)

VerdictInv == CompletedDependencies /\ CompletedIsVerified /\ CompletedMission

\* A COMPLETED task is never touched again, for want of an unresolved
\* operation, a pending proposal or a table row that would let a transaction
\* take it out of that status.
LEMMA CompletedStays ==
  ASSUME TypeOK, OpsInv, [Next]_storeVars
  PROVE  \A t \in Tasks : status[t] = "COMPLETED" =>
           /\ status'[t] = "COMPLETED"
           /\ deps'[t] = deps[t]
           /\ revision'[t] = revision[t]
           /\ pending'[t] => pending[t]
           /\ evidence[t] \subseteq evidence'[t]
           /\ \A o \in Ops : opTask[o] = t /\ opExit[o] = 0 => opTask'[o] = t /\ opExit'[o] = 0
<1> SUFFICES ASSUME NEW c \in Tasks, status[c] = "COMPLETED"
             PROVE  /\ status'[c] = "COMPLETED"
                    /\ deps'[c] = deps[c]
                    /\ revision'[c] = revision[c]
                    /\ pending'[c] => pending[c]
                    /\ evidence[c] \subseteq evidence'[c]
                    /\ \A o \in Ops : opTask[o] = c /\ opExit[o] = 0 => opTask'[o] = c /\ opExit'[o] = 0
  OBVIOUS
<1>a. ~HasActiveOp(c) /\ origin[c] \in {"operator", "ACCEPTED"}
  BY DEF OpsInv, RunningIsBacked, RowsConsistent, ProposalsNeedAcceptance, NoExit, TypeOK
<1>b. \A s \in TaskStates : CanSetTaskStatus(c, s) => s = "COMPLETED"
  BY DEF CanSetTaskStatus, TaskTransitions, TaskStates
<1>c. \A o \in Ops : ActiveOp(o) => opTask[o] # c
  BY <1>a DEF HasActiveOp
<1>d. \A o \in Ops : opExit[o] = 0 => opStatus[o] # "ABSENT"
  BY DEF OpsInv, RowsConsistent, NoExit
<1> USE <1>a, <1>b, <1>c, <1>d DEF TypeOK, taskVars, opVars
<1>1. CASE MissionNext
  BY <1>1 DEF MissionNext, SetMissionStatus, CancelMission, FinishedTaskStatuses
<1>2. CASE TaskNext
  <2>1. CASE ReadyTasks
    BY <2>1 DEF ReadyTasks, Promoted
  <2>2. ASSUME NEW t \in Tasks, NEW o, NEW ds, NEW orig, InsertTask(t, ds, orig, o)
        PROVE  /\ status'[c] = "COMPLETED"
               /\ deps'[c] = deps[c]
               /\ UNCHANGED <<revision, pending, evidence, opVars>>
    BY <2>2 DEF InsertTask, Exists
  <2>3. ASSUME NEW t \in Tasks, AcceptProposal(t) \/ RejectProposal(t) \/ BeginIteration(t) \/ RejectTask(t)
        PROVE  /\ status'[c] = "COMPLETED"
               /\ UNCHANGED <<deps, revision, evidence, opVars>>
               /\ pending'[c] => pending[c]
    BY <2>3 DEF AcceptProposal, RejectProposal, BeginIteration, RejectTask
  <2>4. ASSUME NEW t \in Tasks, NEW d \in Tasks, AddDependency(t, d)
        PROVE  /\ status'[c] = "COMPLETED"
               /\ deps'[c] = deps[c]
               /\ UNCHANGED <<revision, pending, evidence, opVars>>
    BY <2>4 DEF AddDependency, CanAddDependency, FinishedTaskStatuses
  <2>5. ASSUME NEW t \in Tasks, NEW s \in TaskStates, SetTaskStatus(t, s)
        PROVE  /\ status'[c] = "COMPLETED"
               /\ UNCHANGED <<deps, revision, pending, evidence, opVars>>
    BY <2>5 DEF SetTaskStatus
  <2>6. ASSUME NEW t \in Tasks, RequeueTask(t)
        PROVE  /\ status'[c] = "COMPLETED"
               /\ UNCHANGED <<deps, revision, pending, evidence, opVars>>
    BY <2>6 DEF RequeueTask, Promoted, TaskStates
  <2>7. ASSUME NEW t \in Tasks, AmendTask(t)
        PROVE  /\ t # c
               /\ status'[c] = "COMPLETED"
               /\ UNCHANGED <<deps, opVars>>
               /\ revision'[c] = revision[c] /\ pending'[c] = pending[c] /\ evidence'[c] = evidence[c]
    BY <2>7 DEF AmendTask
  <2>8. ASSUME NEW t \in Tasks, NEW completes \in BOOLEAN, VerifyTask(t, completes)
        PROVE  /\ status'[c] = "COMPLETED"
               /\ UNCHANGED <<deps, revision, pending, opVars>>
               /\ evidence'[c] = evidence[c]
    BY <2>8 DEF VerifyTask, CanVerify
  <2> QED BY <1>2, <2>1, <2>2, <2>3, <2>4, <2>5, <2>6, <2>7, <2>8
          DEF TaskNext, AddTask, ProposeTask, ReadyTasks
<1>3. CASE OperationNext
  <2>1. CASE ReconcileInterruptedOperations \/ ReleaseDeclinedTasks
    BY <2>1 DEF ReconcileInterruptedOperations, ReleaseDeclinedTasks
  <2>2. ASSUME NEW o \in Ops, NEW t \in Tasks, BeginOperation(t, o)
        PROVE  /\ status'[c] = "COMPLETED" /\ UNCHANGED <<deps, revision, evidence>>
               /\ pending'[c] => pending[c]
               /\ \A p \in Ops : p # o => opTask'[p] = opTask[p]
               /\ opStatus[o] = "ABSENT" /\ opExit' = opExit
    BY <2>2 DEF BeginOperation, CanBeginOperation, NewOp
  <2>3. ASSUME NEW o \in Ops, MarkOperationRunning(o) \/ DiagnoseCapacity(o)
        PROVE  UNCHANGED <<taskVars, opTask, opExit>>
    BY <2>3 DEF MarkOperationRunning, DiagnoseCapacity
  <2>4. ASSUME NEW o \in Ops, AbortPreparedOperation(o)
        PROVE  /\ status'[c] = "COMPLETED" /\ UNCHANGED <<deps, revision, pending, evidence, opTask>>
               /\ \A p \in Ops : opTask[p] = c => opExit'[p] = opExit[p]
    BY <2>4 DEF AbortPreparedOperation, CanAbortPrepared, ActiveOp, ActiveOperationStatuses
  <2>5. ASSUME NEW o \in Ops, NEW code \in ExitCodes, FinishOperation(o, code)
        PROVE  /\ status'[c] = "COMPLETED" /\ UNCHANGED <<deps, revision, opTask>>
               /\ pending'[c] = pending[c] /\ evidence'[c] = evidence[c]
               /\ \A p \in Ops : opTask[p] = c => opExit'[p] = opExit[p]
    BY <2>5 DEF FinishOperation
  <2>6. ASSUME NEW o \in Ops, ContinueTaskAfterProviderFailure(o)
        PROVE  /\ status'[c] = "COMPLETED" /\ UNCHANGED <<deps, revision, pending, evidence, opVars>>
    BY <2>6 DEF ContinueTaskAfterProviderFailure, CanContinue
  <2> QED BY <1>3, <2>1, <2>2, <2>3, <2>4, <2>5, <2>6 DEF OperationNext
<1>4. CASE UNCHANGED storeVars
  BY <1>4 DEF storeVars
<1> QED BY <1>1, <1>2, <1>3, <1>4 DEF Next
\* Only a verification that passed its checks makes a task COMPLETED.
LEMMA OnlyVerifyCompletes ==
  ASSUME TypeOK, [Next]_storeVars, NEW c \in Tasks,
         status[c] # "COMPLETED", status'[c] = "COMPLETED"
  PROVE  \E completes \in BOOLEAN : VerifyTask(c, completes)
<1> USE DEF TypeOK, taskVars, opVars
<1>1. CASE MissionNext
  BY <1>1 DEF MissionNext, SetMissionStatus, CancelMission
<1>2. CASE TaskNext
  <2>1. ASSUME NEW t \in Tasks, NEW completes \in BOOLEAN, VerifyTask(t, completes)
        PROVE  t = c
    BY <2>1 DEF VerifyTask
  <2>2. \A t \in Tasks, ds \in SUBSET Tasks : ~AddTask(t, ds) /\ \A o \in Ops : ~ProposeTask(t, o, ds)
    <3> SUFFICES ASSUME NEW t \in Tasks, NEW ds, NEW orig, NEW o, InsertTask(t, ds, orig, o) PROVE FALSE
      BY DEF AddTask, ProposeTask
    <3> QED BY DEF InsertTask
  <2>3. ~(\E t \in Tasks, d \in Tasks : AddDependency(t, d))
        /\ ~(\E t \in Tasks, s \in TaskStates : SetTaskStatus(t, s))
    BY DEF AddDependency, SetTaskStatus
  <2>4. ~ReadyTasks /\ ~(\E t \in Tasks : RequeueTask(t))
    BY DEF ReadyTasks, RequeueTask, Promoted
  <2>5. ~(\E t \in Tasks : AcceptProposal(t) \/ RejectProposal(t) \/ AmendTask(t)
                            \/ BeginIteration(t) \/ RejectTask(t))
    BY DEF AcceptProposal, RejectProposal, AmendTask, BeginIteration, RejectTask
  <2> QED BY <1>2, <2>1, <2>2, <2>3, <2>4, <2>5 DEF TaskNext
<1>3. CASE OperationNext
  <2>1. ~ReconcileInterruptedOperations /\ ~ReleaseDeclinedTasks
    BY DEF ReconcileInterruptedOperations, ReleaseDeclinedTasks
  <2>2. ~(\E o \in Ops, t \in Tasks : BeginOperation(t, o))
    BY DEF BeginOperation
  <2>3. ~(\E o \in Ops : MarkOperationRunning(o) \/ AbortPreparedOperation(o)
                          \/ DiagnoseCapacity(o) \/ ContinueTaskAfterProviderFailure(o))
    BY DEF MarkOperationRunning, AbortPreparedOperation, CanAbortPrepared, DiagnoseCapacity,
           ContinueTaskAfterProviderFailure
  <2>4. ~(\E o \in Ops, code \in ExitCodes : FinishOperation(o, code))
    BY DEF FinishOperation, ExitStatus
  <2> QED BY <1>3, <2>1, <2>2, <2>3, <2>4 DEF OperationNext
<1>4. CASE UNCHANGED storeVars
  BY <1>4 DEF storeVars
<1> QED BY <1>1, <1>2, <1>3, <1>4 DEF Next

\* While a mission is COMPLETED no task starts to count, and it becomes
\* COMPLETED only over tasks that all are.
LEMMA CompletedMissionFrame ==
  ASSUME TypeOK, OpsInv, [Next]_storeVars, mission' = "COMPLETED"
  PROVE  \/ AllTasksComplete /\ UNCHANGED taskVars
         \/ mission = "COMPLETED" /\ \A t \in Tasks : Effective(t)' <=> Effective(t)
<1> USE DEF TypeOK, Effective, Exists, taskVars, opVars
<1>1. CASE MissionNext
  BY <1>1 DEF MissionNext, SetMissionStatus, CanSetMissionStatus, CancelMission
<1>2. CASE TaskNext
  <2>1. CASE \E t \in Tasks, ds \in SUBSET Tasks : AddTask(t, ds)
    BY <2>1 DEF AddTask
  <2>2. CASE \E t \in Tasks, o \in Ops, ds \in SUBSET Tasks : ProposeTask(t, o, ds)
    BY <2>2 DEF ProposeTask, FinishedMissionStatuses
  <2>3. CASE \E t \in Tasks : AcceptProposal(t) \/ RejectProposal(t)
    BY <2>3 DEF AcceptProposal, RejectProposal, FinishedMissionStatuses
  <2>4. CASE \E t \in Tasks, d \in Tasks : AddDependency(t, d)
    BY <2>4 DEF AddDependency, CanAddDependency
  <2>5. CASE \E t \in Tasks, s \in TaskStates : SetTaskStatus(t, s)
    BY <2>5 DEF SetTaskStatus, CanSetTaskStatus
  <2>6. CASE ReadyTasks \/ \E t \in Tasks : RequeueTask(t)
    BY <2>6 DEF ReadyTasks, RequeueTask, CanSetTaskStatus, Promoted
  <2>7. CASE \E t \in Tasks : AmendTask(t) \/ BeginIteration(t) \/ RejectTask(t)
    BY <2>7 DEF AmendTask, BeginIteration, RejectTask
  <2>8. CASE \E t \in Tasks, completes \in BOOLEAN : VerifyTask(t, completes)
    BY <2>8 DEF VerifyTask, CanVerify
  <2> QED BY <1>2, <2>1, <2>2, <2>3, <2>4, <2>5, <2>6, <2>7, <2>8 DEF TaskNext
<1>3. CASE OperationNext
  <2>a. \A o \in Ops : opStatus[o] # "ABSENT" => opTask[o] \in Tasks /\ Exists(opTask[o])
    BY DEF OpsInv, RowsConsistent
  <2>1. CASE ReconcileInterruptedOperations \/ ReleaseDeclinedTasks
    <3>1. \A t \in Tasks : HasActiveOp(t) => status[t] # "ABSENT"
      BY DEF OpsInv, RunningIsBacked
    <3> QED BY <2>1, <3>1 DEF ReconcileInterruptedOperations, ReleaseDeclinedTasks
  <2>2. CASE \E o \in Ops, t \in Tasks : BeginOperation(t, o)
    BY <2>2 DEF BeginOperation, CanBeginOperation
  <2>3. CASE \E o \in Ops : MarkOperationRunning(o) \/ AbortPreparedOperation(o)
                          \/ DiagnoseCapacity(o) \/ ContinueTaskAfterProviderFailure(o)
    BY <2>3, <2>a DEF MarkOperationRunning, AbortPreparedOperation, CanAbortPrepared, DiagnoseCapacity,
           ContinueTaskAfterProviderFailure, CanContinue
  <2>4. CASE \E o \in Ops, code \in ExitCodes : FinishOperation(o, code)
    BY <2>4, <2>a DEF FinishOperation, ExitStatus, ActiveOp, ActiveOperationStatuses
  <2> QED BY <1>3, <2>1, <2>2, <2>3, <2>4 DEF OperationNext
<1>4. CASE UNCHANGED storeVars
  BY <1>4 DEF storeVars
<1> QED BY <1>1, <1>2, <1>3, <1>4 DEF Next

\* A verdict, once given, keeps what it was given for.
LEMMA VerdictStep == TypeOK /\ OpsInv /\ VerdictInv /\ [Next]_storeVars => VerdictInv'
<1> SUFFICES ASSUME TypeOK, OpsInv, VerdictInv, [Next]_storeVars PROVE VerdictInv'
  OBVIOUS
<1>1. ASSUME NEW c \in Tasks, status'[c] = "COMPLETED"
      PROVE  /\ \A d \in deps'[c] : status'[d] = "COMPLETED"
             /\ revision'[c] \in evidence'[c] /\ ~pending'[c]
             /\ \E o \in Ops : opTask'[o] = c /\ opExit'[o] = 0
  <2>1. CASE status[c] = "COMPLETED"
    <3>1. \A d \in deps[c] : d \in Tasks /\ status[d] = "COMPLETED"
      BY <2>1 DEF VerdictInv, CompletedDependencies, DependenciesComplete, TypeOK
    <3>2. /\ revision[c] \in evidence[c] /\ ~pending[c]
          /\ \E o \in Ops : opTask[o] = c /\ opExit[o] = 0
      BY <2>1 DEF VerdictInv, CompletedIsVerified
    <3> QED BY <2>1, <3>1, <3>2, CompletedStays
  <2>2. CASE status[c] # "COMPLETED"
    <3>1. PICK completes \in BOOLEAN : VerifyTask(c, completes)
      BY <1>1, <2>2, OnlyVerifyCompletes
    <3>2. \A d \in deps[c] : d \in Tasks /\ status'[d] = "COMPLETED"
      BY <3>1, CompletedStays DEF VerifyTask, CanVerify, DependenciesComplete, TypeOK
    <3>3. \E o \in Ops : opTask[o] = c /\ opExit[o] = 0
      BY <3>1 DEF VerifyTask, CanVerify, OpsInv, RowsConsistent
    <3> QED BY <3>1, <3>2, <3>3 DEF VerifyTask, CanVerify, TypeOK, opVars
  <2> QED BY <2>1, <2>2
<1>2. CompletedMission'
  <2> SUFFICES ASSUME mission' = "COMPLETED" PROVE AllTasksComplete'
    BY DEF CompletedMission
  <2>1. CASE AllTasksComplete /\ UNCHANGED taskVars
    BY <2>1 DEF AllTasksComplete, taskVars, Effective, Exists
  <2>2. CASE mission = "COMPLETED" /\ \A t \in Tasks : Effective(t)' <=> Effective(t)
    <3>1. AllTasksComplete
      BY <2>2 DEF VerdictInv, CompletedMission
    <3> QED BY <2>2, <3>1, CompletedStays DEF AllTasksComplete
  <2> QED BY <2>1, <2>2, CompletedMissionFrame
<1> QED BY <1>1, <1>2 DEF VerdictInv, CompletedDependencies, DependenciesComplete, CompletedIsVerified
----------------------------------------------------------------------------
(* The theorems *)

StoreInv == TypeOK /\ OpsInv /\ GraphInv /\ VerdictInv

\* StoreInv holds when the mission has just been created.
LEMMA StoreInvInit == Init => StoreInv
<1> SUFFICES ASSUME Init PROVE StoreInv
  OBVIOUS
<1>1. TypeOK
  BY ConstantsAssumption DEF Init, TypeOK, Ops, Revisions, MissionStates, TaskStates, Origins, OperationStates
<1>2. OpsInv
  BY DEF Init, OpsInv, OneActiveOperation, RunningIsBacked, RowsConsistent, ProposalsNeedAcceptance,
         ActiveOp, HasActiveOp, ActiveOperationStatuses
<1>3. GraphInv
  <2>1. \A t \in Tasks : {} \in SUBSET Tasks /\ deps[t] = {}
    BY DEF Init
  <2> QED BY <2>1 DEF GraphInv, DependenciesExist, DependenciesAcyclic, Ancestors
<1>4. VerdictInv
  BY DEF Init, VerdictInv, CompletedDependencies, CompletedIsVerified, CompletedMission
<1> QED BY <1>1, <1>2, <1>3, <1>4 DEF StoreInv

\* No transaction breaks StoreInv.
LEMMA StoreInvStep == StoreInv /\ [Next]_storeVars => StoreInv'
  BY TypeStep, OpsStep, GraphStep, VerdictStep DEF StoreInv

\* StoreInv is inductive.
THEOREM StoreInvariant == Spec => []StoreInv
  BY StoreInvInit, StoreInvStep, PTL DEF Spec

\* Two provider runs never work on one task.
THEOREM OneActiveOperationHolds == Spec => []OneActiveOperation
  BY StoreInvariant, PTL DEF StoreInv, OpsInv

\* RUNNING is backed by an unresolved operation; a verdict never is.
THEOREM RunningIsBackedHolds == Spec => []RunningIsBacked
  BY StoreInvariant, PTL DEF StoreInv, OpsInv

\* No provider run for a proposal that was not accepted.
THEOREM ProposalsNeedAcceptanceHolds == Spec => []ProposalsNeedAcceptance
  BY StoreInvariant, PTL DEF StoreInv, OpsInv

\* No task waits for itself, over any number of tasks and additions.
THEOREM DependenciesAcyclicHolds == Spec => []DependenciesAcyclic
  BY StoreInvariant, PTL DEF StoreInv, GraphInv

\* What a COMPLETED task was built on is COMPLETED.
THEOREM CompletedDependenciesHolds == Spec => []CompletedDependencies
  BY StoreInvariant, PTL DEF StoreInv, VerdictInv

\* A COMPLETED task has evidence for its current revision and a successful run.
THEOREM CompletedIsVerifiedHolds == Spec => []CompletedIsVerified
  BY StoreInvariant, PTL DEF StoreInv, VerdictInv

\* A COMPLETED mission has only COMPLETED tasks.
THEOREM CompletedMissionHolds == Spec => []CompletedMission
  BY StoreInvariant, PTL DEF StoreInv, VerdictInv

\* The task invariants together, as the runs check them.
THEOREM TasksAreSoundHolds == Spec => []TasksAreSound
  BY StoreInvariant, PTL DEF StoreInv, OpsInv, GraphInv, VerdictInv, TasksAreSound

\* No transaction takes a task out of COMPLETED.
THEOREM CompletedIsFinalHolds == Spec => CompletedIsFinal
<1>1. StoreInv /\ [Next]_storeVars => [\A t \in Tasks : status[t] = "COMPLETED" => status'[t] = "COMPLETED"]_storeVars
  BY CompletedStays DEF StoreInv
<1> QED BY <1>1, StoreInvariant, PTL DEF Spec, CompletedIsFinal

\* No transaction reopens a resolved operation or moves it to another task.
THEOREM OperationsAreFinalHolds == Spec => OperationsAreFinal
<1> DEFINE Final == \A o \in Ops :
                      /\ opStatus[o] \in {"EXITED", "UNCERTAIN"} => opStatus'[o] = opStatus[o]
                      /\ opStatus[o] # "ABSENT" => opTask'[o] = opTask[o]
<1>1. ASSUME StoreInv, [Next]_storeVars PROVE [Final]_storeVars
  <2> USE DEF taskVars, opVars
  <2>a. TypeOK
    BY <1>1 DEF StoreInv
  <2>1. CASE MissionNext
    BY <2>1 DEF MissionNext, SetMissionStatus, CancelMission
  <2>2. CASE TaskNext
    BY <2>2 DEF TaskNext, ReadyTasks, AddTask, ProposeTask, InsertTask, AcceptProposal, RejectProposal,
       AddDependency, SetTaskStatus, RequeueTask, AmendTask, BeginIteration, VerifyTask, RejectTask
  <2>3. CASE OperationNext
    BY <2>3, <2>a DEF TypeOK, OperationNext, ReconcileInterruptedOperations, ReleaseDeclinedTasks, BeginOperation,
       NewOp, MarkOperationRunning, CanMarkRunning, AbortPreparedOperation, CanAbortPrepared, FinishOperation, DiagnoseCapacity,
       ContinueTaskAfterProviderFailure, ActiveOp, ActiveOperationStatuses
  <2> QED BY <1>1, <2>1, <2>2, <2>3 DEF Next
<1> QED BY <1>1, StoreInvariant, PTL DEF Spec, OperationsAreFinal

-----------------------------------------------------------------------------
(* 2. The composed system *)

\* Where the controller holds a task, an operation (one that may be unresolved in
\* LaunchedPCs) or a task to be verified, and where it is not in after_iteration.
OpPCs == {"prepared", "unmarked", "scheduled", "attempt", "spawned", "provider", "retry",
          "exited", "diagnose", "after", "handoff"}
TaskPCs == OpPCs \cup {"begin", "select", "launch", "refused"}
LaunchedPCs == OpPCs \ {"diagnose", "after", "handoff"}
BeforePCs == LaunchedPCs \cup {"look", "pick", "begin", "idle", "complete", "select", "launch", "refused"}
CheckedPCs == {"verify", "vprepare", "vstart", "vmark", "vrun", "vpass", "vfail"}

\* What the controller remembers is there when a step uses it.
MemoryFollows ==
  /\ ctl.pc \in TaskPCs => ctl.task \in Tasks
  /\ ctl.pc \in OpPCs => ctl.op \in Ops
  /\ ctl.pc \in {"exited", "diagnose", "after", "handoff"} => ctl.code \in ExitCodes
  /\ ctl.pc \in CheckedPCs => ctl.checked \in Tasks
  /\ ctl.pc = "halt" => ctl.seen \in MissionStates
  /\ ctl.pc \in BeforePCs => ~ctl.inAfter

----------------------------------------------------------------------------
(* The store: every step of the composed system is one of its transactions *)

\* The transactions of the controller and of a force stop, that of a launch, and
\* those of the operator, which are counted.
ControllerTransaction ==
  \/ UNCHANGED storeVars \/ ReadyTasks \/ ReleaseDeclinedTasks \/ ReconcileInterruptedOperations
  \/ \E s \in MissionStates : SetMissionStatus(s)
  \/ \E t \in Tasks : BeginIteration(t) \/ VerifyTask(t, TRUE)
  \/ \E o \in Ops : MarkOperationRunning(o) \/ AbortPreparedOperation(o) \/ DiagnoseCapacity(o)
  \/ ctl.pc = "exited" /\ FinishOperation(ctl.op, ctl.code)
  \/ ctl.pc = "handoff" /\ ContinueTaskAfterProviderFailure(ctl.op)

LaunchTransaction == Launch /\ \E o \in Ops : BeginOperation(ctl.task, o)

CommandTransaction ==
  /\ used'.commands # used.commands
  /\ \/ UNCHANGED storeVars \/ CancelMission
     \/ \E s \in MissionStates : SetMissionStatus(s)
     \/ \E t \in Tasks : AcceptProposal(t) \/ RejectProposal(t) \/ RequeueTask(t) \/ AmendTask(t) \/ RejectTask(t)
     \/ \E t \in Tasks, b \in BOOLEAN : VerifyTask(t, b)
     \/ \E t \in Tasks, s \in TaskStates : SetTaskStatus(t, s)
     \/ \E t, d \in Tasks : AddDependency(t, d)
     \/ \E t \in Tasks, ds \in SUBSET Tasks : AddTask(t, ds)
     \/ \E t \in Tasks, o \in Ops, ds \in SUBSET Tasks : ProposeTask(t, o, ds)

\* Uses of a transaction by the controller.
LEMMA ControllerUses ==
  /\ UNCHANGED storeVars => ControllerTransaction
  /\ ReadyTasks => ControllerTransaction
  /\ ReleaseDeclinedTasks => ControllerTransaction
  /\ ReconcileInterruptedOperations => ControllerTransaction
  /\ \A s \in MissionStates : SetMissionStatus(s) => ControllerTransaction
  /\ \A t \in Tasks : /\ BeginIteration(t) => ControllerTransaction
                      /\ VerifyTask(t, TRUE) => ControllerTransaction
  /\ \A o \in Ops : /\ MarkOperationRunning(o) => ControllerTransaction
                    /\ AbortPreparedOperation(o) => ControllerTransaction
                    /\ DiagnoseCapacity(o) => ControllerTransaction
  BY Zenon DEF ControllerTransaction

\* A command and the beginning of a force stop are counted.
LEMMA CommandCounts ==
  ASSUME SharedTypeOK
  PROVE  /\ \A name : Command(name) => used'.commands # used.commands
         /\ ForceBegin => used'.commands # used.commands
  BY DEF SharedTypeOK, Command, ForceBegin

\* Every step of the composed system is one of these transactions.
LEMMA StepIsTransaction ==
  ASSUME CTypeOK, MemoryFollows, [CNext]_vars
  PROVE  ControllerTransaction \/ LaunchTransaction \/ CommandTransaction
<1> USE ControllerUses DEF CTypeOK
<1>1. CASE Boot
  <2>1. CASE Recover
    BY <2>1 DEF Recover
  <2>2. CASE Cleanup
    BY <2>2 DEF Cleanup
  <2>3. CASE Release
    BY <2>3 DEF Release
  <2>4. CASE ReadStatus
    BY <2>4 DEF ReadStatus, OnlyCtl
  <2>5. CASE Admit
    BY <2>5 DEF Admit, MissionStates
  <2>6. CASE Setup
    BY <2>6 DEF Setup, MissionStates
  <2> QED BY <1>1, <2>1, <2>2, <2>3, <2>4, <2>5, <2>6 DEF Boot
<1>2. CASE Iterate
  <2>1. CASE Boundary
    BY <2>1 DEF Boundary, OnlyCtl
  <2>2. CASE Drain
    BY <2>2 DEF Drain, OnlyCtl
  <2>3. CASE Drained
    BY <2>3 DEF Drained
  <2>4. CASE Flags
    BY <2>4 DEF Flags
  <2>5. CASE Halt
    BY <2>5 DEF Halt, At, MemoryFollows
  <2>6. CASE Look
    BY <2>6 DEF Look, OnlyCtl
  <2>7. CASE Pick
    BY <2>7 DEF Pick
  <2>8. CASE Begin
    BY <2>8 DEF Begin, At, MemoryFollows, TaskPCs
  <2>9. CASE Idle
    BY <2>9 DEF Idle, OnlyCtl
  <2>10. CASE Complete
    BY <2>10 DEF Complete, MissionStates
  <2>11. CASE Select
    BY <2>11 DEF Select
  <2>12. CASE Launch
    <3>1. ctl.task \in Tasks
      BY <2>12 DEF Launch, At, MemoryFollows, TaskPCs
    <3>2. CASE CanBeginOperation(ctl.task)
      <4>1. PICK o \in Ops : BeginOperation(ctl.task, o)
        BY <2>12, <3>2 DEF Launch
      <4> QED BY <2>12, <4>1 DEF LaunchTransaction
    <3>3. CASE ~CanBeginOperation(ctl.task)
      BY <2>12, <3>3 DEF Launch
    <3> QED BY <3>2, <3>3
  <2>13. CASE Refused
    BY <2>13 DEF Refused, OnlyCtl
  <2>14. CASE MarkRunning
    BY <2>14 DEF MarkRunning, At, MemoryFollows, OpPCs
  <2>15. CASE Unmarked
    BY <2>15 DEF Unmarked, At, MemoryFollows, OpPCs
  <2>16. CASE Scheduled
    BY <2>16 DEF Scheduled, OnlyCtl
  <2>17. CASE Attempt
    BY <2>17 DEF Attempt
  <2>18. CASE RecordProcess
    BY <2>18 DEF RecordProcess
  <2>19. CASE ProviderExits
    BY <2>19 DEF ProviderExits
  <2>20. CASE Retry
    BY <2>20 DEF Retry, OnlyCtl
  <2>21. CASE Exited
    BY <2>21 DEF Exited, At, ControllerTransaction
  <2>22. CASE Diagnose
    BY <2>22 DEF Diagnose, At, MemoryFollows, OpPCs
  <2>23. CASE After
    BY <2>23 DEF After, At, MemoryFollows, OpPCs, TaskPCs
  <2>24. CASE Handoff
    BY <2>24 DEF Handoff, At, ControllerTransaction
  <2> QED BY <1>2, <2>1, <2>2, <2>3, <2>4, <2>5, <2>6, <2>7, <2>8, <2>9, <2>10, <2>11, <2>12,
             <2>13, <2>14, <2>15, <2>16, <2>17, <2>18, <2>19, <2>20, <2>21, <2>22, <2>23,
             <2>24 DEF Iterate
<1>3. CASE Verifier
  <2>1. CASE Verify
    BY <2>1 DEF Verify, OnlyCtl
  <2>2. CASE PrepareManagedProcess
    BY <2>2 DEF PrepareManagedProcess
  <2>3. CASE SpawnVerifier
    BY <2>3 DEF SpawnVerifier
  <2>4. CASE MarkManagedProcessRunning
    BY <2>4 DEF MarkManagedProcessRunning
  <2>5. CASE FinishManagedProcess
    BY <2>5 DEF FinishManagedProcess
  <2>6. CASE VerifierPassed
    BY <2>6 DEF VerifierPassed, At, MemoryFollows, CheckedPCs
  <2>7. CASE VerifierFailed
    BY <2>7 DEF VerifierFailed, OnlyCtl
  <2> QED BY <1>3, <2>1, <2>2, <2>3, <2>4, <2>5, <2>6, <2>7 DEF Verifier
<1>4. CASE End
  <2>1. CASE Failing
    BY <2>1 DEF Failing
  <2>2. CASE Failed
    BY <2>2 DEF Failed, MissionStates
  <2>3. CASE Closing
    BY <2>3 DEF Closing, OnlyCtl
  <2>4. CASE Close
    BY <2>4 DEF Close, MissionStates
  <2> QED BY <1>4, <2>1, <2>2, <2>3, <2>4 DEF End
<1>5. CASE ForceStop
  <2>1. CASE ForceBegin
    BY <2>1 DEF ForceBegin, MissionStates
  <2>2. CASE ForceSnapshot
    BY <2>2 DEF ForceSnapshot
  <2>3. CASE ForceReconcile
    BY <2>3 DEF ForceReconcile
  <2>4. CASE ForceManaged
    BY <2>4 DEF ForceManaged
  <2>5. CASE ForceProviders
    BY <2>5 DEF ForceProviders
  <2>6. CASE ForceController
    BY <2>6 DEF ForceController
  <2>7. CASE ForceFinish
    BY <2>7 DEF ForceFinish, MissionStates
  <2> QED BY <1>5, <2>1, <2>2, <2>3, <2>4, <2>5, <2>6, <2>7 DEF ForceStop
<1>6. CASE Operator
  <2>1. CASE StartController
    BY <2>1 DEF StartController
  <2>2. CASE StartAgain
    BY <2>2 DEF StartAgain
  <2>3. CASE Pause
    BY <2>3 DEF Pause, MissionStates
  <2>4. CASE Resume
    BY <2>4 DEF Resume, MissionStates
  <2>5. CASE Stop
    BY <2>5 DEF Stop, MissionStates
  <2>6. CASE Cancel
    BY <2>6, CommandCounts DEF Cancel, CommandTransaction
  <2>7. CASE Continue
    BY <2>7 DEF Continue
  <2>8. CASE TaskCommand
    <3>1. used'.commands # used.commands
      BY <2>8, CommandCounts DEF TaskCommand
    <3> QED BY <2>8, <3>1, Zenon DEF TaskCommand, CommandTransaction, TaskStates
  <2>9. CASE Steer
    BY <2>9 DEF Steer
  <2> QED BY <1>6, <2>1, <2>2, <2>3, <2>4, <2>5, <2>6, <2>7, <2>8, <2>9 DEF Operator
<1>7. CASE Crash
  BY <1>7 DEF Crash
<1>8. CASE OrphanExits
  BY <1>8 DEF OrphanExits
<1>9. CASE UNCHANGED vars
  BY <1>9 DEF vars
<1> QED BY <1>1, <1>2, <1>3, <1>4, <1>5, <1>6, <1>7, <1>8, <1>9 DEF CNext, Controller

\* Uses of a transaction as a step of the store.
LEMMA StoreSteps ==
  /\ \A s \in MissionStates : SetMissionStatus(s) => Next
  /\ CancelMission => Next
  /\ ReadyTasks => Next
  /\ ReconcileInterruptedOperations => Next
  /\ ReleaseDeclinedTasks => Next
  /\ \A t \in Tasks : /\ BeginIteration(t) => Next
                      /\ AcceptProposal(t) => Next
                      /\ RejectProposal(t) => Next
                      /\ RequeueTask(t) => Next
                      /\ AmendTask(t) => Next
                      /\ RejectTask(t) => Next
  /\ \A t \in Tasks, b \in BOOLEAN : VerifyTask(t, b) => Next
  /\ \A t \in Tasks, s \in TaskStates : SetTaskStatus(t, s) => Next
  /\ \A t, d \in Tasks : AddDependency(t, d) => Next
  /\ \A t \in Tasks, ds \in SUBSET Tasks : AddTask(t, ds) => Next
  /\ \A t \in Tasks, o \in Ops, ds \in SUBSET Tasks : ProposeTask(t, o, ds) => Next
  /\ \A t \in Tasks, o \in Ops : BeginOperation(t, o) => Next
  /\ \A o \in Ops : /\ MarkOperationRunning(o) => Next
                    /\ AbortPreparedOperation(o) => Next
                    /\ DiagnoseCapacity(o) => Next
                    /\ ContinueTaskAfterProviderFailure(o) => Next
  /\ \A o \in Ops, code \in ExitCodes : FinishOperation(o, code) => Next
  BY Zenon DEF Next, MissionNext, TaskNext, OperationNext

\* Every step of the composed system is a transaction of the store or leaves
\* the store alone.
LEMMA StepIsStoreStep ==
  ASSUME CTypeOK, MemoryFollows, [CNext]_vars PROVE [Next]_storeVars
<1> USE StoreSteps
<1>1. CASE ControllerTransaction
  BY <1>1 DEF ControllerTransaction, MemoryFollows, OpPCs
<1>2. CASE LaunchTransaction
  BY <1>2 DEF LaunchTransaction, Launch, At, MemoryFollows, TaskPCs
<1>3. CASE CommandTransaction
  BY <1>3 DEF CommandTransaction
<1> QED BY <1>1, <1>2, <1>3, StepIsTransaction

----------------------------------------------------------------------------
(* The controller's memory *)

\* The rows read by a recovery or a force stop are well typed.
LEMMA OpenOperationsType ==
  ASSUME TypeOK, SharedTypeOK PROVE OpenOperations \in SUBSET OpenRows
  BY DEF OpenOperations, OpenRows, TypeOK, SharedTypeOK, ActiveOp, Identities

\* A task with an operation has a latest one: the least distance to MaxOps.
LEMMA LastOpExists ==
  ASSUME TypeOK, NEW t \in Tasks, NEW q \in Ops, opTask[q] = t
  PROVE  LastOp(t) \in Ops
<1> DEFINE S == {MaxOps - o : o \in {p \in Ops : opTask[p] = t}}
<1>1. S \subseteq Nat /\ S # {}
  BY ConstantsAssumption DEF Ops
<1>2. \E x \in S : \A y \in S : <<y, x>> \notin OpToRel(<, Nat)
  <2> HIDE DEF S
  <2> QED BY <1>1, NatLessThanWellFounded, WFMin
<1>3. PICK m \in S : \A k \in S : <<k, m>> \notin OpToRel(<, Nat)
  BY <1>2
<1>4. PICK o \in Ops : opTask[o] = t /\ m = MaxOps - o
  BY <1>3
<1>5. ASSUME NEW p \in Ops, opTask[p] = t PROVE p <= o
  <2> DEFINE k == MaxOps - p
  <2>1. k \in S
    BY <1>5
  <2>2. k \in Nat /\ m \in Nat
    BY <1>1, <2>1
  <2>3. ~(k < m)
    <3> HIDE DEF S, k
    <3> QED BY <1>3, <2>1, <2>2 DEF OpToRel
  <2> QED BY <2>2, <2>3, <1>4, ConstantsAssumption DEF Ops
<1> QED BY <1>4, <1>5 DEF LastOp

\* continue releases operations: a VERIFYING task has run.
LEMMA ReleasedType ==
  ASSUME TypeOK, RowsConsistent
  PROVE  {LastOp(t) : t \in {u \in Tasks : Effective(u) /\ status[u] = "VERIFYING"}} \subseteq Ops
  BY LastOpExists DEF RowsConsistent

\* The program counters, one by one.
LEMMA PCsListed ==
  /\ {"off", "reconcile", "cleanup", "release", "read", "admit", "setup"} \subseteq PCs
  /\ {"boundary", "drain", "drained", "flags", "halt", "look", "pick"} \subseteq PCs
  /\ {"begin", "idle", "complete", "select", "launch", "refused", "prepared"} \subseteq PCs
  /\ {"unmarked", "scheduled", "attempt", "spawned", "provider", "retry", "exited"} \subseteq PCs
  /\ {"diagnose", "after", "handoff", "verify", "vprepare", "vstart", "vmark"} \subseteq PCs
  /\ {"vrun", "vpass", "vfail", "failing", "failed", "closing", "close"} \subseteq PCs
  BY DEF PCs, BootPCs, LoopPCs, EndPCs

\* A move of the program counter leaves the rest of the memory.
LEMMA GotoMoves ==
  ASSUME ctl \in Memory, NEW pc \in PCs, Goto(pc)
  PROVE  /\ ctl' \in Memory /\ ctl'.pc = pc
         /\ ctl'.task = ctl.task /\ ctl'.op = ctl.op /\ ctl'.code = ctl.code
         /\ ctl'.checked = ctl.checked /\ ctl'.seen = ctl.seen /\ ctl'.inAfter = ctl.inAfter
         /\ ctl'.rev = ctl.rev
  BY DEF Goto, Memory

\* The status read is remembered.
LEMMA PcSeen ==
  ASSUME ctl \in Memory, NEW pc \in PCs, NEW s \in MissionStates \cup TaskStates \cup {"ABSENT"},
         ctl' = [ctl EXCEPT !.pc = pc, !.seen = s]
  PROVE  ctl' \in Memory /\ ctl'.pc = pc /\ ctl'.inAfter = ctl.inAfter /\ ctl'.seen = s
  BY DEF Memory

\* The verification requests are remembered.
LEMMA PcAsked ==
  ASSUME ctl \in Memory, NEW pc \in PCs, NEW R \in SUBSET Tasks,
         ctl' = [ctl EXCEPT !.pc = pc, !.asked = R, !.todo = R, !.kept = {}]
  PROVE  ctl' \in Memory /\ ctl'.pc = pc /\ ctl'.inAfter = ctl.inAfter
  BY DEF Memory

\* A task to be verified is taken from the list.
LEMMA PcChecked ==
  ASSUME ctl \in Memory, NEW pc \in PCs, NEW t \in Tasks,
         ctl' = [ctl EXCEPT !.pc = pc, !.checked = t, !.todo = ctl.todo \ {t}]
  PROVE  ctl' \in Memory /\ ctl'.pc = pc /\ ctl'.inAfter = ctl.inAfter /\ ctl'.checked = t
  BY DEF Memory

\* The task is chosen.
LEMMA PcTask ==
  ASSUME ctl \in Memory, NEW pc \in PCs, NEW t \in Tasks,
         ctl' = [ctl EXCEPT !.pc = pc, !.task = t]
  PROVE  ctl' \in Memory /\ ctl'.pc = pc /\ ctl'.inAfter = ctl.inAfter /\ ctl'.task = t
  BY DEF Memory

\* The revision is remembered.
LEMMA PcRev ==
  ASSUME ctl \in Memory, NEW pc \in PCs, NEW r \in Revisions,
         ctl' = [ctl EXCEPT !.pc = pc, !.rev = r]
  PROVE  ctl' \in Memory /\ ctl'.pc = pc /\ ctl'.inAfter = ctl.inAfter /\ ctl'.task = ctl.task /\ ctl'.checked = ctl.checked
  BY DEF Memory

\* The operation is begun.
LEMMA PcOp ==
  ASSUME ctl \in Memory, NEW pc \in PCs, NEW o \in Ops,
         ctl' = [ctl EXCEPT !.pc = pc, !.op = o]
  PROVE  ctl' \in Memory /\ ctl'.pc = pc /\ ctl'.inAfter = ctl.inAfter /\ ctl'.task = ctl.task /\ ctl'.op = o
  BY DEF Memory

\* The exit status is remembered.
LEMMA PcCode ==
  ASSUME ctl \in Memory, NEW pc \in PCs, NEW c \in ExitCodes,
         ctl' = [ctl EXCEPT !.pc = pc, !.code = c]
  PROVE  ctl' \in Memory /\ ctl'.pc = pc /\ ctl'.inAfter = ctl.inAfter /\ ctl'.task = ctl.task /\ ctl'.op = ctl.op /\ ctl'.code = c
  BY DEF Memory

\* after_iteration is entered.
LEMMA PcInAfter ==
  ASSUME ctl \in Memory, NEW pc \in PCs, NEW s \in MissionStates \cup TaskStates \cup {"ABSENT"},
         ctl' = [ctl EXCEPT !.pc = pc, !.inAfter = TRUE, !.seen = s]
  PROVE  ctl' \in Memory /\ ctl'.pc = pc /\ ctl'.task = ctl.task /\ ctl'.op = ctl.op /\ ctl'.code = ctl.code
  BY DEF Memory

\* The task that has just run is verified.
LEMMA PcOwnCheck ==
  ASSUME ctl \in Memory, NEW pc \in PCs, NEW t \in Tasks,
         ctl' = [ctl EXCEPT !.pc = pc, !.checked = t, !.todo = {}, !.kept = {}, !.asked = {}]
  PROVE  ctl' \in Memory /\ ctl'.pc = pc /\ ctl'.inAfter = ctl.inAfter /\ ctl'.checked = t
  BY DEF Memory

\* after_iteration is left.
LEMMA PcLoop ==
  ASSUME ctl \in Memory, NEW pc \in PCs,
         ctl' = [ctl EXCEPT !.pc = pc, !.inAfter = FALSE]
  PROVE  ctl' \in Memory /\ ctl'.pc = pc
  BY DEF Memory

\* A request that cannot be taken up yet is kept.
LEMMA Keep ==
  ASSUME ctl \in Memory, NEW t \in Tasks,
         ctl' = [ctl EXCEPT !.todo = ctl.todo \ {t}, !.kept = ctl.kept \cup {t}]
  PROVE  ctl' \in Memory /\ ctl'.pc = ctl.pc
  BY DEF Memory

\* No controller: nothing is remembered.
LEMMA OffType == Off \in Memory /\ Off.pc = "off"
  BY PCsListed DEF Memory, Off, MissionStates

\* The ends of the hooks lead to program counters that need no memory.
LEMMA HookEnds ==
  ASSUME ctl \in Memory
  PROVE  /\ LoopOrReturn => ctl' \in Memory /\ ctl'.pc \in {"boundary", "closing"}
         /\ Raise => /\ ctl' \in Memory /\ ctl'.pc \in {"boundary", "closing", "failing"}
                     /\ ~ctl.inAfter => ctl'.pc = "failing"
         /\ BoundaryDone => /\ ctl' \in Memory /\ ctl'.pc \in {"boundary", "closing", "look"}
                            /\ ctl'.pc = "look" => ~ctl'.inAfter
         /\ VerifierDone => ctl' \in Memory /\ ctl'.pc \in {"boundary", "drain"}
<1>1. LoopOrReturn => ctl' \in Memory /\ ctl'.pc \in {"boundary", "closing"}
  <2> SUFFICES ASSUME LoopOrReturn PROVE ctl' \in Memory /\ ctl'.pc \in {"boundary", "closing"}
    OBVIOUS
  <2>1. PICK pc \in {"boundary", "closing"} : ctl' = [ctl EXCEPT !.pc = pc, !.inAfter = FALSE]
    BY DEF LoopOrReturn
  <2>2. pc \in PCs
    BY PCsListed
  <2> QED BY <2>1, <2>2, PcLoop
<1>2. ASSUME NEW pc \in PCs, Goto(pc) PROVE ctl' \in Memory /\ ctl'.pc = pc /\ ctl'.inAfter = ctl.inAfter
  BY <1>2, GotoMoves
<1>3. {"failing", "look", "boundary", "drain"} \subseteq PCs
  BY PCsListed
<1> QED BY <1>1, <1>2, <1>3 DEF Raise, BoundaryDone, VerifierDone

\* Operations are entered by a launch only and left, for other places than the
\* reconciliations, by an exit or an abort.
\* A provider is spawned by an attempt and left behind by a crash or a kill; a
\* verifier's verdict follows the read of the revision, and a start its reads.
WaitingPCs == {"off", "reconcile", "failing"}
RunPCs == {"scheduled", "attempt", "spawned", "provider", "retry"}
LivePCs == {"spawned", "provider"}
OrphanPCs == {"off", "reconcile", "cleanup"}
VerdictPCs == {"vprepare", "vstart", "vmark", "vrun", "vpass"}
DecidingPCs == OrphanPCs \cup {"release", "read", "admit"}
PcFlow ==
  /\ ctl'.pc \in LaunchedPCs => Launch \/ (ctl.pc \in LaunchedPCs /\ ctl'.op = ctl.op)
  /\ ctl'.pc \in OpPCs => Launch \/ (ctl.pc \in OpPCs /\ ctl'.op = ctl.op)
  /\ ctl'.pc \notin LaunchedPCs \cup WaitingPCs =>
       Recover \/ Failing \/ Exited \/ Unmarked \/ ctl.pc \notin LaunchedPCs \cup WaitingPCs
  /\ ctl'.pc \in RunPCs => MarkRunning \/ ctl.pc \in RunPCs
  /\ ctl'.pc \in LivePCs => Attempt \/ ctl.pc \in LivePCs
  /\ ctl'.pc \notin LivePCs \cup OrphanPCs =>
       Cleanup \/ RecordProcess \/ ProviderExits \/ ctl.pc \notin LivePCs \cup OrphanPCs
  /\ ctl'.pc \in VerdictPCs => Verify \/ (ctl.pc \in VerdictPCs /\ ctl'.checked = ctl.checked /\ ctl'.rev = ctl.rev)
  /\ ctl'.pc \notin DecidingPCs => Admit \/ ctl.pc \notin DecidingPCs
  /\ ctl'.pc = "admit" => ReadStatus \/ (ctl.pc = "admit" /\ ctl'.seen = ctl.seen)
  /\ ctl'.pc = "halt" => Flags \/ (ctl.pc = "halt" /\ ctl'.seen = ctl.seen)
  /\ ctl.pc \in {"closing", "close"} => ctl'.pc \in {"closing", "close", "off"}

\* The memory keeps its type, and what a step uses is there.
LEMMA MemoryStep ==
  ASSUME TypeOK, TypeOK', CTypeOK, MemoryFollows, [CNext]_vars
  PROVE  ctl' \in Memory /\ MemoryFollows' /\ PcFlow
<1> USE PCsListed, GotoMoves, ConstantsAssumption
<1> USE DEF CTypeOK, At, MemoryFollows, OpPCs, TaskPCs, CheckedPCs, BeforePCs, LaunchedPCs, WaitingPCs, PcFlow,
           RunPCs, LivePCs, OrphanPCs, VerdictPCs, DecidingPCs
<1>1. CASE Boot
  <2>1. CASE Recover
    BY <2>1 DEF Recover
  <2>2. CASE Cleanup
    BY <2>2, OffType DEF Cleanup
  <2>3. CASE Release
    BY <2>3 DEF Release
  <2>4. CASE ReadStatus
    <3>0. ctl.pc = "read"
      BY <2>4 DEF ReadStatus
    <3>1. ctl' = [ctl EXCEPT !.pc = "admit", !.seen = mission] /\ "admit" \in PCs
      BY <2>4 DEF ReadStatus
    <3>2. ctl' \in Memory /\ ctl'.pc = "admit"
      BY <3>1, PcSeen DEF TypeOK
    <3> QED BY <3>2, <3>0, <2>4
  <2>5. CASE Admit
    BY <2>5, OffType DEF Admit
  <2>6. CASE Setup
    BY <2>6, OffType DEF Setup
  <2> QED BY <1>1, <2>1, <2>2, <2>3, <2>4, <2>5, <2>6 DEF Boot
<1>2. CASE Iterate
  <2>1. CASE Boundary
    <3>0. ctl.pc = "boundary"
      BY <2>1 DEF Boundary
    <3>1. ctl' = [ctl EXCEPT !.pc = "drain", !.asked = requests, !.todo = requests, !.kept = {}] /\ "drain" \in PCs
      BY <2>1 DEF Boundary
    <3>2. ctl' \in Memory /\ ctl'.pc = "drain"
      BY <3>1, PcAsked DEF SharedTypeOK
    <3> QED BY <3>2, <3>0
  <2>2. CASE Drain
    <3>0. ctl.pc = "drain"
      BY <2>2 DEF Drain
    <3>1. ctl.todo \subseteq Tasks
      BY DEF Memory
    <3>2. CASE \E t \in Tasks : ctl' = [ctl EXCEPT !.pc = "verify", !.checked = t, !.todo = ctl.todo \ {t}]
      <4>1. PICK t \in Tasks : ctl' = [ctl EXCEPT !.pc = "verify", !.checked = t, !.todo = ctl.todo \ {t}]
        BY <3>2
      <4>2. ctl' \in Memory /\ ctl'.pc = "verify" /\ ctl'.checked = t
        BY <4>1, PcChecked
      <4> QED BY <4>2, <3>0
    <3>3. CASE \E t \in Tasks : ctl' = [ctl EXCEPT !.todo = ctl.todo \ {t}, !.kept = ctl.kept \cup {t}]
      <4>1. ctl' \in Memory /\ ctl'.pc = ctl.pc
        BY <3>3, Keep
      <4> QED BY <2>2, <4>1 DEF Drain
    <3>4. CASE Goto("drained")
      BY <3>4, <3>0
    <3>5. \/ \E t \in ctl.todo : \/ ctl' = [ctl EXCEPT !.pc = "verify", !.checked = t, !.todo = ctl.todo \ {t}]
                                \/ ctl' = [ctl EXCEPT !.todo = ctl.todo \ {t}, !.kept = ctl.kept \cup {t}]
          \/ Goto("drained")
      BY <2>2 DEF Drain
    <3> QED BY <3>1, <3>2, <3>3, <3>4, <3>5
  <2>3. CASE Drained
    BY <2>3 DEF Drained
  <2>4. CASE Flags
    <3>0. ctl.pc = "flags"
      BY <2>4 DEF Flags
    <3>1. CASE BoundaryDone
      BY <3>1, <3>0, HookEnds
    <3>2. CASE \E s \in {"STOPPING", "PAUSED"} : ctl' = [ctl EXCEPT !.pc = "halt", !.seen = s]
      <4>1. PICK s \in {"STOPPING", "PAUSED"} : ctl' = [ctl EXCEPT !.pc = "halt", !.seen = s]
        BY <3>2
      <4>2. s \in MissionStates
        BY DEF MissionStates
      <4>3. ctl' \in Memory /\ ctl'.pc = "halt" /\ ctl'.seen = s
        BY <4>1, <4>2, PcSeen
      <4> QED BY <4>2, <4>3, <3>0, <2>4
    <3> QED BY <2>4, <3>1, <3>2 DEF Flags
  <2>5. CASE Halt
    BY <2>5, HookEnds DEF Halt
  <2>6. CASE Look
    BY <2>6 DEF Look
  <2>7. CASE Pick
    <3>1. CASE Goto("idle")
      BY <3>1, <2>7 DEF Pick
    <3>2. CASE \E t \in Tasks : ctl' = [ctl EXCEPT !.pc = "begin", !.task = t]
      <4>1. PICK t \in Tasks : ctl' = [ctl EXCEPT !.pc = "begin", !.task = t]
        BY <3>2
      <4>2. ctl' \in Memory /\ ctl'.pc = "begin" /\ ctl'.task = t /\ ctl'.inAfter = ctl.inAfter
        BY <4>1, PcTask
      <4> QED BY <2>7, <4>2 DEF Pick
    <3> QED BY <2>7, <3>1, <3>2 DEF Pick
  <2>8. CASE Begin
    <3>1. ctl' = [ctl EXCEPT !.pc = "select", !.rev = revision[ctl.task]] /\ revision[ctl.task] \in Revisions
      BY <2>8 DEF Begin, TypeOK
    <3>2. ctl' \in Memory /\ ctl'.pc = "select" /\ ctl'.inAfter = ctl.inAfter /\ ctl'.task = ctl.task
      BY <3>1, PcRev
    <3> QED BY <2>8, <3>2 DEF Begin
  <2>9. CASE Idle
    BY <2>9 DEF Idle
  <2>10. CASE Complete
    BY <2>10, HookEnds DEF Complete
  <2>11. CASE Select
    BY <2>11 DEF Select
  <2>12. CASE Launch
    <3>0. ctl.pc = "launch"
      BY <2>12 DEF Launch
    <3>1. CASE \E o \in Ops : ctl' = [ctl EXCEPT !.pc = "prepared", !.op = o]
      <4>1. PICK o \in Ops : ctl' = [ctl EXCEPT !.pc = "prepared", !.op = o]
        BY <3>1
      <4>2. ctl' \in Memory /\ ctl'.pc = "prepared" /\ ctl'.inAfter = ctl.inAfter /\ ctl'.task = ctl.task /\ ctl'.op = o
        BY <4>1, PcOp
      <4> QED BY <2>12, <4>2 DEF Launch
    <3>2. CASE Goto("boundary")
      BY <3>2, <3>0
    <3>3. CASE Goto("refused")
      BY <3>0, <3>3
    <3> QED BY <2>12, <3>1, <3>2, <3>3 DEF Launch
  <2>13. CASE Refused
    BY <2>13, HookEnds DEF Refused
  <2>14. CASE MarkRunning
    BY <2>14 DEF MarkRunning
  <2>15. CASE Unmarked
    BY <2>15, HookEnds DEF Unmarked
  <2>16. CASE Scheduled
    <3>1. ctl.pc = "scheduled"
      BY <2>16 DEF Scheduled
    <3>2. ASSUME NEW c \in ExitCodes, ctl' = [ctl EXCEPT !.pc = "exited", !.code = c]
          PROVE  ctl' \in Memory /\ MemoryFollows' /\ PcFlow
      <4>1. /\ ctl' \in Memory /\ ctl'.pc = "exited" /\ ctl'.inAfter = ctl.inAfter
            /\ ctl'.task = ctl.task /\ ctl'.op = ctl.op /\ ctl'.code = c
        BY <3>2, PcCode
      <4> QED BY <3>1, <4>1
    <3>3. ASSUME Goto("attempt") PROVE ctl' \in Memory /\ MemoryFollows' /\ PcFlow
      BY <3>1, <3>3
    <3> QED BY <2>16, <3>2, <3>3 DEF Scheduled
  <2>17. CASE Attempt
    <3>1. ctl.pc = "attempt"
      BY <2>17 DEF Attempt
    <3>2. ASSUME NEW c \in ExitCodes, ctl' = [ctl EXCEPT !.pc = "exited", !.code = c]
          PROVE  ctl' \in Memory /\ MemoryFollows' /\ PcFlow
      <4>1. /\ ctl' \in Memory /\ ctl'.pc = "exited" /\ ctl'.inAfter = ctl.inAfter
            /\ ctl'.task = ctl.task /\ ctl'.op = ctl.op /\ ctl'.code = c
        BY <3>2, PcCode
      <4> QED BY <3>1, <4>1
    <3>3. ASSUME Goto("spawned") PROVE ctl' \in Memory /\ MemoryFollows' /\ PcFlow
      BY <3>1, <3>3, <2>17
    <3> QED BY <2>17, <3>2, <3>3 DEF Attempt
  <2>18. CASE RecordProcess
    BY <2>18, HookEnds DEF RecordProcess
  <2>19. CASE ProviderExits
    <3>1. ctl.pc = "provider"
      BY <2>19 DEF ProviderExits
    <3>2. ASSUME NEW c \in ExitCodes, ctl' = [ctl EXCEPT !.pc = "exited", !.code = c]
          PROVE  ctl' \in Memory /\ MemoryFollows' /\ PcFlow
      <4>1. /\ ctl' \in Memory /\ ctl'.pc = "exited" /\ ctl'.inAfter = ctl.inAfter
            /\ ctl'.task = ctl.task /\ ctl'.op = ctl.op /\ ctl'.code = c
        BY <3>2, PcCode
      <4> QED BY <3>1, <4>1, <2>19
    <3>3. ASSUME Goto("retry") PROVE ctl' \in Memory /\ MemoryFollows' /\ PcFlow
      BY <3>1, <3>3, <2>19
    <3> QED BY <2>19, <3>2, <3>3 DEF ProviderExits
  <2>20. CASE Retry
    <3>1. ctl.pc = "retry"
      BY <2>20 DEF Retry
    <3>2. ASSUME NEW c \in ExitCodes, ctl' = [ctl EXCEPT !.pc = "exited", !.code = c]
          PROVE  ctl' \in Memory /\ MemoryFollows' /\ PcFlow
      <4>1. /\ ctl' \in Memory /\ ctl'.pc = "exited" /\ ctl'.inAfter = ctl.inAfter
            /\ ctl'.task = ctl.task /\ ctl'.op = ctl.op /\ ctl'.code = c
        BY <3>2, PcCode
      <4> QED BY <3>1, <4>1
    <3>3. ASSUME Goto("attempt") PROVE ctl' \in Memory /\ MemoryFollows' /\ PcFlow
      BY <3>1, <3>3
    <3> QED BY <2>20, <3>2, <3>3 DEF Retry, Goto
  <2>21. CASE Exited
    <3>1. CASE LoopOrReturn
      BY <2>21, <3>1, HookEnds DEF Exited
    <3>2. CASE ctl' = [ctl EXCEPT !.pc = "diagnose", !.inAfter = TRUE, !.seen = status'[ctl.task]]
      <4>1. status'[ctl.task] \in TaskStates \cup {"ABSENT"}
        BY <2>21 DEF Exited, TypeOK
      <4>2. /\ ctl' \in Memory /\ ctl'.pc = "diagnose"
            /\ ctl'.task = ctl.task /\ ctl'.op = ctl.op /\ ctl'.code = ctl.code
        BY <3>2, <4>1, PcInAfter
      <4> QED BY <2>21, <4>2 DEF Exited
    <3> QED BY <2>21, <3>1, <3>2 DEF Exited
  <2>22. CASE Diagnose
    BY <2>22 DEF Diagnose
  <2>23. CASE After
    <3>0. ctl.pc = "after"
      BY <2>23 DEF After
    <3>1. CASE Goto("boundary") \/ Goto("handoff")
      BY <2>23, <3>1 DEF After
    <3>2. CASE ctl' = [ctl EXCEPT !.pc = "verify", !.checked = ctl.task, !.todo = {}, !.kept = {}, !.asked = {}]
      <4>1. ctl.task \in Tasks
        BY <2>23 DEF After
      <4>2. ctl' \in Memory /\ ctl'.pc = "verify" /\ ctl'.checked = ctl.task
        BY <3>2, <4>1, PcOwnCheck
      <4> QED BY <4>1, <4>2, <3>0
    <3> QED BY <2>23, <3>1, <3>2 DEF After
  <2>24. CASE Handoff
    BY <2>24 DEF Handoff
  <2> QED BY <1>2, <2>1, <2>2, <2>3, <2>4, <2>5, <2>6, <2>7, <2>8, <2>9, <2>10, <2>11, <2>12,
             <2>13, <2>14, <2>15, <2>16, <2>17, <2>18, <2>19, <2>20, <2>21, <2>22, <2>23,
             <2>24 DEF Iterate
<1>3. CASE Verifier
  <2>1. CASE Verify
    <3>0. ctl.pc = "verify"
      BY <2>1 DEF Verify
    <3>1. CASE VerifierDone
      BY <3>1, <3>0, HookEnds
    <3>2. CASE \E pc \in {"vprepare", "vfail"} : ctl' = [ctl EXCEPT !.pc = pc, !.rev = revision[ctl.checked]]
      <4>1. PICK pc \in {"vprepare", "vfail"} : ctl' = [ctl EXCEPT !.pc = pc, !.rev = revision[ctl.checked]]
        BY <3>2
      <4>2. pc \in PCs
        OBVIOUS
      <4>3. ctl.checked \in Tasks /\ revision[ctl.checked] \in Revisions
        BY <2>1 DEF Verify, TypeOK
      <4>4. ctl' \in Memory /\ ctl'.pc = pc /\ ctl'.checked = ctl.checked
        BY <4>1, <4>2, <4>3, PcRev
      <4> QED BY <4>3, <4>4, <3>0, <2>1
    <3> QED BY <2>1, <3>1, <3>2 DEF Verify
  <2>2. CASE PrepareManagedProcess
    BY <2>2, HookEnds DEF PrepareManagedProcess
  <2>3. CASE SpawnVerifier
    BY <2>3 DEF SpawnVerifier
  <2>4. CASE MarkManagedProcessRunning
    BY <2>4 DEF MarkManagedProcessRunning
  <2>5. CASE FinishManagedProcess
    BY <2>5, HookEnds DEF FinishManagedProcess
  <2>6. CASE VerifierPassed
    BY <2>6, HookEnds DEF VerifierPassed
  <2>7. CASE VerifierFailed
    BY <2>7, HookEnds DEF VerifierFailed
  <2> QED BY <1>3, <2>1, <2>2, <2>3, <2>4, <2>5, <2>6, <2>7 DEF Verifier
<1>4. CASE End
  <2>1. CASE Failing
    BY <2>1 DEF Failing
  <2>2. CASE Failed
    BY <2>2 DEF Failed
  <2>3. CASE Closing
    <3>0. ctl.pc = "closing"
      BY <2>3 DEF Closing
    <3>1. ctl' = [ctl EXCEPT !.pc = "close", !.seen = mission] /\ "close" \in PCs
      BY <2>3 DEF Closing
    <3>2. ctl' \in Memory /\ ctl'.pc = "close"
      BY <3>1, PcSeen DEF TypeOK
    <3> QED BY <3>2, <3>0
  <2>4. CASE Close
    BY <2>4, OffType DEF Close
  <2> QED BY <1>4, <2>1, <2>2, <2>3, <2>4 DEF End
<1>5. CASE ForceStop
  <2>1. CASE ForceBegin
    BY <2>1 DEF ForceBegin
  <2>2. CASE ForceSnapshot
    BY <2>2 DEF ForceSnapshot
  <2>3. CASE ForceReconcile
    BY <2>3 DEF ForceReconcile
  <2>4. CASE ForceManaged
    BY <2>4 DEF ForceManaged
  <2>5. CASE ForceProviders
    BY <2>5 DEF ForceProviders
  <2>6. CASE ForceController
    BY <2>6, OffType DEF ForceController
  <2>7. CASE ForceFinish
    BY <2>7 DEF ForceFinish
  <2> QED BY <1>5, <2>1, <2>2, <2>3, <2>4, <2>5, <2>6, <2>7 DEF ForceStop
<1>6. CASE Operator
  <2>1. CASE StartController
    BY <2>1, OffType, OpenOperationsType DEF StartController, Memory, Off
  <2>2. CASE StartAgain
    BY <2>2 DEF StartAgain
  <2>3. CASE Pause
    BY <2>3 DEF Pause, Command
  <2>4. CASE Resume
    BY <2>4 DEF Resume, Command
  <2>5. CASE Stop
    BY <2>5 DEF Stop, Command
  <2>6. CASE Cancel
    BY <2>6 DEF Cancel, Command
  <2>7. CASE Continue
    BY <2>7 DEF Continue, Command
  <2>8. CASE TaskCommand
    BY <2>8 DEF TaskCommand, Command
  <2>9. CASE Steer
    BY <2>9 DEF Steer, Command
  <2> QED BY <1>6, <2>1, <2>2, <2>3, <2>4, <2>5, <2>6, <2>7, <2>8, <2>9 DEF Operator
<1>7. CASE Crash
  BY <1>7, OffType DEF Crash
<1>8. CASE OrphanExits
  BY <1>8 DEF OrphanExits
<1>9. CASE UNCHANGED vars
  BY <1>9 DEF vars
<1> QED BY <1>1, <1>2, <1>3, <1>4, <1>5, <1>6, <1>7, <1>8, <1>9 DEF CNext, Controller

\* What the controller shares with the operator and the operating system keeps
\* its type.
LEMMA SharedStep ==
  ASSUME TypeOK, RowsConsistent, CTypeOK, MemoryFollows, [CNext]_vars PROVE SharedTypeOK'
<1> USE DEF CTypeOK, SharedTypeOK, configVars, processVars
<1>1. CASE Boot
  <2>1. CASE Recover
    BY <2>1 DEF Recover, StoreStep
  <2>2. CASE Cleanup
    BY <2>2 DEF Cleanup, Survivors
  <2>3. CASE Release
    BY <2>3 DEF Release, StoreStep
  <2>4. CASE ReadStatus
    BY <2>4 DEF ReadStatus, OnlyCtl
  <2>5. CASE Admit
    BY <2>5 DEF Admit, StoreStep
  <2>6. CASE Setup
    BY <2>6, ControllerAssumption DEF Setup
  <2> QED BY <1>1, <2>1, <2>2, <2>3, <2>4, <2>5, <2>6 DEF Boot
<1>2. CASE Iterate
  <2>1. CASE Boundary
    BY <2>1 DEF Boundary, OnlyCtl
  <2>2. CASE Drain
    BY <2>2 DEF Drain, OnlyCtl
  <2>3. CASE Drained
    BY <2>3 DEF Drained, Memory
  <2>4. CASE Flags
    BY <2>4 DEF Flags
  <2>5. CASE Halt
    BY <2>5 DEF Halt, StoreStep
  <2>6. CASE Look
    BY <2>6 DEF Look, OnlyCtl
  <2>7. CASE Pick
    BY <2>7 DEF Pick, StoreStep
  <2>8. CASE Begin
    BY <2>8 DEF Begin, StoreStep
  <2>9. CASE Idle
    BY <2>9 DEF Idle, OnlyCtl
  <2>10. CASE Complete
    BY <2>10 DEF Complete, StoreStep
  <2>11. CASE Select
    BY <2>11 DEF Select, StoreStep
  <2>12. CASE Launch
    BY <2>12 DEF Launch, StoreStep
  <2>13. CASE Refused
    BY <2>13 DEF Refused, OnlyCtl
  <2>14. CASE MarkRunning
    BY <2>14 DEF MarkRunning, StoreStep
  <2>15. CASE Unmarked
    BY <2>15 DEF Unmarked, StoreStep
  <2>16. CASE Scheduled
    BY <2>16 DEF Scheduled, OnlyCtl
  <2>17. CASE Attempt
    BY <2>17, ControllerAssumption DEF Attempt, At, MemoryFollows, OpPCs, Identities
  <2>18. CASE RecordProcess
    BY <2>18 DEF RecordProcess, At, MemoryFollows, OpPCs, Identities
  <2>19. CASE ProviderExits
    BY <2>19 DEF ProviderExits
  <2>20. CASE Retry
    BY <2>20 DEF Retry, OnlyCtl
  <2>21. CASE Exited
    BY <2>21 DEF Exited, StoreStep
  <2>22. CASE Diagnose
    BY <2>22 DEF Diagnose, StoreStep
  <2>23. CASE After
    BY <2>23 DEF After, StoreStep
  <2>24. CASE Handoff
    BY <2>24 DEF Handoff, StoreStep
  <2> QED BY <1>2, <2>1, <2>2, <2>3, <2>4, <2>5, <2>6, <2>7, <2>8, <2>9, <2>10, <2>11, <2>12,
             <2>13, <2>14, <2>15, <2>16, <2>17, <2>18, <2>19, <2>20, <2>21, <2>22, <2>23,
             <2>24 DEF Iterate
<1>3. CASE Verifier
  <2>1. CASE Verify
    BY <2>1 DEF Verify, OnlyCtl
  <2>2. CASE PrepareManagedProcess
    BY <2>2 DEF PrepareManagedProcess
  <2>3. CASE SpawnVerifier
    BY <2>3 DEF SpawnVerifier
  <2>4. CASE MarkManagedProcessRunning
    BY <2>4 DEF MarkManagedProcessRunning
  <2>5. CASE FinishManagedProcess
    BY <2>5 DEF FinishManagedProcess
  <2>6. CASE VerifierPassed
    BY <2>6 DEF VerifierPassed, StoreStep
  <2>7. CASE VerifierFailed
    BY <2>7 DEF VerifierFailed, OnlyCtl
  <2> QED BY <1>3, <2>1, <2>2, <2>3, <2>4, <2>5, <2>6, <2>7 DEF Verifier
<1>4. CASE End
  <2>1. CASE Failing
    BY <2>1 DEF Failing, StoreStep
  <2>2. CASE Failed
    BY <2>2 DEF Failed, StoreStep
  <2>3. CASE Closing
    BY <2>3 DEF Closing, OnlyCtl
  <2>4. CASE Close
    BY <2>4 DEF Close
  <2> QED BY <1>4, <2>1, <2>2, <2>3, <2>4 DEF End
<1>5. CASE ForceStop
  <2>1. CASE ForceBegin
    BY <2>1 DEF ForceBegin, ForceGoto
  <2>2. CASE ForceSnapshot
    BY <2>2, OpenOperationsType DEF ForceSnapshot
  <2>3. CASE ForceReconcile
    BY <2>3 DEF ForceReconcile, ForceGoto
  <2>4. CASE ForceManaged
    <3>1. CASE managed = "STARTING"
      BY <2>4, <3>1 DEF ForceManaged, ForceIdle
    <3>2. CASE managed # "STARTING"
      <4>1. force' \in [pc : {"idle", "snapshot", "reconcile", "managed", "providers", "controller", "lock"},
                      left : SUBSET OpenRows]
        BY <2>4, <3>2 DEF ForceManaged, ForceGoto
      <4>2. managed' = "none" /\ checking' \in BOOLEAN
        BY <2>4, <3>2 DEF ForceManaged
      <4> QED BY <2>4, <4>1, <4>2 DEF ForceManaged
    <3> QED BY <3>1, <3>2
  <2>5. CASE ForceProviders
    <3>1. force' \in [pc : {"idle", "snapshot", "reconcile", "managed", "providers", "controller", "lock"},
                      left : SUBSET OpenRows]
      <4>1. ForceGoto("controller") \/ ForceIdle
        BY <2>5 DEF ForceProviders
      <4> QED BY <4>1 DEF ForceGoto, ForceIdle
    <3>2. alive' \subseteq Ops /\ station' \in BOOLEAN
      BY <2>5 DEF ForceProviders, Survivors
    <3> QED BY <2>5, <3>1, <3>2 DEF ForceProviders
  <2>6. CASE ForceController
    BY <2>6 DEF ForceController, ForceGoto
  <2>7. CASE ForceFinish
    BY <2>7 DEF ForceFinish, ForceIdle
  <2> QED BY <1>5, <2>1, <2>2, <2>3, <2>4, <2>5, <2>6, <2>7 DEF ForceStop
<1>6. CASE Operator
  <2>1. CASE StartController
    BY <2>1, ControllerAssumption DEF StartController
  <2>2. CASE StartAgain
    BY <2>2 DEF StartAgain, StoreStep
  <2>3. CASE Pause
    BY <2>3 DEF Pause, Command
  <2>4. CASE Resume
    BY <2>4 DEF Resume, Command
  <2>5. CASE Stop
    BY <2>5 DEF Stop, Command
  <2>6. CASE Cancel
    BY <2>6 DEF Cancel, Command
  <2>7. CASE Continue
    BY <2>7, ReleasedType DEF Continue, Command
  <2>8. CASE TaskCommand
    BY <2>8 DEF TaskCommand, Command
  <2>9. CASE Steer
    <3>1. used' \in [commands : Nat, starts : Nat, crashes : Nat] /\ UNCHANGED <<processVars, force>>
      BY <2>9 DEF Steer, Command
    <3>2. requests' \subseteq Tasks /\ pauseAfter' \in BOOLEAN /\ stopAfter' \in Tasks \cup {NoTask} /\ released' \subseteq Ops
      BY <2>9 DEF Steer
    <3> QED BY <3>1, <3>2
  <2> QED BY <1>6, <2>1, <2>2, <2>3, <2>4, <2>5, <2>6, <2>7, <2>8, <2>9 DEF Operator
<1>7. CASE Crash
  BY <1>7 DEF Crash
<1>8. CASE OrphanExits
  BY <1>8 DEF OrphanExits
<1>9. CASE UNCHANGED vars
  BY <1>9 DEF vars
<1> QED BY <1>1, <1>2, <1>3, <1>4, <1>5, <1>6, <1>7, <1>8, <1>9 DEF CNext, Controller

\* The controller's memory is consistent with its program counter.
CtlInv == StoreInv /\ CTypeOK /\ MemoryFollows

\* CtlInv is inductive, and every step from it is a step of the store.
LEMMA CtlStep == CtlInv /\ [CNext]_vars => CtlInv' /\ [Next]_storeVars
<1> SUFFICES ASSUME CtlInv, [CNext]_vars PROVE CtlInv' /\ [Next]_storeVars
  OBVIOUS
<1>1. [Next]_storeVars
  BY StepIsStoreStep DEF CtlInv
<1>2. StoreInv'
  BY <1>1, StoreInvStep DEF CtlInv
<1>3. CTypeOK' /\ MemoryFollows'
  BY <1>2, MemoryStep, SharedStep DEF CtlInv, StoreInv, OpsInv, CTypeOK
<1> QED BY <1>1, <1>2, <1>3 DEF CtlInv

\* CtlInv holds in the initial state.
LEMMA CtlInit == CInit => CtlInv
<1> SUFFICES ASSUME CInit PROVE CtlInv
  OBVIOUS
<1>1. StoreInv
  BY StoreInvInit DEF CInit
<1>2. SharedTypeOK
  BY DEF CInit, SharedTypeOK, Identities
<1>3. ctl \in Memory /\ ctl.pc = "off"
  BY OffType DEF CInit
<1>4. MemoryFollows
  BY <1>3 DEF MemoryFollows, OpPCs, TaskPCs, CheckedPCs, BeforePCs, LaunchedPCs
<1> QED BY <1>1, <1>2, <1>3, <1>4 DEF CtlInv, CTypeOK

\* In every reachable state of the composed system the store's invariant and
\* the controller's hold.
THEOREM ControllerInvariant == CSpec => []CtlInv
  BY CtlInit, CtlStep, PTL DEF CSpec

\* The controller's memory, the configuration and the process tables are well
\* typed in every reachable state.
THEOREM ControllerTypeCorrect == CSpec => []CTypeOK
  BY ControllerInvariant, PTL DEF CtlInv

\* The composed system implements the store: controller, operator, force stop
\* and crashes change the store only by its transactions.
THEOREM ControllerImplementsStore == CSpec => ImplementsStore
<1>1. CInit => Init
  BY DEF CInit
<1> QED BY <1>1, CtlStep, ControllerInvariant, PTL DEF CSpec, Spec, ImplementsStore

----------------------------------------------------------------------------
(* One unresolved operation *)

Quiet == \A o \in Ops : ~ActiveOp(o)
NoneBegun ==
  \A o \in Ops : (ActiveOp(o)' => ActiveOp(o)) /\ (opStatus[o] = "ABSENT" => opStatus'[o] = "ABSENT")

\* An unresolved operation is the one the controller has launched, or one that
\* waits for the reconciliation of an error or of the next start.
SoleInv ==
  /\ SoleOperation
  /\ ctl.pc \in LaunchedPCs => \A o \in Ops : ActiveOp(o) => o = ctl.op
  /\ ctl.pc \notin LaunchedPCs \cup WaitingPCs => Quiet

\* Only begin_operation makes an operation unresolved; an exit, an abort and a
\* reconciliation resolve.
LEMMA Settling ==
  ASSUME TypeOK
  PROVE  /\ \A s \in MissionStates : SetMissionStatus(s) => NoneBegun
         /\ CancelMission => NoneBegun
         /\ ReadyTasks => NoneBegun
         /\ ReleaseDeclinedTasks => NoneBegun
         /\ ReconcileInterruptedOperations => NoneBegun /\ Quiet'
         /\ \A t \in Tasks : /\ BeginIteration(t) => NoneBegun
                             /\ AcceptProposal(t) => NoneBegun
                             /\ RejectProposal(t) => NoneBegun
                             /\ RequeueTask(t) => NoneBegun
                             /\ AmendTask(t) => NoneBegun
                             /\ RejectTask(t) => NoneBegun
         /\ \A t \in Tasks, b \in BOOLEAN : VerifyTask(t, b) => NoneBegun
         /\ \A t \in Tasks, s \in TaskStates : SetTaskStatus(t, s) => NoneBegun
         /\ \A t, d \in Tasks : AddDependency(t, d) => NoneBegun
         /\ \A t \in Tasks, ds \in SUBSET Tasks : AddTask(t, ds) => NoneBegun
         /\ \A t \in Tasks, o \in Ops, ds \in SUBSET Tasks : ProposeTask(t, o, ds) => NoneBegun
         /\ \A o \in Ops : /\ MarkOperationRunning(o) => NoneBegun
                           /\ AbortPreparedOperation(o) => NoneBegun /\ ~ActiveOp(o)'
                           /\ DiagnoseCapacity(o) => NoneBegun
                           /\ ContinueTaskAfterProviderFailure(o) => NoneBegun
         /\ \A o \in Ops, code \in ExitCodes : FinishOperation(o, code) => NoneBegun /\ ~ActiveOp(o)'
         /\ UNCHANGED storeVars => NoneBegun
<1> USE DEF NoneBegun, ActiveOp, ActiveOperationStatuses, opVars
<1>1. \A s \in MissionStates : SetMissionStatus(s) => NoneBegun
  BY DEF SetMissionStatus
<1>2. (CancelMission => NoneBegun) /\ (ReadyTasks => NoneBegun) /\ (ReleaseDeclinedTasks => NoneBegun)
  BY DEF CancelMission, ReadyTasks, ReleaseDeclinedTasks
<1>3. ReconcileInterruptedOperations => NoneBegun /\ Quiet'
  BY DEF ReconcileInterruptedOperations, Quiet
<1>4. \A t \in Tasks : /\ BeginIteration(t) => NoneBegun
                       /\ AcceptProposal(t) => NoneBegun
                       /\ RejectProposal(t) => NoneBegun
                       /\ RequeueTask(t) => NoneBegun
                       /\ AmendTask(t) => NoneBegun
                       /\ RejectTask(t) => NoneBegun
  BY DEF BeginIteration, AcceptProposal, RejectProposal, RequeueTask, AmendTask, RejectTask
<1>5. \A t \in Tasks, b \in BOOLEAN : VerifyTask(t, b) => NoneBegun
  BY DEF VerifyTask
<1>6. \A t \in Tasks, s \in TaskStates : SetTaskStatus(t, s) => NoneBegun
  BY DEF SetTaskStatus
<1>7. \A t, d \in Tasks : AddDependency(t, d) => NoneBegun
  BY DEF AddDependency
<1>8. \A t \in Tasks, ds \in SUBSET Tasks : AddTask(t, ds) => NoneBegun
  BY DEF AddTask, InsertTask
<1>9. \A t \in Tasks, o \in Ops, ds \in SUBSET Tasks : ProposeTask(t, o, ds) => NoneBegun
  BY DEF ProposeTask, InsertTask
<1>10. \A o \in Ops : MarkOperationRunning(o) => NoneBegun
  BY DEF MarkOperationRunning, CanMarkRunning, TypeOK
<1>11. \A o \in Ops : AbortPreparedOperation(o) => NoneBegun /\ ~ActiveOp(o)'
  BY DEF AbortPreparedOperation, CanAbortPrepared, TypeOK
<1>12. \A o \in Ops : (DiagnoseCapacity(o) => NoneBegun) /\ (ContinueTaskAfterProviderFailure(o) => NoneBegun)
  BY DEF DiagnoseCapacity, ContinueTaskAfterProviderFailure
<1>13. \A o \in Ops, code \in ExitCodes : FinishOperation(o, code) => NoneBegun /\ ~ActiveOp(o)'
  BY DEF FinishOperation, TypeOK
<1>14. UNCHANGED storeVars => NoneBegun
  BY DEF storeVars
<1> QED BY <1>1, <1>2, <1>3, <1>4, <1>5, <1>6, <1>7, <1>8, <1>9, <1>10, <1>11, <1>12, <1>13, <1>14

\* Every step but the launch begins nothing.
LEMMA OnlyLaunchBegins ==
  ASSUME TypeOK, CTypeOK, MemoryFollows, [CNext]_vars PROVE NoneBegun \/ Launch
<1> USE Settling
<1>1. CASE ControllerTransaction
  BY <1>1 DEF ControllerTransaction, MemoryFollows, OpPCs
<1>2. CASE LaunchTransaction
  BY <1>2 DEF LaunchTransaction
<1>3. CASE CommandTransaction
  BY <1>3 DEF CommandTransaction
<1> QED BY <1>1, <1>2, <1>3, StepIsTransaction

\* Steps that settle an operation leave none behind.
LEMMA SettledIsQuiet ==
  ASSUME CtlInv, SoleInv, Recover \/ Failing \/ Exited \/ Unmarked
  PROVE  ctl'.pc \in WaitingPCs \/ Quiet'
<1> USE Settling DEF CtlInv, StoreInv
<1>1. CASE Recover
  BY <1>1 DEF Recover
<1>2. CASE Failing
  BY <1>2 DEF Failing
<1>3. CASE Exited
  <2>1. ctl.pc = "exited" /\ ctl.op \in Ops /\ ctl.code \in ExitCodes
    BY <1>3 DEF Exited, At, MemoryFollows, OpPCs
  <2>2. \A o \in Ops : ActiveOp(o) => o = ctl.op
    BY <2>1 DEF SoleInv, LaunchedPCs, OpPCs
  <2>3. NoneBegun
    BY <1>3, <2>1 DEF Exited
  <2>4. ASSUME NEW o \in Ops, o = ctl.op PROVE ~ActiveOp(o)'
    <3>1. CASE ActiveOp(o)
      <4>1. FinishOperation(o, ctl.code)
        BY <1>3, <2>4, <3>1 DEF Exited
      <4> QED BY <2>1, <4>1
    <3>2. CASE ~ActiveOp(o)
      BY <2>3, <3>2 DEF NoneBegun
    <3> QED BY <3>1, <3>2
  <2> QED BY <2>2, <2>3, <2>4 DEF Quiet, NoneBegun
<1>4. CASE Unmarked
  <2>1. ctl.pc = "unmarked" /\ ctl.op \in Ops /\ ~ctl.inAfter
    BY <1>4 DEF Unmarked, At, MemoryFollows, OpPCs, LaunchedPCs, BeforePCs
  <2>2. \A o \in Ops : ActiveOp(o) => o = ctl.op
    BY <2>1 DEF SoleInv, LaunchedPCs, OpPCs
  <2>3. CASE AbortPreparedOperation(ctl.op)
    BY <2>1, <2>2, <2>3 DEF Quiet, NoneBegun
  <2>4. CASE Raise
    BY <2>1, <2>4, HookEnds DEF CTypeOK, WaitingPCs
  <2> QED BY <1>4, <2>3, <2>4 DEF Unmarked
<1> QED BY <1>1, <1>2, <1>3, <1>4

\* SoleInv is inductive.
LEMMA SoleStep ==
  ASSUME CtlInv, CtlInv', SoleInv, [CNext]_vars PROVE SoleInv'
<1>1. PcFlow
  BY MemoryStep DEF CtlInv, StoreInv
<1>2. NoneBegun \/ Launch
  BY OnlyLaunchBegins DEF CtlInv, StoreInv
<1>3. CASE NoneBegun /\ ~Launch
  <2>1. SoleOperation'
    BY <1>3 DEF SoleInv, SoleOperation, NoneBegun
  <2>2. ctl'.pc \in LaunchedPCs => \A o \in Ops : ActiveOp(o)' => o = ctl'.op
    BY <1>1, <1>3 DEF PcFlow, SoleInv, NoneBegun
  <2>3. ctl'.pc \notin LaunchedPCs \cup WaitingPCs => Quiet'
    <3>1. CASE Recover \/ Failing \/ Exited \/ Unmarked
      BY <3>1, SettledIsQuiet
    <3>2. CASE ctl.pc \notin LaunchedPCs \cup WaitingPCs
      BY <1>3, <3>2 DEF SoleInv, Quiet, NoneBegun
    <3> QED BY <1>1, <3>1, <3>2 DEF PcFlow
  <2> QED BY <2>1, <2>2, <2>3 DEF SoleInv
<1>4. CASE Launch
  <2>1. ctl.pc = "launch" /\ ctl.task \in Tasks /\ Quiet
    BY <1>4 DEF Launch, At, CtlInv, MemoryFollows, TaskPCs, SoleInv, LaunchedPCs, WaitingPCs, OpPCs
  <2>2. CASE CanBeginOperation(ctl.task)
    <3>1. PICK o \in Ops : BeginOperation(ctl.task, o) /\ ctl' = [ctl EXCEPT !.pc = "prepared", !.op = o]
      BY <1>4, <2>2 DEF Launch
    <3>2. ctl'.pc = "prepared" /\ ctl'.op = o
      BY <3>1, PcOp, PCsListed DEF CtlInv, CTypeOK
    <3>3. \A p \in Ops : ActiveOp(p)' => p = o
      BY <2>1, <3>1 DEF BeginOperation, Quiet, ActiveOp, CtlInv, StoreInv, TypeOK
    <3> QED BY <3>2, <3>3 DEF SoleInv, SoleOperation, LaunchedPCs, OpPCs, WaitingPCs
  <2>3. CASE ~CanBeginOperation(ctl.task)
    <3>1. UNCHANGED storeVars /\ (Goto("boundary") \/ Goto("refused"))
      BY <1>4, <2>3 DEF Launch
    <3>2. ctl'.pc \in {"boundary", "refused"}
      BY <3>1, GotoMoves, PCsListed DEF CtlInv, CTypeOK
    <3>3. Quiet'
      BY <2>1, <3>1, Settling DEF Quiet, NoneBegun, CtlInv, StoreInv
    <3> QED BY <3>2, <3>3 DEF SoleInv, SoleOperation, Quiet, LaunchedPCs, OpPCs, WaitingPCs
  <2> QED BY <2>2, <2>3
<1> QED BY <1>2, <1>3, <1>4

\* One provider works for a mission at a time, for any number of tasks,
\* commands, starts and crashes, with or without a station.
THEOREM SoleOperationHolds == CSpec => []SoleOperation
<1>1. CInit => SoleInv
  <2> SUFFICES ASSUME CInit PROVE SoleInv
    OBVIOUS
  <2>1. Quiet
    BY DEF CInit, Init, Quiet, ActiveOp, ActiveOperationStatuses
  <2>2. ctl.pc = "off"
    BY OffType DEF CInit
  <2> QED BY <2>1, <2>2 DEF SoleInv, SoleOperation, Quiet, LaunchedPCs, OpPCs, WaitingPCs
<1>2. CtlInv /\ CtlInv' /\ SoleInv /\ [CNext]_vars => SoleInv'
  BY SoleStep
<1>3. SoleInv => SoleOperation
  BY DEF SoleInv
<1> QED BY <1>1, <1>2, <1>3, ControllerInvariant, PTL DEF CSpec

----------------------------------------------------------------------------
(* Unknown outcomes *)

\* Operation rows are filled in order, only an operation that EXITED has an exit
\* status, and the controller holds the latest operation.
RowsFilled ==
  /\ \A o \in Ops : opStatus[o] # "EXITED" => opExit[o] = NoExit
  /\ \A o, p \in Ops : p < o /\ opStatus[o] # "ABSENT" => opStatus[p] # "ABSENT"

HoldsLatest == ctl.pc \in OpPCs => \A p \in Ops : p > ctl.op => opStatus[p] = "ABSENT"

\* No transaction leaves a gap or an exit status without an exit.
LEMMA RowsStep == ASSUME TypeOK, RowsFilled, [Next]_storeVars PROVE RowsFilled'
<1> USE ConstantsAssumption DEF TypeOK, RowsFilled, opVars, Ops
<1>1. CASE UNCHANGED opVars
  BY <1>1
<1>2. CASE ReconcileInterruptedOperations
  BY <1>2 DEF ReconcileInterruptedOperations, ActiveOp, ActiveOperationStatuses
<1>3. ASSUME NEW t \in Tasks, NEW o \in Ops, BeginOperation(t, o) PROVE RowsFilled'
  BY <1>3 DEF BeginOperation, NewOp
<1>4. ASSUME NEW o \in Ops, MarkOperationRunning(o) PROVE RowsFilled'
  BY <1>4 DEF MarkOperationRunning, CanMarkRunning
<1>5. ASSUME NEW o \in Ops, AbortPreparedOperation(o) PROVE RowsFilled'
  BY <1>5 DEF AbortPreparedOperation, CanAbortPrepared
<1>6. ASSUME NEW o \in Ops, NEW code \in ExitCodes, FinishOperation(o, code) PROVE RowsFilled'
  BY <1>6 DEF FinishOperation, ActiveOp, ActiveOperationStatuses
<1>7. ASSUME NEW o \in Ops, DiagnoseCapacity(o) PROVE RowsFilled'
  BY <1>7 DEF DiagnoseCapacity
<1>8. CASE MissionNext
  BY <1>1, <1>8 DEF MissionNext, SetMissionStatus, CancelMission
<1>9. CASE TaskNext
  <2>1. UNCHANGED opVars
    BY <1>9 DEF TaskNext, ReadyTasks, AddTask, ProposeTask, InsertTask, AcceptProposal, RejectProposal,
                AddDependency, SetTaskStatus, RequeueTask, AmendTask, BeginIteration, VerifyTask, RejectTask
  <2> QED BY <1>1, <2>1
<1>10. ASSUME NEW o \in Ops, ContinueTaskAfterProviderFailure(o) PROVE RowsFilled'
  BY <1>1, <1>10 DEF ContinueTaskAfterProviderFailure
<1>11. CASE ReleaseDeclinedTasks
  BY <1>1, <1>11 DEF ReleaseDeclinedTasks
<1>12. CASE UNCHANGED storeVars
  BY <1>1, <1>12 DEF storeVars
<1> QED BY <1>2, <1>3, <1>4, <1>5, <1>6, <1>7, <1>8, <1>9, <1>10, <1>11, <1>12 DEF Next,
           OperationNext

\* The transactions of the controller keep a task of unknown outcome BLOCKED
\* behind its UNCERTAIN operation.
LEMMA UnknownKept ==
  ASSUME StoreInv, RowsFilled, NEW u \in Tasks, Unknown(u)
  PROVE  /\ \A s \in MissionStates : SetMissionStatus(s) => Unknown(u)'
         /\ ReadyTasks => Unknown(u)'
         /\ ReleaseDeclinedTasks => Unknown(u)'
         /\ ReconcileInterruptedOperations => Unknown(u)'
         /\ \A t \in Tasks : BeginIteration(t) => Unknown(u)'
         /\ \A t \in Tasks, b \in BOOLEAN : VerifyTask(t, b) => Unknown(u)'
         /\ \A t \in Tasks, o \in Ops : BeginOperation(t, o) => Unknown(u)'
         /\ \A o \in Ops : /\ MarkOperationRunning(o) => Unknown(u)'
                           /\ AbortPreparedOperation(o) => Unknown(u)'
                           /\ DiagnoseCapacity(o) => Unknown(u)'
                           /\ /\ ContinueTaskAfterProviderFailure(o)
                              /\ \A p \in Ops : p > o => opStatus[p] = "ABSENT"
                              => Unknown(u)'
         /\ \A o \in Ops, code \in ExitCodes : FinishOperation(o, code) => Unknown(u)'
         /\ UNCHANGED storeVars => Unknown(u)'
<1> DEFINE Latest(o) == opTask[o] = u /\ \A p \in Ops : opTask[p] = u => p <= o
<1>1. PICK l \in Ops : opStatus[l] = "UNCERTAIN" /\ Latest(l)
  BY DEF Unknown
<1>2. status[u] = "BLOCKED" /\ u # NoTask
  BY ConstantsAssumption DEF Unknown
<1>3. ASSUME status'[u] = "BLOCKED", opStatus'[l] = "UNCERTAIN", opTask'[l] = u,
             \A p \in Ops : opTask'[p] = u => opTask[p] = u
      PROVE  Unknown(u)'
  BY <1>1, <1>3 DEF Unknown
<1>4. ASSUME NEW o \in Ops, opTask[o] = u PROVE ~ActiveOp(o)
  BY <1>2, <1>4 DEF StoreInv, OpsInv, RunningIsBacked, HasActiveOp
<1>5. opStatus \in [Ops -> OperationStates \cup {"ABSENT"}] /\ opTask \in [Ops -> Tasks \cup {NoTask}]
      /\ status \in [Tasks -> TaskStates \cup {"ABSENT"}] /\ opExit \in [Ops -> ExitCodes \cup {NoExit}]
  BY DEF StoreInv, TypeOK
<1> HIDE DEF Latest
<1>6. opTask[l] = u
  BY <1>1 DEF Latest
<1>7. \A s \in MissionStates : SetMissionStatus(s) => Unknown(u)'
  BY <1>1, <1>2, <1>3, <1>6 DEF SetMissionStatus, taskVars, opVars
<1>8. ReadyTasks => Unknown(u)'
  BY <1>1, <1>2, <1>3, <1>6 DEF ReadyTasks, Promoted, opVars
<1>9. ReleaseDeclinedTasks => Unknown(u)'
  <2>1. ~Declined(u)
    <3> SUFFICES ASSUME NEW o \in Ops, opTask[o] = u, opExit[o] = OPERATOR_DECLINED,
                        \A p \in Ops : opTask[p] = u => p <= o
                 PROVE FALSE
      BY DEF Declined
    <3>1. o = l
      BY <1>1, <1>6 DEF Latest, Ops
    <3>2. opExit[l] = NoExit
      BY <1>1 DEF RowsFilled
    <3> QED BY <3>1, <3>2 DEF NoExit, OPERATOR_DECLINED
  <2> QED BY <1>1, <1>2, <1>3, <1>6, <2>1 DEF ReleaseDeclinedTasks, opVars
<1>10. ReconcileInterruptedOperations => Unknown(u)'
  BY <1>1, <1>2, <1>3, <1>6 DEF ReconcileInterruptedOperations, ActiveOp, ActiveOperationStatuses
<1>11. \A t \in Tasks : BeginIteration(t) => Unknown(u)'
  BY <1>1, <1>2, <1>3, <1>6 DEF BeginIteration, opVars
<1>12. \A t \in Tasks, b \in BOOLEAN : VerifyTask(t, b) => Unknown(u)'
  BY <1>1, <1>2, <1>3, <1>5, <1>6 DEF VerifyTask, CanVerify, opVars
<1>13. ASSUME NEW t \in Tasks, NEW o \in Ops, BeginOperation(t, o) PROVE Unknown(u)'
  <2>1. t # u /\ o # l
    BY <1>1, <1>2, <1>13 DEF BeginOperation, CanBeginOperation, NewOp
  <2> QED BY <1>1, <1>2, <1>3, <1>5, <1>6, <1>13, <2>1 DEF BeginOperation
<1>14. ASSUME NEW o \in Ops, MarkOperationRunning(o) PROVE Unknown(u)'
  BY <1>1, <1>2, <1>3, <1>5, <1>6, <1>14 DEF MarkOperationRunning, CanMarkRunning, taskVars
<1>15. ASSUME NEW o \in Ops, AbortPreparedOperation(o) PROVE Unknown(u)'
  <2>1. opTask[o] # u /\ o # l
    BY <1>1, <1>4, <1>15 DEF AbortPreparedOperation, CanAbortPrepared, ActiveOp, ActiveOperationStatuses
  <2> QED BY <1>1, <1>2, <1>3, <1>5, <1>6, <1>15, <2>1 DEF AbortPreparedOperation
<1>16. ASSUME NEW o \in Ops, DiagnoseCapacity(o) PROVE Unknown(u)'
  BY <1>1, <1>2, <1>3, <1>6, <1>16 DEF DiagnoseCapacity, taskVars
<1>17. ASSUME NEW o \in Ops, ContinueTaskAfterProviderFailure(o), \A p \in Ops : p > o => opStatus[p] = "ABSENT"
       PROVE Unknown(u)'
  <2>1. opStatus[o] = "EXITED"
    BY <1>17 DEF ContinueTaskAfterProviderFailure, CanContinue
  <2>2. opTask[o] # u
    BY <1>1, <1>17, <2>1 DEF Latest, Ops
  <2> QED BY <1>1, <1>2, <1>3, <1>5, <1>6, <1>17, <2>2 DEF ContinueTaskAfterProviderFailure, opVars
<1>18. ASSUME NEW o \in Ops, NEW code \in ExitCodes, FinishOperation(o, code) PROVE Unknown(u)'
  <2>1. opTask[o] # u /\ o # l
    BY <1>1, <1>4, <1>18 DEF FinishOperation, ActiveOp, ActiveOperationStatuses
  <2> QED BY <1>1, <1>2, <1>3, <1>5, <1>6, <1>18, <2>1 DEF FinishOperation
<1>19. UNCHANGED storeVars => Unknown(u)'
  BY <1>1, <1>2, <1>3, <1>6 DEF storeVars, taskVars, opVars
<1> QED BY <1>7, <1>8, <1>9, <1>10, <1>11, <1>12, <1>13, <1>14, <1>15, <1>16, <1>17, <1>18, <1>19

\* The rows are filled in order and the controller holds the latest operation.
RowInv == RowsFilled /\ HoldsLatest

\* RowInv holds in the initial state.
LEMMA RowInit == CInit => RowInv
<1> SUFFICES ASSUME CInit PROVE RowInv
  OBVIOUS
<1>1. ctl.pc = "off"
  BY OffType DEF CInit
<1> QED BY <1>1 DEF CInit, Init, RowInv, RowsFilled, HoldsLatest, OpPCs

\* Only a launch makes another operation the latest, and it is the one that the
\* controller holds from then on.
LEMMA RowInvStep == ASSUME CtlInv, CtlInv', RowInv, [CNext]_vars PROVE RowInv'
<1>1. RowsFilled'
  BY StepIsStoreStep, RowsStep DEF CtlInv, StoreInv, RowInv
<1>2. CASE Launch
  <2>1. ctl.pc = "launch" /\ ctl.task \in Tasks
    BY <1>2 DEF Launch, At, CtlInv, MemoryFollows, TaskPCs
  <2>2. CASE CanBeginOperation(ctl.task)
    <3>1. PICK o \in Ops : BeginOperation(ctl.task, o) /\ ctl' = [ctl EXCEPT !.pc = "prepared", !.op = o]
      BY <1>2, <2>2 DEF Launch
    <3>2. ctl'.pc = "prepared" /\ ctl'.op = o
      BY <3>1, PcOp, PCsListed DEF CtlInv, CTypeOK
    <3>3. \A p \in Ops : p > o => opStatus[p] = "ABSENT"
      BY <3>1, ConstantsAssumption DEF BeginOperation, NewOp, RowInv, RowsFilled, Ops
    <3>4. \A p \in Ops : p > o => opStatus'[p] = "ABSENT"
      BY <3>1, <3>3, ConstantsAssumption DEF BeginOperation, CtlInv, StoreInv, TypeOK, Ops
    <3> QED BY <1>1, <3>2, <3>4 DEF RowInv, HoldsLatest
  <2>3. CASE ~CanBeginOperation(ctl.task)
    <3>1. Goto("boundary") \/ Goto("refused")
      BY <1>2, <2>3 DEF Launch
    <3>2. ctl'.pc \in {"boundary", "refused"}
      BY <3>1, GotoMoves, PCsListed DEF CtlInv, CTypeOK
    <3> QED BY <1>1, <3>2 DEF RowInv, HoldsLatest, OpPCs
  <2> QED BY <2>2, <2>3
<1>3. CASE ~Launch
  <2>1. NoneBegun
    BY <1>3, OnlyLaunchBegins DEF CtlInv, StoreInv
  <2>2. ctl'.pc \in OpPCs => ctl.pc \in OpPCs /\ ctl'.op = ctl.op
    <3>1. PcFlow
      BY MemoryStep DEF CtlInv, StoreInv
    <3> QED BY <1>3, <3>1 DEF PcFlow
  <2> QED BY <1>1, <2>1, <2>2 DEF RowInv, HoldsLatest, NoneBegun
<1> QED BY <1>2, <1>3

\* A step that is not a command keeps an unknown outcome unknown.
LEMMA UnknownStep ==
  ASSUME CtlInv, RowInv, [CNext]_vars, NEW u \in Tasks, Unknown(u), used'.commands = used.commands
  PROVE  Unknown(u)'
<1> USE UnknownKept DEF CtlInv, RowInv
<1>1. CASE ControllerTransaction
  BY <1>1 DEF ControllerTransaction, MemoryFollows, HoldsLatest, OpPCs
<1>2. CASE LaunchTransaction
  BY <1>2 DEF LaunchTransaction, Launch, At, MemoryFollows, TaskPCs
<1>3. CASE CommandTransaction
  BY <1>3 DEF CommandTransaction
<1> QED BY <1>1, <1>2, <1>3, StepIsTransaction

\* Interrupted work is never replayed on its own, however often the controller
\* crashes and restarts: only a command of the operator releases the task.
THEOREM UnknownNeedsOperatorHolds == CSpec => UnknownNeedsOperator
<1>1. CtlInv /\ CtlInv' /\ RowInv /\ [CNext]_vars => RowInv'
  BY RowInvStep
<1>2. CtlInv /\ RowInv /\ [CNext]_vars
        => [\A t \in Tasks : Unknown(t) /\ ~Unknown(t)' => used'.commands # used.commands]_vars
  BY UnknownStep
<1> QED BY <1>1, <1>2, RowInit, ControllerInvariant, PTL DEF CSpec, UnknownNeedsOperator

-----------------------------------------------------------------------------
(* 3. Provider processes and verdicts *)

----------------------------------------------------------------------------
(* What a transaction keeps *)

\* The operation may have a process.
Live(o) == opStatus[o] \in {"RUNNING", "UNCERTAIN"}

\* A step resolves no operation with an exit and asks for no verification, and
\* what waits for a verdict keeps its text.
Keeps ==
  /\ \A o \in Ops : Live(o) => Live(o)'
  /\ \A t \in Tasks : status'[t] = "VERIFYING" => status[t] = "VERIFYING" /\ revision'[t] = revision[t]

\* Every transaction but finish_operation keeps them.
LEMMA Keeping ==
  ASSUME TypeOK
  PROVE  /\ \A s \in MissionStates : SetMissionStatus(s) => Keeps
         /\ CancelMission => Keeps
         /\ ReadyTasks => Keeps
         /\ ReleaseDeclinedTasks => Keeps
         /\ ReconcileInterruptedOperations => Keeps
         /\ \A t \in Tasks : /\ BeginIteration(t) => Keeps
                             /\ AcceptProposal(t) => Keeps
                             /\ RejectProposal(t) => Keeps
                             /\ RequeueTask(t) => Keeps
                             /\ AmendTask(t) => Keeps
                             /\ RejectTask(t) => Keeps
         /\ \A t \in Tasks, b \in BOOLEAN : VerifyTask(t, b) => Keeps
         /\ \A t \in Tasks, s \in TaskStates : SetTaskStatus(t, s) => Keeps
         /\ \A t, d \in Tasks : AddDependency(t, d) => Keeps
         /\ \A t \in Tasks, ds \in SUBSET Tasks : AddTask(t, ds) => Keeps
         /\ \A t \in Tasks, o \in Ops, ds \in SUBSET Tasks : ProposeTask(t, o, ds) => Keeps
         /\ \A t \in Tasks, o \in Ops : BeginOperation(t, o) => Keeps
         /\ \A o \in Ops : /\ MarkOperationRunning(o) => Keeps /\ Live(o)'
                           /\ AbortPreparedOperation(o) => Keeps
                           /\ DiagnoseCapacity(o) => Keeps
                           /\ ContinueTaskAfterProviderFailure(o) => Keeps
         /\ UNCHANGED storeVars => Keeps
<1> USE DEF Keeps, Live, taskVars, opVars, TypeOK
<1>1. \A s \in MissionStates : SetMissionStatus(s) => Keeps
  BY DEF SetMissionStatus
<1>2. (CancelMission => Keeps) /\ (ReadyTasks => Keeps) /\ (ReleaseDeclinedTasks => Keeps)
  BY DEF CancelMission, ReadyTasks, Promoted, ReleaseDeclinedTasks
<1>3. ReconcileInterruptedOperations => Keeps
  BY DEF ReconcileInterruptedOperations, ActiveOp, ActiveOperationStatuses
<1>4. \A t \in Tasks : /\ BeginIteration(t) => Keeps
                       /\ AcceptProposal(t) => Keeps
                       /\ RejectProposal(t) => Keeps
                       /\ RejectTask(t) => Keeps
  BY DEF BeginIteration, AcceptProposal, RejectProposal, RejectTask
<1>5. \A t \in Tasks : RequeueTask(t) => Keeps
  BY DEF RequeueTask, Promoted
<1>6. \A t \in Tasks : AmendTask(t) => Keeps
  BY DEF AmendTask
<1>7. \A t \in Tasks, b \in BOOLEAN : VerifyTask(t, b) => Keeps
  BY DEF VerifyTask
<1>8. \A t \in Tasks, s \in TaskStates : SetTaskStatus(t, s) => Keeps
  BY DEF SetTaskStatus
<1>9. \A t, d \in Tasks : AddDependency(t, d) => Keeps
  BY DEF AddDependency, Promoted
<1>10. \A t \in Tasks, ds \in SUBSET Tasks : AddTask(t, ds) => Keeps
  BY DEF AddTask, InsertTask
<1>11. \A t \in Tasks, o \in Ops, ds \in SUBSET Tasks : ProposeTask(t, o, ds) => Keeps
  BY DEF ProposeTask, InsertTask
<1>12. \A t \in Tasks, o \in Ops : BeginOperation(t, o) => Keeps
  BY DEF BeginOperation, NewOp
<1>13. \A o \in Ops : MarkOperationRunning(o) => Keeps /\ Live(o)'
  BY DEF MarkOperationRunning, CanMarkRunning
<1>14. \A o \in Ops : AbortPreparedOperation(o) => Keeps
  BY DEF AbortPreparedOperation, CanAbortPrepared
<1>15. \A o \in Ops : (DiagnoseCapacity(o) => Keeps) /\ (ContinueTaskAfterProviderFailure(o) => Keeps)
  BY DEF DiagnoseCapacity, ContinueTaskAfterProviderFailure
<1>16. UNCHANGED storeVars => Keeps
  BY DEF storeVars
<1> QED BY <1>1, <1>2, <1>3, <1>4, <1>5, <1>6, <1>7, <1>8, <1>9, <1>10, <1>11, <1>12, <1>13, <1>14, <1>15, <1>16

\* Only the exit of a provider, in after_iteration, finishes an operation.
LEMMA OnlyExitFinishes ==
  ASSUME TypeOK, CTypeOK, MemoryFollows, [CNext]_vars PROVE Keeps \/ ctl.pc = "exited"
<1> USE Keeping
<1>1. CASE ControllerTransaction
  BY <1>1 DEF ControllerTransaction, MemoryFollows, OpPCs
<1>2. CASE LaunchTransaction
  BY <1>2 DEF LaunchTransaction, Launch, At, MemoryFollows, TaskPCs
<1>3. CASE CommandTransaction
  BY <1>3 DEF CommandTransaction
<1> QED BY <1>1, <1>2, <1>3, StepIsTransaction

----------------------------------------------------------------------------
(* Verdicts *)

\* The verifier works on the text that the task still has if it is VERIFYING.
CheckInv ==
  ctl.pc \in VerdictPCs /\ status[ctl.checked] = "VERIFYING" => ctl.rev = revision[ctl.checked]

\* CheckInv is inductive.
LEMMA CheckStep == ASSUME CtlInv, CheckInv, [CNext]_vars PROVE CheckInv'
<1> USE DEF CtlInv, StoreInv
<1>1. PcFlow /\ MemoryFollows' /\ (Keeps \/ ctl.pc = "exited")
  BY CtlStep, MemoryStep, OnlyExitFinishes
<1> SUFFICES ASSUME ctl'.pc \in VerdictPCs, status'[ctl'.checked] = "VERIFYING"
             PROVE  ctl'.rev = revision'[ctl'.checked]
  BY DEF CheckInv
<1>2. ctl'.checked \in Tasks
  BY <1>1 DEF MemoryFollows, CheckedPCs, VerdictPCs
<1>3. CASE Verify
  <2>1. ctl.pc = "verify" /\ ctl.checked \in Tasks /\ revision[ctl.checked] \in Revisions
    BY <1>3 DEF Verify, At, MemoryFollows, CheckedPCs, TypeOK
  <2>2. CASE VerifierDone
    BY <2>2, HookEnds DEF CTypeOK, VerdictPCs
  <2>3. CASE \E pc \in {"vprepare", "vfail"} : ctl' = [ctl EXCEPT !.pc = pc, !.rev = revision[ctl.checked]]
    <3>1. ctl'.rev = revision[ctl.checked] /\ ctl'.checked = ctl.checked
      BY <2>3 DEF CTypeOK, Memory
    <3>2. UNCHANGED storeVars
      BY <1>3 DEF Verify, OnlyCtl
    <3> QED BY <3>1, <3>2 DEF storeVars, taskVars
  <2> QED BY <1>3, <2>2, <2>3 DEF Verify
<1>4. CASE ctl.pc \in VerdictPCs /\ ctl'.checked = ctl.checked /\ ctl'.rev = ctl.rev
  BY <1>1, <1>2, <1>4 DEF Keeps, CheckInv, VerdictPCs
<1> QED BY <1>1, <1>3, <1>4 DEF PcFlow

\* A verifier's verdict completes only the revision it was started for, whatever
\* the operator amends, rejects or cancels while it runs.
THEOREM VerdictIsForItsRevisionHolds == CSpec => VerdictIsForItsRevision
<1>1. CInit => CheckInv
  BY OffType DEF CInit, CheckInv, VerdictPCs
<1>2. CtlInv /\ CheckInv /\ [CNext]_vars => CheckInv'
  BY CheckStep
<1>3. CSpec => []CheckInv
  BY <1>1, <1>2, ControllerInvariant, PTL DEF CSpec
<1> DEFINE Verdict == ctl.pc = "vpass" /\ status[ctl.checked] # "COMPLETED" /\ status'[ctl.checked] = "COMPLETED"
                        => ctl.rev = revision[ctl.checked]
<1>4. ASSUME CtlInv, CheckInv, [CNext]_vars PROVE [Verdict]_vars
  <2> SUFFICES ASSUME ctl.pc = "vpass", status[ctl.checked] # "COMPLETED", status'[ctl.checked] = "COMPLETED"
               PROVE  ctl.rev = revision[ctl.checked]
    OBVIOUS
  <2>1. ctl.checked \in Tasks /\ TypeOK /\ [Next]_storeVars
    BY <1>4, CtlStep DEF CtlInv, StoreInv, MemoryFollows, CheckedPCs
  <2>2. status[ctl.checked] = "VERIFYING"
    BY <2>1, OnlyVerifyCompletes DEF VerifyTask, CanVerify
  <2> QED BY <1>4, <2>2 DEF CheckInv, VerdictPCs
<1> QED BY <1>3, <1>4, ControllerInvariant, PTL DEF CSpec, VerdictIsForItsRevision

----------------------------------------------------------------------------
(* Provider processes *)

\* The steps that start, end or abandon a provider process or the station.
ProcessSteps ==
  Cleanup \/ Setup \/ Attempt \/ RecordProcess \/ ProviderExits \/ Close \/ OrphanExits \/ ForceProviders \/ ForceController

\* Every other step leaves the processes and the station alone.
LEMMA OtherSteps ==
  ASSUME [CNext]_vars, ~ProcessSteps PROVE UNCHANGED <<alive, station>>
<1> USE DEF ProcessSteps, OnlyCtl, StoreStep, processVars
<1>1. CASE Boot
  BY <1>1 DEF Boot, Recover, Release, ReadStatus, Admit
<1>2. CASE Iterate
  <2>1. CASE Boundary \/ Drain \/ Drained \/ Flags \/ Halt
    BY <2>1 DEF Boundary, Drain, Drained, Flags, Halt
  <2>2. CASE Look \/ Pick \/ Begin \/ Idle \/ Complete \/ Select
    BY <2>2 DEF Look, Pick, Begin, Idle, Complete, Select
  <2>3. CASE Launch \/ Refused \/ MarkRunning \/ Unmarked \/ Scheduled \/ Retry
    BY <2>3 DEF Launch, Refused, MarkRunning, Unmarked, Scheduled, Retry
  <2>4. CASE Exited \/ Diagnose \/ After \/ Handoff
    BY <2>4 DEF Exited, Diagnose, After, Handoff
  <2> QED BY <1>2, <2>1, <2>2, <2>3, <2>4 DEF Iterate
<1>3. CASE Verifier
  BY <1>3 DEF Verifier, Verify, PrepareManagedProcess, SpawnVerifier, MarkManagedProcessRunning,
     FinishManagedProcess, VerifierPassed, VerifierFailed
<1>4. CASE End
  BY <1>4 DEF End, Failing, Failed, Closing
<1>5. CASE Crash
  BY <1>5 DEF Crash
<1>6. CASE ForceStop
  BY <1>6 DEF ForceStop, ForceBegin, ForceSnapshot, ForceReconcile, ForceManaged, ForceFinish
<1>7. CASE Operator
  BY <1>7 DEF Operator, StartController, StartAgain, Pause, Resume, Stop, Cancel, Continue, TaskCommand, Steer, Command
<1>8. CASE UNCHANGED vars
  BY <1>8 DEF vars
<1> QED BY <1>1, <1>2, <1>3, <1>4, <1>5, <1>6, <1>7, <1>8 DEF CNext, Controller

\* A living provider has a station, is the only one and belongs to an operation
\* without a recorded exit: the one the controller waits for, or one that a dead
\* controller left to the cleanup of the next start.
ProcessInv ==
  /\ alive # {} => station
  /\ \A o, p \in alive : o = p
  /\ \A o \in alive : Live(o)
  /\ ctl.pc \in RunPCs => Live(ctl.op)
  /\ ctl.pc \in LivePCs => alive \subseteq {ctl.op}
  /\ ctl.pc \notin LivePCs \cup OrphanPCs => alive = {}

\* What the steps do to processes and station.
LEMMA ProcessFlow ==
  ASSUME CtlInv, Native, [CNext]_vars
  PROVE  /\ alive' \subseteq alive \/ (Attempt /\ ctl'.pc = "spawned" /\ station' /\ alive' = alive \cup {ctl.op})
         /\ station => station' \/ alive' = {} \/ ctl.pc = "close"
         /\ Cleanup => ctl'.pc = "off" \/ ~station \/ alive' = {}
         /\ RecordProcess => ctl'.pc = "provider" \/ ctl.op \notin alive'
         /\ ProviderExits => ctl.op \notin alive'
<1> USE DEF CtlInv, CTypeOK, SharedTypeOK
<1>1. CASE ~ProcessSteps
  BY <1>1, OtherSteps DEF ProcessSteps
<1>2. CASE Cleanup
  BY <1>2, OffType DEF Cleanup, Survivors, At, RecordProcess, ProviderExits
<1>3. CASE Setup
  BY <1>3 DEF Setup, At, Cleanup, RecordProcess, ProviderExits
<1>4. CASE Attempt
  BY <1>4, GotoMoves, PCsListed DEF Attempt, At, Cleanup, RecordProcess, ProviderExits
<1>5. CASE RecordProcess
  BY <1>5, GotoMoves, PCsListed DEF RecordProcess, At, Cleanup, ProviderExits
<1>6. CASE ProviderExits
  BY <1>6 DEF ProviderExits, At, Cleanup, RecordProcess
<1>7. CASE Close
  BY <1>7 DEF Close, At, Cleanup, RecordProcess, ProviderExits
<1>8. CASE OrphanExits
  BY <1>8 DEF OrphanExits, At, Cleanup, RecordProcess, ProviderExits
<1>9. CASE ForceProviders \/ ForceController
  <2>1. force' # force
    BY <1>9 DEF ForceProviders, ForceController, ForceGoto, ForceIdle
  <2>2. ~Cleanup /\ ~RecordProcess /\ ~ProviderExits
    BY <2>1 DEF Cleanup, RecordProcess, ProviderExits
  <2> QED BY <1>9, <2>2 DEF ForceProviders, ForceController, Survivors
<1> QED BY <1>1, <1>2, <1>3, <1>4, <1>5, <1>6, <1>7, <1>8, <1>9 DEF ProcessSteps

\* ProcessInv is inductive in a mission with a station.
LEMMA ProcessInvStep == ASSUME CtlInv, Native, ProcessInv, [CNext]_vars PROVE ProcessInv'
<1> USE DEF CtlInv, StoreInv
<1>1. PcFlow /\ MemoryFollows' /\ (Keeps \/ ctl.pc = "exited")
  BY CtlStep, MemoryStep, OnlyExitFinishes
<1>2. SharedTypeOK /\ SharedTypeOK'
  BY CtlStep DEF CTypeOK
<1>3. CASE Attempt /\ ctl'.pc = "spawned" /\ station' /\ alive' = alive \cup {ctl.op}
  <2>1. ctl.pc = "attempt" /\ ctl.op \in Ops /\ ctl'.op = ctl.op /\ alive = {} /\ Live(ctl.op) /\ Keeps
    BY <1>1, <1>3 DEF Attempt, At, MemoryFollows, PcFlow, OpPCs, ProcessInv, RunPCs, LivePCs, OrphanPCs, Launch
  <2>2. Live(ctl.op)'
    BY <2>1 DEF Keeps, Live
  <2> QED BY <1>3, <2>1, <2>2 DEF ProcessInv, Live, RunPCs, LivePCs, OrphanPCs
<1>4. CASE alive' \subseteq alive
  <2>1. alive' # {} => station'
    BY <1>4, ProcessFlow DEF ProcessInv, LivePCs, OrphanPCs
  <2>2. \A o, p \in alive' : o = p
    BY <1>4 DEF ProcessInv
  <2>3. \A o \in alive' : Live(o)'
    BY <1>1, <1>2, <1>4 DEF ProcessInv, Keeps, SharedTypeOK, LivePCs, OrphanPCs
  <2>4. ctl'.pc \in RunPCs => Live(ctl.op)'
    <3> SUFFICES ASSUME ctl'.pc \in RunPCs PROVE Live(ctl.op)'
      OBVIOUS
    <3>1. ctl'.op \in Ops
      BY <1>1 DEF MemoryFollows, RunPCs, OpPCs
    <3>2. CASE MarkRunning
      <4>1. ctl.pc = "prepared" /\ ctl.op \in Ops /\ ctl'.op = ctl.op
        BY <1>1, <3>2 DEF MarkRunning, At, MemoryFollows, PcFlow, OpPCs, RunPCs, Launch
      <4>2. MarkOperationRunning(ctl.op) \/ ctl'.pc = "unmarked"
        BY <3>2, GotoMoves, PCsListed DEF MarkRunning, CTypeOK
      <4> QED BY <4>1, <4>2, Keeping DEF RunPCs, Live
    <3>3. CASE ctl.pc \in RunPCs
      <4>1. ctl'.op = ctl.op /\ Live(ctl.op) /\ Keeps
        BY <1>1, <3>3 DEF PcFlow, RunPCs, OpPCs, ProcessInv, Launch, At
      <4> QED BY <3>1, <4>1 DEF Keeps, Live
    <3> QED BY <1>1, <3>2, <3>3 DEF PcFlow
  <2>5. ctl'.pc \in LivePCs => alive' \subseteq {ctl'.op}
    <3> SUFFICES ASSUME ctl'.pc \in LivePCs PROVE alive' \subseteq {ctl'.op}
      OBVIOUS
    <3>1. ctl.pc \in LivePCs \cup {"attempt"}
      BY <1>1 DEF PcFlow, Attempt, At
    <3>2. ctl'.op = ctl.op
      BY <1>1, <3>1 DEF PcFlow, LivePCs, OpPCs, Launch, At
    <3> QED BY <1>4, <3>1, <3>2 DEF ProcessInv, LivePCs, OrphanPCs
  <2>6. ctl'.pc \notin LivePCs \cup OrphanPCs => alive' = {}
    BY <1>1, <1>4, ProcessFlow DEF PcFlow, ProcessInv, LivePCs, OrphanPCs, RecordProcess, ProviderExits, At
  <2> QED BY <2>1, <2>2, <2>3, <2>4, <2>5, <2>6 DEF ProcessInv
<1> QED BY <1>3, <1>4, ProcessFlow

\* No provider lives at the start.
LEMMA ProcessInvInit == CInit => ProcessInv
  BY OffType DEF CInit, ProcessInv, RunPCs, LivePCs, OrphanPCs

\* In a mission with a station a living provider is the only one and belongs to
\* an operation that is RUNNING or UNCERTAIN, for any number of starts, crashes,
\* retries and force stops.
THEOREM ProviderIsAccountedForHolds == ASSUME Native PROVE CSpec => []ProviderIsAccountedFor
<1>1. CtlInv /\ ProcessInv /\ [CNext]_vars => ProcessInv'
  BY ProcessInvStep
<1>2. ASSUME CtlInv, ProcessInv PROVE ProviderIsAccountedFor
  <2>1. \A o \in alive : opStatus[o] \in {"RUNNING", "UNCERTAIN"}
    BY <1>2 DEF ProcessInv, Live
  <2>2. Cardinality(alive) <= 1
    <3>1. CASE alive = {}
      BY <3>1, FS_EmptySet
    <3>2. CASE alive # {}
      <4>1. PICK o : alive = {o}
        BY <1>2, <3>2 DEF ProcessInv
      <4>2. Cardinality(alive) = 1
        BY <4>1, FS_Singleton, Zenon
      <4> QED BY <4>2
    <3> QED BY <3>1, <3>2
  <2> QED BY <2>1, <2>2 DEF ProviderIsAccountedFor
<1> QED BY <1>1, <1>2, ProcessInvInit, ControllerInvariant, PTL DEF CSpec

----------------------------------------------------------------------------
(* STOPPED *)

\* The mission is STOPPED, or becomes so when a task is added to it.
Ended == mission \in {"STOPPED", "COMPLETED"}
NotEnding == Ended' => Ended

\* The transactions that set no mission status, or another one.
LEMMA NotEndingUses ==
  /\ \A s \in MissionStates : SetMissionStatus(s) => mission' = s
  /\ CancelMission => NotEnding
  /\ ReadyTasks => NotEnding
  /\ ReleaseDeclinedTasks => NotEnding
  /\ ReconcileInterruptedOperations => NotEnding
  /\ \A t : BeginIteration(t) => NotEnding
  /\ \A t : AcceptProposal(t) => NotEnding
  /\ \A t : RejectProposal(t) => NotEnding
  /\ \A t : RequeueTask(t) => NotEnding
  /\ \A t : AmendTask(t) => NotEnding
  /\ \A t : RejectTask(t) => NotEnding
  /\ \A t, b : VerifyTask(t, b) => NotEnding
  /\ \A t, s : SetTaskStatus(t, s) => NotEnding
  /\ \A t, d : AddDependency(t, d) => NotEnding
  /\ \A t, ds : AddTask(t, ds) => NotEnding
  /\ \A t, o, ds : ProposeTask(t, o, ds) => NotEnding
  /\ \A t, o : BeginOperation(t, o) => NotEnding
  /\ \A o : MarkOperationRunning(o) => NotEnding
  /\ \A o : AbortPreparedOperation(o) => NotEnding
  /\ \A o : DiagnoseCapacity(o) => NotEnding
  /\ \A o : ContinueTaskAfterProviderFailure(o) => NotEnding
  /\ \A o, code : FinishOperation(o, code) => NotEnding
  /\ UNCHANGED storeVars => NotEnding
<1> USE DEF NotEnding, Ended, taskVars, opVars
<1>1. /\ \A s \in MissionStates : SetMissionStatus(s) => mission' = s
      /\ CancelMission => NotEnding
  BY DEF SetMissionStatus, CancelMission
<1>2. /\ ReadyTasks => NotEnding
      /\ ReleaseDeclinedTasks => NotEnding
      /\ ReconcileInterruptedOperations => NotEnding
      /\ UNCHANGED storeVars => NotEnding
  BY DEF ReadyTasks, ReleaseDeclinedTasks, ReconcileInterruptedOperations, storeVars
<1>3. /\ \A t : BeginIteration(t) => NotEnding
      /\ \A t : AcceptProposal(t) => NotEnding
      /\ \A t : RejectProposal(t) => NotEnding
      /\ \A t : RequeueTask(t) => NotEnding
      /\ \A t : AmendTask(t) => NotEnding
      /\ \A t : RejectTask(t) => NotEnding
  BY DEF BeginIteration, AcceptProposal, RejectProposal, RequeueTask, AmendTask, RejectTask
<1>4. /\ \A t, b : VerifyTask(t, b) => NotEnding
      /\ \A t, s : SetTaskStatus(t, s) => NotEnding
      /\ \A t, d : AddDependency(t, d) => NotEnding
  BY DEF VerifyTask, SetTaskStatus, AddDependency
<1>5. /\ \A t, ds : AddTask(t, ds) => NotEnding
      /\ \A t, o, ds : ProposeTask(t, o, ds) => NotEnding
  BY DEF AddTask, ProposeTask
<1>6. /\ \A t, o : BeginOperation(t, o) => NotEnding
      /\ \A o : MarkOperationRunning(o) => NotEnding
      /\ \A o : AbortPreparedOperation(o) => NotEnding
      /\ \A o : DiagnoseCapacity(o) => NotEnding
      /\ \A o : ContinueTaskAfterProviderFailure(o) => NotEnding
      /\ \A o, code : FinishOperation(o, code) => NotEnding
  BY DEF BeginOperation, MarkOperationRunning, AbortPreparedOperation, DiagnoseCapacity,
     ContinueTaskAfterProviderFailure, FinishOperation
<1> QED BY <1>1, <1>2, <1>3, <1>4, <1>5, <1>6

\* No force stop is under way; the mission ends when no provider lives, and a
\* controller that finds it so leaves it so or runs it again before it starts one.
StopInv ==
  /\ force.pc = "idle"
  /\ ctl.pc = "halt" => ctl.seen \in {"STOPPING", "PAUSED"}
  /\ Ended => alive = {} /\ ctl.pc \in DecidingPCs \cup {"closing", "close"}
  /\ ctl.pc = "admit" /\ Ended => ctl.seen \in {"STOPPED", "COMPLETED"}

\* Who ends a mission: a start that finds STOPPING, the loop that finds every
\* task verified, the end of the loop, and a force stop.
LEMMA OnlyTheseEnd ==
  ASSUME CtlInv, [CNext]_vars, ctl.pc = "halt" => ctl.seen \in {"STOPPING", "PAUSED"}
  PROVE  NotEnding \/ Admit \/ Complete \/ Close \/ ForceFinish
<1> USE NotEndingUses DEF StoreStep, OnlyCtl
<1>1. CASE Boot
  <2>1. CASE Setup
    BY <2>1 DEF Setup, MissionStates, NotEnding, Ended
  <2> QED BY <1>1, <2>1 DEF Boot, Recover, Cleanup, Release, ReadStatus
<1>2. CASE Iterate
  <2>1. CASE Boundary \/ Drain \/ Drained \/ Flags
    BY <2>1 DEF Boundary, Drain, Drained, Flags
  <2>2. CASE Halt
    BY <2>2 DEF Halt, At, MissionStates, NotEnding, Ended
  <2>3. CASE Look \/ Pick \/ Begin \/ Idle \/ Select
    BY <2>3 DEF Look, Pick, Begin, Idle, Select
  <2>4. CASE Launch \/ Refused \/ MarkRunning \/ Unmarked \/ Scheduled
    BY <2>4 DEF Launch, Refused, MarkRunning, Unmarked, Scheduled
  <2>5. CASE Attempt \/ RecordProcess \/ ProviderExits \/ Retry
    BY <2>5 DEF Attempt, RecordProcess, ProviderExits, Retry
  <2>6. CASE Exited \/ Diagnose \/ After \/ Handoff
    BY <2>6 DEF Exited, Diagnose, After, Handoff
  <2> QED BY <1>2, <2>1, <2>2, <2>3, <2>4, <2>5, <2>6 DEF Iterate
<1>3. CASE Verifier
  BY <1>3 DEF Verifier, Verify, PrepareManagedProcess, SpawnVerifier, MarkManagedProcessRunning,
     FinishManagedProcess, VerifierPassed, VerifierFailed
<1>4. CASE End
  <2>1. CASE Failed
    BY <2>1 DEF Failed, MissionStates, NotEnding, Ended
  <2> QED BY <1>4, <2>1 DEF End, Failing, Closing
<1>5. CASE Crash \/ OrphanExits
  BY <1>5 DEF Crash, OrphanExits
<1>6. CASE ForceStop
  <2>1. CASE ForceBegin
    BY <2>1 DEF ForceBegin, MissionStates, NotEnding, Ended
  <2> QED BY <1>6, <2>1 DEF ForceStop, ForceSnapshot, ForceReconcile, ForceManaged, ForceProviders, ForceController
<1>7. CASE Operator
  <2>1. CASE Pause \/ Resume \/ Stop
    BY <2>1 DEF Pause, Resume, Stop, MissionStates, NotEnding, Ended
  <2>2. CASE TaskCommand
    BY <2>2 DEF TaskCommand
  <2> QED BY <1>7, <2>1, <2>2 DEF Operator, StartController, StartAgain, Cancel, Continue, Steer
<1>8. CASE UNCHANGED vars
  BY <1>8 DEF vars
<1> QED BY <1>1, <1>2, <1>3, <1>4, <1>5, <1>6, <1>7, <1>8 DEF CNext, Controller

\* Without the command there is no force stop.
LEMMA NoForceStop ==
  ASSUME [CNext]_vars, "force-stop" \notin Commands, force.pc = "idle" PROVE ~ForceStop /\ force' = force
<1> USE DEF OnlyCtl, StoreStep
<1>0. ~ForceStop
  BY DEF ForceStop, ForceBegin, ForceSnapshot, ForceReconcile, ForceManaged, ForceProviders, ForceController, ForceFinish
<1> SUFFICES force' = force BY <1>0
<1>1. CASE Boot
  BY <1>1 DEF Boot, Recover, Cleanup, Release, ReadStatus, Admit, Setup
<1>2. CASE Iterate
  <2>1. CASE Boundary \/ Drain \/ Drained \/ Flags \/ Halt
    BY <2>1 DEF Boundary, Drain, Drained, Flags, Halt
  <2>2. CASE Look \/ Pick \/ Begin \/ Idle \/ Complete \/ Select
    BY <2>2 DEF Look, Pick, Begin, Idle, Complete, Select
  <2>3. CASE Launch \/ Refused \/ MarkRunning \/ Unmarked \/ Scheduled
    BY <2>3 DEF Launch, Refused, MarkRunning, Unmarked, Scheduled
  <2>4. CASE Attempt \/ RecordProcess \/ ProviderExits \/ Retry
    BY <2>4 DEF Attempt, RecordProcess, ProviderExits, Retry
  <2>5. CASE Exited \/ Diagnose \/ After \/ Handoff
    BY <2>5 DEF Exited, Diagnose, After, Handoff
  <2> QED BY <1>2, <2>1, <2>2, <2>3, <2>4, <2>5 DEF Iterate
<1>3. CASE Verifier
  BY <1>3 DEF Verifier, Verify, PrepareManagedProcess, SpawnVerifier, MarkManagedProcessRunning,
     FinishManagedProcess, VerifierPassed, VerifierFailed
<1>4. CASE End
  BY <1>4 DEF End, Failing, Failed, Closing, Close
<1>5. CASE Crash \/ OrphanExits
  BY <1>5 DEF Crash, OrphanExits
<1>6. CASE Operator
  BY <1>6 DEF Operator, StartController, StartAgain, Pause, Resume, Stop, Cancel, Continue, TaskCommand, Steer, Command
<1>7. CASE UNCHANGED vars
  BY <1>7 DEF vars
<1> QED BY <1>0, <1>1, <1>2, <1>3, <1>4, <1>5, <1>6, <1>7 DEF CNext, Controller

\* StopInv is inductive in a mission with a station and without force stops.
LEMMA StopStep ==
  ASSUME CtlInv, Native, "force-stop" \notin Commands, ProcessInv, StopInv, [CNext]_vars PROVE StopInv'
<1> USE DEF CtlInv, StoreInv
<1>1. PcFlow /\ ctl \in Memory
  BY CtlStep, MemoryStep DEF CTypeOK
<1>2. ~ForceStop /\ force'.pc = "idle"
  BY NoForceStop DEF StopInv
<1>3. ctl'.pc = "halt" => ctl'.seen \in {"STOPPING", "PAUSED"}
  <2>1. CASE Flags
    <3>1. CASE BoundaryDone
      BY <1>1, <3>1, HookEnds
    <3>2. CASE \E s \in {"STOPPING", "PAUSED"} : ctl' = [ctl EXCEPT !.pc = "halt", !.seen = s]
      BY <1>1, <3>2 DEF Memory
    <3> QED BY <2>1, <3>1, <3>2 DEF Flags
  <2> QED BY <1>1, <2>1 DEF PcFlow, StopInv
<1>4. CASE NotEnding /\ ~Admit
  <2>1. Ended' => alive' = {}
    BY <1>4, ProcessFlow DEF StopInv, NotEnding, Attempt, At, DecidingPCs, OrphanPCs
  <2>2. Ended' => ctl'.pc \in DecidingPCs \cup {"closing", "close"}
    BY <1>1, <1>4 DEF StopInv, NotEnding, PcFlow, DecidingPCs, OrphanPCs
  <2>3. ctl'.pc = "admit" /\ Ended' => ctl'.seen \in {"STOPPED", "COMPLETED"}
    <3>1. CASE ReadStatus
      <4>1. mission' = mission
        BY <3>1 DEF ReadStatus, OnlyCtl, storeVars
      <4>2. ctl'.seen = mission
        BY <1>1, <3>1 DEF ReadStatus, Memory
      <4> QED BY <4>1, <4>2 DEF Ended
    <3> QED BY <1>1, <1>4, <3>1 DEF PcFlow, StopInv, NotEnding
  <2> QED BY <1>2, <1>3, <2>1, <2>2, <2>3 DEF StopInv
<1>5. CASE Admit
  <2>1. ctl.pc = "admit" /\ alive' = {}
    BY <1>5 DEF Admit, At, StoreStep, processVars, ProcessInv, LivePCs, OrphanPCs
  <2>2. ctl'.pc \in {"off", "setup"}
    BY <1>1, <1>5, OffType, GotoMoves, PCsListed DEF Admit
  <2>3. Ended' => ctl'.pc = "off"
    <3> SUFFICES ASSUME Ended' PROVE ctl'.pc = "off"
      OBVIOUS
    <3>1. CASE ctl.seen \in {"CREATED", "PAUSED", "STOPPED", "FAILED"}
      BY <1>5, <3>1, OffType DEF Admit, SetMissionStatus, Ended
    <3>2. CASE ctl.seen = "STOPPING" \/ ctl.seen \in FinishedMissionStatuses
      BY <1>5, <3>2, OffType DEF Admit, FinishedMissionStatuses
    <3>3. CASE ctl.seen \notin {"CREATED", "PAUSED", "STOPPED", "FAILED", "STOPPING"} \cup FinishedMissionStatuses
      <4>1. UNCHANGED storeVars
        BY <1>5, <3>3 DEF Admit, FinishedMissionStatuses
      <4> QED BY <2>1, <3>3, <4>1 DEF Ended, StopInv, storeVars, FinishedMissionStatuses
    <3> QED BY <3>1, <3>2, <3>3
  <2> QED BY <1>2, <1>3, <2>1, <2>2, <2>3 DEF StopInv, DecidingPCs, OrphanPCs
<1>6. CASE Complete \/ Close
  <2>1. alive' = {}
    BY <1>6 DEF Complete, Close, At, StoreStep, processVars, ProcessInv, LivePCs, OrphanPCs
  <2>2. CASE Close
    BY <1>2, <2>1, <2>2, OffType DEF Close, StopInv, DecidingPCs, OrphanPCs
  <2>3. CASE Complete
    <3>1. ctl.pc = "complete" /\ (Goto("closing") \/ UNCHANGED storeVars)
      BY <2>3 DEF Complete, At
    <3>2. ~Ended
      BY <3>1 DEF StopInv, DecidingPCs, OrphanPCs
    <3>3. CASE Goto("closing")
      BY <1>1, <1>2, <2>1, <3>3, GotoMoves, PCsListed DEF StopInv, DecidingPCs, OrphanPCs
    <3>4. CASE UNCHANGED storeVars
      BY <1>4, <2>3, <3>1, <3>2, <3>4 DEF NotEnding, Ended, storeVars, Admit, At
    <3> QED BY <3>1, <3>3, <3>4
  <2> QED BY <1>6, <2>2, <2>3
<1> QED BY <1>2, <1>4, <1>5, <1>6, OnlyTheseEnd DEF StopInv, ForceStop

\* In a mission with a station and without force stops, STOPPED means that no
\* provider lives, whichever controller wrote it after whatever crashes.
THEOREM StoppedIsTruthfulHolds ==
  ASSUME Native, "force-stop" \notin Commands PROVE CSpec => []StoppedIsTruthful
<1>1. CInit => StopInv
  BY OffType DEF CInit, Init, StopInv, Ended, DecidingPCs, OrphanPCs
<1>2. CtlInv /\ ProcessInv /\ [CNext]_vars => ProcessInv'
  BY ProcessInvStep
<1>3. CtlInv /\ ProcessInv /\ StopInv /\ [CNext]_vars => StopInv'
  BY StopStep
<1>4. StopInv => StoppedIsTruthful
  BY DEF StopInv, Ended, StoppedIsTruthful
<1> QED BY <1>1, <1>2, <1>3, <1>4, ProcessInvInit, ControllerInvariant, PTL DEF CSpec
=============================================================================

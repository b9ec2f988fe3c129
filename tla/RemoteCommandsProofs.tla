------------------------ MODULE RemoteCommandsProofs ------------------------
(* Proofs about RemoteCommands for every set of requests, every number of      *)
(* faults and every limit on open commands: the worker's row, the effect and   *)
(* the client's report agree, and generations advance.                         *)
EXTENDS RemoteCommands, SequenceTheorems, TLAPS

----------------------------------------------------------------------------
(* The inductive invariant *)

Results == Outcomes \cup {None}
Statuses == {None, "QUEUED", "APPLIED", "REJECTED"}
Reports == {None, "waiting", "exit 0", "exit 2", "uncertain", "unavailable"}
Answers(S) == [req : S, out : Results]

\* What the proofs need of the types.  What commands_resend selects is opaque to
\* the provers, so nothing is said of the requests on their way to the worker.
StateOK ==
  /\ rows \in [Requests -> [state : {None, "pending", "sent", "acked", "done"}, result : Results]]
  /\ refused \subseteq Journaled
  /\ journal \in [Requests -> Statuses] /\ effects \in [Requests -> Nat] /\ told \in [Requests -> Reports]

LinkOK ==
  /\ link = [stage |-> link.stage, gen |-> link.gen, queue |-> link.queue, down |-> link.down, up |-> link.up]
  /\ \E S : link.up \in Seq(Answers(S))

\* The answer `out` to request r is what the worker's row says, for good.
Settled(r, out) ==
  r \in Journaled =>
    /\ out \in {"ok", "applied"} => journal[r] = "APPLIED"
    /\ out \in {"rejected", "failed"} => journal[r] = "REJECTED" \/ r \in refused

WorkerOK ==
  /\ worker = [pc |-> worker.pc, req |-> worker.req, out |-> worker.out]
  /\ worker.pc \in {"idle", "enqueue", "apply", "direct", "reply"} /\ worker.out \in Results
  /\ worker.pc \in {"enqueue", "apply"} => worker.req \in Journaled \ refused
  /\ worker.pc = "apply" => journal[worker.req] # None
  /\ worker.pc = "direct" => worker.req \notin Journaled
  /\ worker.pc = "reply" => Settled(worker.req, worker.out)

\* Every answer on its way, every stored result and every report is settled.
AnswersOK == \A i \in 1 .. Len(link.up) : Settled(link.up[i].req, link.up[i].out)
ResultsOK == \A r \in Requests : Settled(r, rows[r].result) /\ (rows[r].state = "done" => rows[r].result # None)
ReportsOK ==
  \A r \in Journaled : /\ told[r] = "exit 0" => journal[r] = "APPLIED"
                       /\ told[r] = "exit 2" => journal[r] = "REJECTED" \/ r \in refused

\* OutcomeIsTrue by itself is not inductive: a false answer under way would only
\* later be told.
CommandInv ==
  StateOK /\ LinkOK /\ WorkerOK /\ AnswersOK /\ ResultsOK /\ ReportsOK /\ EffectAtMostOnce /\ RefusedStaysOut

Moved == Next \/ UNCHANGED vars

----------------------------------------------------------------------------
(* A row that is finished stays as it is *)

\* What a step may do to the journal.
JournalStep ==
  /\ refused' = refused /\ journal' \in [Requests -> Statuses] /\ effects' \in [Requests -> Nat]
  /\ EffectAtMostOnce' /\ RefusedStaysOut'
  /\ \A r \in Requests : /\ journal[r] \in {"APPLIED", "REJECTED"} => journal'[r] = journal[r]
                         /\ journal[r] # None => journal'[r] # None

\* Every step of the program keeps them: the effect and the status change together.
LEMMA JournalMoves == ASSUME CommandInv, Moved PROVE JournalStep
<1> USE DEF CommandInv, StateOK, WorkerOK, JournalStep, EffectAtMostOnce, RefusedStaysOut, Requests, Statuses
<1>1. CASE UNCHANGED <<done, refused>>
  BY <1>1 DEF done
<1>2. CASE Enqueue
  BY <1>2 DEF Enqueue, local, None
<1>3. CASE Apply
  BY <1>3 DEF Apply, local, done, None
<1>4. CASE ExecuteDirect
  BY <1>4, CommandsAssumption DEF ExecuteDirect, local, Mutating
<1>5. CASE \E r \in Requests : RejectQueued(r)
  BY <1>5 DEF RejectQueued, local, None
<1>6. Enqueue \/ Apply \/ ExecuteDirect \/ (\E r \in Requests : RejectQueued(r)) \/ UNCHANGED <<done, refused>>
  BY DEF Moved, Next, vars, local, done, Submit, ReadResult, Connect, Resend, SendQueued, ReceiveAnswer,
     Disconnect, Restore, Take, ExecuteRead, Reply, Restart
<1> QED BY <1>1, <1>2, <1>3, <1>4, <1>5, <1>6

\* What is settled stays settled.
LEMMA SettledStays ==
  ASSUME JournalStep, NEW r, NEW out, Settled(r, out) PROVE Settled(r, out)'
BY DEF JournalStep, Settled, Requests

----------------------------------------------------------------------------
(* Answers under way *)

\* What a step may do to the answers under way.
UpStep ==
  \/ link'.up \in {<<>>, link.up}
  \/ link.up # <<>> /\ link'.up = Tail(link.up)
  \/ /\ worker.pc = "reply"
     /\ link'.up = link.up \o <<[req |-> worker.req, out |-> None], [req |-> worker.req, out |-> worker.out]>>

\* Every step of the program does one of these, and link stays a record.
LEMMA LinkMoves ==
  ASSUME LinkOK, Moved
  PROVE  /\ UpStep
         /\ link' = [stage |-> link'.stage, gen |-> link'.gen, queue |-> link'.queue, down |-> link'.down, up |-> link'.up]
<1> USE DEF LinkOK, UpStep
<1>1. CASE link' = link
  BY <1>1
<1>2. CASE link' = NoLink
  BY <1>2 DEF NoLink
<1>3. CASE \E r \in Requests : Submit(r)
  BY <1>3 DEF Submit
<1>4. CASE Connect
  BY <1>4 DEF Connect, NoLink
<1>5. CASE Resend
  BY <1>5 DEF Resend
<1>6. CASE SendQueued \/ Take
  BY <1>6 DEF SendQueued, Take
<1>7. CASE ReceiveAnswer
  BY <1>7 DEF ReceiveAnswer
<1>8. CASE Reply
  BY <1>8 DEF Reply
<1>9. CASE Disconnect \/ Restore \/ Restart
  BY <1>2, <1>9 DEF Disconnect, Restore, Restart
<1>10. CASE Enqueue \/ Apply \/ ExecuteRead \/ ExecuteDirect \/ UNCHANGED vars
  BY <1>1, <1>10 DEF Enqueue, Apply, ExecuteRead, ExecuteDirect, vars
<1>11. CASE \E r \in Requests : ReadResult(r) \/ RejectQueued(r)
  BY <1>1, <1>11 DEF ReadResult, RejectQueued
<1> QED BY <1>3, <1>4, <1>5, <1>6, <1>7, <1>8, <1>9, <1>10, <1>11 DEF Moved, Next

\* An answer under way is settled: the worker only gives settled ones.
LEMMA AnswersMove == ASSUME CommandInv, Moved PROVE LinkOK' /\ AnswersOK'
<1> USE DEF CommandInv
<1>1. JournalStep /\ UpStep
  BY JournalMoves, LinkMoves
<1>2. PICK S : link.up \in Seq(Answers(S))
  BY DEF LinkOK
<1>3. \E T : /\ link'.up \in Seq(Answers(T))
             /\ \A i \in 1 .. Len(link'.up) : Settled(link'.up[i].req, link'.up[i].out)
  <2>1. CASE link'.up = <<>>
    BY <2>1
  <2>2. CASE link'.up = link.up
    BY <1>2, <2>2 DEF AnswersOK
  <2>3. CASE link.up # <<>> /\ link'.up = Tail(link.up)
    <3>1. /\ Tail(link.up) \in Seq(Answers(S)) /\ Len(Tail(link.up)) = Len(link.up) - 1 /\ Len(link.up) \in Nat
          /\ \A i \in 1 .. Len(Tail(link.up)) : Tail(link.up)[i] = link.up[i + 1]
      BY <1>2, <2>3, HeadTailProperties, LenProperties
    <3>2. \A i \in 1 .. Len(Tail(link.up)) : i + 1 \in 1 .. Len(link.up)
      BY <3>1
    <3> QED BY <2>3, <3>1, <3>2 DEF AnswersOK
  <2>4. CASE /\ worker.pc = "reply"
             /\ link'.up = link.up \o <<[req |-> worker.req, out |-> None], [req |-> worker.req, out |-> worker.out]>>
    <3> DEFINE T == S \cup {worker.req}
               new == <<[req |-> worker.req, out |-> None], [req |-> worker.req, out |-> worker.out]>>
    <3>1. link.up \in Seq(Answers(T))
      <4>1. Answers(S) \subseteq Answers(T)
        BY DEF Answers
      <4> QED BY <1>2, <4>1, SeqMonotonic
    <3>2. new \in Seq(Answers(T)) /\ Len(new) = 2
      <4>1. [req |-> worker.req, out |-> None] \in Answers(T) /\ [req |-> worker.req, out |-> worker.out] \in Answers(T)
        BY DEF Answers, WorkerOK, Results
      <4> QED BY <4>1
    <3>3. \A i \in 1 .. 2 : Settled(new[i].req, new[i].out)
      <4>1. Settled(worker.req, None) /\ Settled(worker.req, worker.out)
        BY <2>4 DEF WorkerOK, Settled, None
      <4> QED BY <4>1
    <3> HIDE DEF new, T
    <3>4. /\ link.up \o new \in Seq(Answers(T)) /\ Len(link.up) \in Nat /\ Len(link.up \o new) = Len(link.up) + 2
          /\ \A i \in 1 .. Len(link.up) + 2 : (link.up \o new)[i] = IF i <= Len(link.up) THEN link.up[i] ELSE new[i - Len(link.up)]
      <4>1. Len(link.up) \in Nat
        BY <3>1, LenProperties
      <4>2. /\ link.up \o new \in Seq(Answers(T)) /\ Len(link.up \o new) = Len(link.up) + Len(new)
            /\ \A i \in 1 .. Len(link.up) + Len(new) :
                  (link.up \o new)[i] = IF i <= Len(link.up) THEN link.up[i] ELSE new[i - Len(link.up)]
        BY <3>1, <3>2, ConcatProperties
      <4> QED BY <3>2, <4>1, <4>2
    <3>5. \A i \in 1 .. Len(link.up) + 2 : IF i <= Len(link.up) THEN i \in 1 .. Len(link.up) ELSE i - Len(link.up) \in 1 .. 2
      BY <3>4
    <3>6. link'.up = link.up \o new
      BY <2>4 DEF new
    <3>7. \A i \in 1 .. Len(link.up) + 2 : Settled((link.up \o new)[i].req, (link.up \o new)[i].out)
      BY <3>3, <3>4, <3>5 DEF AnswersOK
    <3> QED BY <3>4, <3>6, <3>7
  <2> QED BY <1>1, <2>1, <2>2, <2>3, <2>4 DEF UpStep
<1>4. LinkOK'
  BY <1>3, LinkMoves DEF LinkOK
<1>5. AnswersOK'
  <2> SUFFICES ASSUME NEW i \in 1 .. Len(link'.up) PROVE Settled(link.up[i].req, link.up[i].out)'
    BY DEF AnswersOK
  <2>1. Settled(link'.up[i].req, link'.up[i].out)
    BY <1>3
  <2> QED BY <1>1, <2>1 DEF JournalStep, Settled, Requests
<1> QED BY <1>4, <1>5

----------------------------------------------------------------------------
(* The worker, the stored results and the reports *)

\* The worker only answers what its row says.
LEMMA WorkerMoves == ASSUME CommandInv, Moved PROVE WorkerOK'
<1> USE DEF CommandInv, Results, Outcomes
<1>1. JournalStep
  BY JournalMoves
<1>2. CASE worker' = Idle
  BY <1>2 DEF WorkerOK, Idle
<1>3. CASE worker' = worker
  BY <1>1, <1>3 DEF WorkerOK, JournalStep, Settled, Requests
<1>4. CASE Take
  BY <1>1, <1>4 DEF Take, WorkerOK, JournalStep, Settled, Handler, None, StateOK
<1>5. CASE Enqueue
  BY <1>1, <1>5 DEF Enqueue, WorkerOK, JournalStep, Settled, Answer, OutcomeOf, StateOK, Requests, None
<1>6. CASE Apply
  <2> PICK r : r = worker.req
    OBVIOUS
  <2>1. r \in Journaled \ refused /\ r \in Requests /\ journal[r] \in Statuses \ {None} /\ refused' = refused
    BY <1>1, <1>6 DEF Apply, WorkerOK, JournalStep, StateOK, Requests
  <2>2. PICK out \in Outcomes : Answer(out) /\ Settled(r, out)'
    <3>1. CASE journal[r] = "REJECTED" /\ Answer("rejected") /\ UNCHANGED done
      BY <3>1 DEF Settled, done
    <3>2. CASE journal[r] = "APPLIED" /\ Answer("applied") /\ UNCHANGED done
      BY <3>2 DEF Settled, done
    <3>3. CASE journal' = [journal EXCEPT ![r] = "APPLIED"] /\ Answer("applied")
      BY <2>1, <3>3 DEF StateOK, Settled
    <3>4. CASE journal' = [journal EXCEPT ![r] = "REJECTED"] /\ Answer("rejected")
      BY <2>1, <3>4 DEF StateOK, Settled
    <3>5. CASE Answer("uncertain")
      BY <3>5 DEF Settled
    <3> QED BY <1>6, <2>1, <3>1, <3>2, <3>3, <3>4, <3>5 DEF Apply, OutcomeOf, Statuses
  <2>3. worker' = [pc |-> "reply", req |-> r, out |-> out]
    BY <2>2 DEF Answer, WorkerOK
  <2> QED BY <2>2, <2>3 DEF WorkerOK, Settled
<1>7. CASE ExecuteRead \/ ExecuteDirect
  BY <1>1, <1>7 DEF ExecuteRead, ExecuteDirect, WorkerOK, Settled, Answer
<1>8. worker' = worker \/ worker' = Idle \/ Take \/ Enqueue \/ Apply \/ ExecuteRead \/ ExecuteDirect
  BY DEF Moved, Next, vars, Submit, ReadResult, RejectQueued, Connect, Resend, SendQueued, ReceiveAnswer,
     Disconnect, Restore, Reply, Restart
<1> QED BY <1>2, <1>3, <1>4, <1>5, <1>6, <1>7, <1>8

\* The coordinator only stores what an answer says.
LEMMA ResultsMove ==
  ASSUME CommandInv, Moved
  PROVE  rows' \in [Requests -> [state : {None, "pending", "sent", "acked", "done"}, result : Results]] /\ ResultsOK'
<1> USE DEF CommandInv, StateOK
<1>1. JournalStep
  BY JournalMoves
<1> SUFFICES /\ rows' \in [Requests -> [state : {None, "pending", "sent", "acked", "done"}, result : Results]]
             /\ \A r \in Requests : Settled(r, rows'[r].result) /\ (rows'[r].state = "done" => rows'[r].result # None)
  BY <1>1 DEF ResultsOK, JournalStep, Settled, Requests
<1>2. \A r \in Requests : Settled(r, None)
  BY DEF Settled, None
<1>3. CASE rows' = rows
  BY <1>3 DEF ResultsOK
<1>4. CASE \E r \in Requests : Submit(r)
  BY <1>2, <1>4 DEF Submit, ResultsOK, Row, Results
<1>5. CASE Resend \/ SendQueued
  <2> PICK S : rows' = Sent(S)
    BY <1>5 DEF Resend, SendQueued
  <2>1. ASSUME NEW r \in Requests
        PROVE  /\ rows'[r] \in [state : {None, "pending", "sent", "acked", "done"}, result : Results]
               /\ rows'[r].result = rows[r].result /\ (rows'[r].state = "done" => rows[r].state = "done")
    BY DEF Sent
  <2>2. rows' = [r \in Requests |-> rows'[r]]
    BY DEF Sent
  <2> QED BY <2>1, <2>2 DEF ResultsOK
<1>6. CASE ReceiveAnswer
  <2>1. PICK S : link.up \in Seq(Answers(S))
    BY DEF LinkOK
  <2> DEFINE m == Head(link.up)
  <2>2. m \in Answers(S) /\ m = link.up[1] /\ 1 \in 1 .. Len(link.up)
    BY <1>6, <2>1, HeadTailProperties, EmptySeq, LenProperties DEF ReceiveAnswer
  <2>3. m.out \in Results /\ Settled(m.req, m.out)
    BY <2>2 DEF AnswersOK, Answers
  <2> HIDE DEF m
  <2>4. rows' = [rows EXCEPT ![m.req] =
               CASE m.out = None /\ @.state \in {"pending", "sent"} -> Row("acked", None)
                 [] m.out # None /\ @.state # "done" /\ @.state # None -> Row("done", m.out)
                 [] OTHER -> @]
    BY <1>6 DEF ReceiveAnswer, m
  <2> QED BY <1>2, <2>3, <2>4 DEF Row, ResultsOK, Results
<1>7. CASE Restore
  <2>1. ASSUME NEW r \in Requests
        PROVE  rows'[r] \in {Row(None, None), Row("sent", None), rows[r]}
    BY <1>7 DEF Restore
  <2>2. rows' = [r \in Requests |-> rows'[r]]
    BY <1>7 DEF Restore
  <2>3. ASSUME NEW r \in Requests
        PROVE  /\ rows'[r] \in [state : {None, "pending", "sent", "acked", "done"}, result : Results]
               /\ Settled(r, rows'[r].result) /\ (rows'[r].state = "done" => rows'[r].result # None)
    BY <1>2, <2>1 DEF Row, ResultsOK, Results, None
  <2> QED BY <2>2, <2>3
<1>8. rows' = rows \/ (\E r \in Requests : Submit(r)) \/ Resend \/ SendQueued \/ ReceiveAnswer \/ Restore
  BY DEF Moved, Next, vars, coord, ReadResult, RejectQueued, Connect, Disconnect, Take, Enqueue, Apply,
     ExecuteRead, ExecuteDirect, Reply, Restart
<1> QED BY <1>3, <1>4, <1>5, <1>6, <1>7, <1>8

\* The client only reports what a stored result says.
LEMMA ReportsMove == ASSUME CommandInv, Moved PROVE told' \in [Requests -> Reports] /\ ReportsOK'
<1> USE DEF CommandInv, StateOK, Reports, Requests
<1>1. JournalStep
  BY JournalMoves
<1> SUFFICES /\ told' \in [Requests -> Reports]
             /\ \A r \in Journaled : /\ told'[r] = "exit 0" => journal[r] = "APPLIED"
                                     /\ told'[r] = "exit 2" => journal[r] = "REJECTED" \/ r \in refused
  BY <1>1 DEF ReportsOK, JournalStep
<1>2. CASE told' = told
  BY <1>2 DEF ReportsOK
<1>3. CASE \E r \in Requests : Submit(r)
  BY <1>3 DEF Submit, ReportsOK
<1>4. CASE \E r \in Requests : ReadResult(r)
  <2> PICK r \in Requests : ReadResult(r)
    BY <1>4
  <2>1. CASE rows[r].state = "done"
    <3>1. rows[r].result \in Outcomes /\ Settled(r, rows[r].result)
      BY <2>1 DEF ResultsOK, Results
    <3> QED BY <2>1, <3>1 DEF ReadResult, EnvelopeExit, ReportsOK, Settled, Outcomes
  <2>2. CASE rows[r].state # "done"
    BY <2>2 DEF ReadResult, ReportsOK
  <2> QED BY <2>1, <2>2
<1>5. CASE Restore
  BY <1>5 DEF Restore, ReportsOK, None
<1>6. told' = told \/ (\E r \in Requests : Submit(r)) \/ (\E r \in Requests : ReadResult(r)) \/ Restore
  BY DEF Moved, Next, vars, RejectQueued, Connect, Disconnect, Take, Enqueue, Apply, Resend, SendQueued, ReceiveAnswer,
     ExecuteRead, ExecuteDirect, Reply, Restart
<1> QED BY <1>2, <1>3, <1>4, <1>5, <1>6

----------------------------------------------------------------------------
(* The theorems *)

\* CommandInv is an invariant of the program.
LEMMA CommandInvariant == Spec => []CommandInv
<1>1. Init => CommandInv
  <2> SUFFICES ASSUME Init PROVE CommandInv
    OBVIOUS
  <2>1. StateOK /\ ResultsOK /\ ReportsOK
    BY DEF Init, StateOK, ResultsOK, ReportsOK, Row, Settled, Results, Statuses, Reports, None, Requests
  <2>2. LinkOK /\ AnswersOK
    <3>1. link.up = <<>>
      BY DEF Init, NoLink
    <3> QED BY <3>1 DEF Init, NoLink, LinkOK, AnswersOK
  <2>3. WorkerOK
    BY DEF Init, Idle, WorkerOK, Results
  <2>4. EffectAtMostOnce /\ RefusedStaysOut
    BY DEF Init, EffectAtMostOnce, RefusedStaysOut, Requests, None
  <2> QED BY <2>1, <2>2, <2>3, <2>4 DEF CommandInv
<1>2. CommandInv /\ [Next]_vars => CommandInv'
  <2> SUFFICES ASSUME CommandInv, Moved PROVE CommandInv'
    BY DEF Moved
  <2>1. StateOK'
    BY JournalMoves, ResultsMove, ReportsMove DEF JournalStep, StateOK, CommandInv
  <2> QED BY <2>1, JournalMoves, AnswersMove, WorkerMoves, ResultsMove, ReportsMove DEF JournalStep, CommandInv
<1> QED BY <1>1, <1>2, PTL DEF Spec

\* Whatever is lost, delivered again, restored or restarted, a journaled request
\* takes effect at most once, one the worker refuses never does, and the exit
\* status of the client agrees with what happened.
THEOREM OutcomeIsTrueHolds == Spec => []OutcomeIsTrue
<1>1. CommandInv => OutcomeIsTrue
  <2> SUFFICES ASSUME CommandInv, NEW r \in Journaled
               PROVE  /\ told[r] = "exit 0" => effects[r] > 0
                      /\ told[r] = "exit 2" => effects[r] = 0
    BY DEF OutcomeIsTrue, ClientIsToldTheTruth, CommandInv
  <2>1. told[r] = "exit 0" => journal[r] = "APPLIED"
    BY DEF CommandInv, ReportsOK
  <2>2. told[r] = "exit 2" => journal[r] = "REJECTED" \/ r \in refused
    BY DEF CommandInv, ReportsOK
  <2>3. (journal[r] = "APPLIED" => effects[r] = 1) /\ (journal[r] = "REJECTED" => effects[r] = 0)
    BY DEF CommandInv, EffectAtMostOnce
  <2>4. r \in refused => effects[r] = 0
    BY DEF CommandInv, RefusedStaysOut
  <2>5. 1 > 0
    OBVIOUS
  <2> QED BY <2>1, <2>2, <2>3, <2>4, <2>5
<1> QED BY <1>1, CommandInvariant, PTL

\* The generation in memory is the one on disk, and no older than the one of the
\* connection and of every command that was executed.
GenerationInv ==
  /\ issued \in Nat /\ file \in Nat /\ accepted \in Nat /\ link.gen \in Nat
  /\ session = file /\ accepted <= file /\ link.gen <= file

\* Connect welcomes under a generation that is newer than the saved one, or not at all.
LEMMA Welcomes ==
  ASSUME Connect
  PROVE  /\ issued' = issued + 1 /\ accepted' = accepted
         /\ \/ issued + 1 > session /\ session' = issued + 1 /\ file' = issued + 1 /\ link'.gen = issued + 1
            \/ UNCHANGED <<session, file, link>>
<1>1. issued' = issued + 1 /\ accepted' = accepted
  BY DEF Connect
<1>2. CASE issued + 1 > session
  <2>1. link' = [NoLink EXCEPT !.stage = "welcomed", !.gen = issued + 1] /\ session' = issued + 1 /\ file' = issued + 1
    BY <1>2 DEF Connect
  <2>2. link'.gen = issued + 1
    BY <2>1 DEF NoLink
  <2> QED BY <1>1, <1>2, <2>1, <2>2
<1>3. CASE ~(issued + 1 > session)
  <2>1. UNCHANGED <<session, file, link>>
    BY <1>3 DEF Connect
  <2> QED BY <1>1, <2>1
<1> QED BY <1>2, <1>3

\* A connection is welcomed only under a generation newer than that of every
\* command executed so far, also when the coordinator issues old ones again.
THEOREM GenerationsAdvanceHolds == Spec => GenerationsAdvance
<1>1. Init => GenerationInv
  BY DEF Init, GenerationInv, NoLink
<1>2. CommandInv /\ GenerationInv /\ [Next]_vars => GenerationInv'
  <2> SUFFICES ASSUME CommandInv, GenerationInv, Moved PROVE GenerationInv'
    BY DEF Moved
  <2> USE DEF GenerationInv, CommandInv, LinkOK
  <2>1. CASE Connect
    BY <2>1, Welcomes
  <2>2. CASE Restore
    BY <2>2 DEF Restore, NoLink, local
  <2>3. CASE Disconnect \/ Restart
    BY <2>3 DEF Disconnect, Restart, NoLink, local, coord
  <2>4. CASE Take
    BY <2>4 DEF Take, local, coord
  <2>5. CASE Reply
    BY <2>5 DEF Reply, local, coord
  <2>6. CASE Resend \/ SendQueued \/ ReceiveAnswer
    BY <2>6 DEF Resend, SendQueued, ReceiveAnswer, local
  <2>7. CASE \E r \in Requests : Submit(r)
    BY <2>7 DEF Submit, local
  <2>8. CASE UNCHANGED <<issued, local, accepted, link>>
    BY <2>8 DEF local
  <2>9. \/ Connect \/ Restore \/ Disconnect \/ Restart \/ Take \/ Reply \/ Resend \/ SendQueued \/ ReceiveAnswer
        \/ (\E r \in Requests : Submit(r)) \/ UNCHANGED <<issued, local, accepted, link>>
    BY DEF Moved, Next, vars, coord, ReadResult, RejectQueued, Enqueue, Apply, ExecuteRead, ExecuteDirect
  <2> QED BY <2>1, <2>2, <2>3, <2>4, <2>5, <2>6, <2>7, <2>8, <2>9
<1>3. CommandInv /\ GenerationInv /\ [Next]_vars => [link'.stage = "welcomed" /\ link.stage # "welcomed" => link'.gen > accepted]_vars
  <2> SUFFICES ASSUME CommandInv, GenerationInv, Moved, link'.stage = "welcomed", link.stage # "welcomed"
               PROVE  link'.gen > accepted
    BY DEF Moved
  <2>1. Connect
    <3>1. CASE \E r \in Requests : Submit(r) \/ ReadResult(r) \/ RejectQueued(r)
      BY <3>1 DEF Submit, ReadResult, RejectQueued, CommandInv, LinkOK
    <3>2. CASE Resend \/ SendQueued \/ ReceiveAnswer \/ Take \/ Reply
      BY <3>2 DEF Resend, SendQueued, ReceiveAnswer, Take, Reply, CommandInv, LinkOK
    <3>3. CASE Disconnect \/ Restore \/ Restart
      BY <3>3 DEF Disconnect, Restore, Restart, NoLink
    <3>4. CASE Enqueue \/ Apply \/ ExecuteRead \/ ExecuteDirect \/ UNCHANGED vars
      BY <3>4 DEF Enqueue, Apply, ExecuteRead, ExecuteDirect, vars
    <3> QED BY <3>1, <3>2, <3>3, <3>4 DEF Moved, Next
  <2> QED BY <2>1, Welcomes DEF GenerationInv
<1> QED BY <1>1, <1>2, <1>3, CommandInvariant, PTL DEF Spec, GenerationsAdvance
=============================================================================

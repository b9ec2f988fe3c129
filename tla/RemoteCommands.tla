--------------------------- MODULE RemoteCommands ---------------------------
(***************************************************************************)
(* Remote commands: a client (bridge_remote) submits a request to the      *)
(* coordinator, which journals it and delivers it to the worker; the       *)
(* worker executes it (bridge_worker, bridge_commands, the durable         *)
(* commands table of bridge_store) and answers.  Everything may be cut     *)
(* off: the connection, the worker, the coordinator's database.            *)
(*                                                                         *)
(* The coordinator is Rust code under src/coordinator.  An unfinished      *)
(* command is delivered again after every welcome.                         *)
(***************************************************************************)
EXTENDS Integers, Sequences, FiniteSets

CONSTANTS
    Journaled,  \* requests that go through the commands table
    Direct,     \* mutating requests that do not: create, settings, start, ...
    Reads,      \* requests that change nothing
    MaxFaults,  \* bound on broken connections, crashes, restores and failures of a database
    MaxOpen     \* MAX_OPEN_COMMANDS_PER_WORKER

Requests == Journaled \cup Direct \cup Reads
Mutating == Journaled \cup Direct

ASSUME CommandsAssumption ==
    /\ Journaled \cap Direct = {} /\ Mutating \cap Reads = {}
    /\ {MaxFaults, MaxOpen} \subseteq Nat /\ IsFiniteSet(Requests)

Outcomes == {"ok", "applied", "rejected", "failed", "uncertain"}
None == "none"

VARIABLES
    rows,       \* the coordinator's commands: request -> state and result
    order,      \* ... in the order they were inserted
    issued,     \* the highest generation it has issued
    link,       \* the connection: stage, generation, outbound queue and both directions
    worker,     \* the step of WorkerSession._command and its request
    session,    \* max_generation of WorkerConfig in memory
    file,       \* ... and on disk
    refused,    \* requests that the worker's opt-ins or dispatch's validation refuse
    journal,    \* commands table of the worker
    effects,    \* how often the request took effect
    told,       \* what the client of a journaled request reported
    accepted,   \* highest generation a command was executed under
    faults      \* faults so far

coord == <<rows, order, issued>>
local == <<session, file, refused>>
done == <<journal, effects>>
vars == <<coord, link, worker, local, done, told, accepted, faults>>

Row(s, r) == [state |-> s, result |-> r]
Idle == [pc |-> "idle", req |-> None, out |-> None]
NoLink == [stage |-> "down", gen |-> 0, queue |-> <<>>, down |-> <<>>, up |-> <<>>]

TypeOK ==
    /\ \A r \in Requests :
          /\ rows[r].state \in {None, "pending", "sent", "acked", "done"} /\ rows[r].result \in Outcomes \cup {None}
          /\ rows[r].state = "done" <=> rows[r].result # None
          /\ r \in {order[i] : i \in 1 .. Len(order)} <=> rows[r].state # None
          /\ journal[r] \in {None, "QUEUED", "APPLIED", "REJECTED"} /\ effects[r] \in Nat
          /\ told[r] \in {None, "waiting", "exit 0", "exit 2", "uncertain", "unavailable"}
    /\ link.stage \in {"down", "welcomed", "open"}
    /\ worker.pc \in {"idle", "enqueue", "apply", "direct", "reply"} /\ worker.req \in Requests \cup {None}
    /\ {session, file, accepted} \subseteq Nat
    /\ faults \in 0 .. MaxFaults

Init ==
    /\ rows = [r \in Requests |-> Row(None, None)] /\ order = <<>> /\ issued = 0
    /\ link = NoLink /\ worker = Idle
    /\ session = 0 /\ file = 0 /\ refused \in SUBSET Journaled
    /\ journal = [r \in Requests |-> None] /\ effects = [r \in Requests |-> 0]
    /\ told = [r \in Requests |-> None] /\ accepted = 0 /\ faults = 0

Unfinished(r) == rows[r].state \in {"pending", "sent", "acked"}

-----------------------------------------------------------------------------
(* The client and the coordinator. *)

\* submit, submit_resource and run_cli: the row is inserted and queued for the
\* worker that is connected.
Submit(r) ==
    /\ rows[r].state = None /\ Cardinality({q \in Requests : Unfinished(q)}) < MaxOpen
    /\ rows' = [rows EXCEPT ![r] = Row("pending", None)] /\ order' = Append(order, r)
    /\ link' = IF link.stage = "down" THEN link ELSE [link EXCEPT !.queue = Append(@, r)]
    /\ told' = IF r \in Journaled THEN [told EXCEPT ![r] = "waiting"] ELSE told
    /\ UNCHANGED <<issued, worker, local, done, accepted, faults>>

\* Mutant: an uncertain outcome is reported like a rejection.
EnvelopeExitPlain(outcome) == IF outcome \in {"ok", "applied"} THEN "exit 0" ELSE "exit 2"

\* _envelope_exit: the exit status and its message.
EnvelopeExit(outcome) ==
    CASE outcome \in {"ok", "applied"} -> "exit 0"
      [] outcome = "uncertain" -> "uncertain"
      [] OTHER -> "exit 2"

\* The client waits for the result, for a while.
ReadResult(r) ==
    /\ told[r] = "waiting"
    /\ told' = [told EXCEPT ![r] = IF rows[r].state = "done" THEN EnvelopeExit(rows[r].result) ELSE "unavailable"]
    /\ UNCHANGED <<coord, link, worker, local, done, accepted, faults>>

\* Mutant: the generation is accepted without being saved.
ConnectUnsaved ==
    /\ link.stage = "down" /\ worker = Idle
    /\ issued' = issued + 1
    /\ session' = IF issued + 1 > session THEN issued + 1 ELSE session
    /\ link' = IF issued + 1 > session THEN [NoLink EXCEPT !.stage = "welcomed", !.gen = issued + 1] ELSE NoLink
    /\ UNCHANGED <<rows, order, worker, file, refused, done, told, accepted, faults>>

\* run: hello and welcome.  A generation that is not newer is refused; a newer one
\* is saved before a command is accepted.
Connect ==
    /\ link.stage = "down" /\ worker = Idle
    /\ issued' = issued + 1
    /\ IF issued + 1 > session
       THEN /\ session' = issued + 1 /\ file' = issued + 1
            /\ link' = [NoLink EXCEPT !.stage = "welcomed", !.gen = issued + 1]
       ELSE UNCHANGED <<session, file, link>>
    /\ UNCHANGED <<rows, order, worker, refused, done, told, accepted, faults>>

Sent(S) == [r \in Requests |-> IF r \in S /\ rows[r].state = "pending" THEN [rows[r] EXCEPT !.state = "sent"] ELSE rows[r]]

\* Mutant: only what was never sent is delivered.
ResendPending ==
    /\ link.stage = "welcomed"
    /\ LET unsent == SelectSeq(order, LAMBDA r : rows[r].state = "pending")
       IN  /\ link' = [link EXCEPT !.stage = "open", !.down = @ \o unsent]
           /\ rows' = Sent(Requests)
    /\ UNCHANGED <<order, issued, worker, local, done, told, accepted, faults>>

\* commands_resend: everything unfinished, in order.
Resend ==
    /\ link.stage = "welcomed"
    /\ LET unfinished == SelectSeq(order, Unfinished)
       IN  /\ link' = [link EXCEPT !.stage = "open", !.down = @ \o unfinished]
           /\ rows' = Sent(Requests)
    /\ UNCHANGED <<order, issued, worker, local, done, told, accepted, faults>>

SendQueued ==
    /\ link.stage = "open" /\ link.queue # <<>>
    /\ link' = [link EXCEPT !.queue = Tail(@), !.down = Append(@, Head(link.queue))]
    /\ rows' = Sent({Head(link.queue)})
    /\ UNCHANGED <<order, issued, worker, local, done, told, accepted, faults>>

\* command.ack and command.result: a finished row keeps its result.
ReceiveAnswer ==
    /\ link.stage = "open" /\ link.up # <<>>
    /\ LET m == Head(link.up)
           r == m.req
       IN  rows' = [rows EXCEPT ![r] =
               CASE m.out = None /\ @.state \in {"pending", "sent"} -> Row("acked", None)
                 [] m.out # None /\ @.state # "done" /\ @.state # None -> Row("done", m.out)
                 [] OTHER -> @]
    /\ link' = [link EXCEPT !.up = Tail(@)]
    /\ UNCHANGED <<order, issued, worker, local, done, told, accepted, faults>>

\* The connection breaks, and what is in it is lost; the journal is not.
Disconnect ==
    /\ link.stage # "down" /\ faults < MaxFaults
    /\ faults' = faults + 1
    /\ link' = NoLink
    /\ UNCHANGED <<coord, worker, local, done, told, accepted>>

\* The coordinator's database goes back to a backup of its own: younger rows are
\* gone, finished ones are open again, and generations are issued again.
Restore ==
    /\ faults < MaxFaults /\ faults' = faults + 1
    /\ \E k \in 0 .. Len(order), open \in SUBSET {r \in Requests : rows[r].state = "done"}, n \in 0 .. issued :
          LET kept == SubSeq(order, 1, k)
              lost == {r \in Requests : \A i \in 1 .. k : kept[i] # r}
          IN  /\ order' = kept /\ issued' = n
              /\ rows' = [r \in Requests |-> CASE r \in lost -> Row(None, None)
                                              [] r \in open \ lost -> Row("sent", None)
                                              [] OTHER -> rows[r]]
              /\ told' = [r \in Requests |-> IF r \in lost THEN None ELSE told[r]]
    /\ link' = NoLink
    /\ UNCHANGED <<worker, local, done, accepted>>

-----------------------------------------------------------------------------
(* The worker. *)

\* dispatch: an operator command goes through the commands table.
Handler(r) == IF r \in Journaled THEN "enqueue" ELSE "direct"

\* Mutant: a refused request is executed all the same.
TakeAnything ==
    /\ link.stage = "open" /\ worker = Idle /\ link.down # <<>>
    /\ LET r == Head(link.down)
       IN  worker' = [pc |-> Handler(r), req |-> r, out |-> None]
    /\ link' = [link EXCEPT !.down = Tail(@)]
    /\ accepted' = IF link.gen > accepted THEN link.gen ELSE accepted
    /\ UNCHANGED <<coord, local, done, told, faults>>

\* handle and _command up to the execution: _policy_error, the read-only worker and
\* the validation of dispatch.
Take ==
    /\ link.stage = "open" /\ worker = Idle /\ link.down # <<>>
    /\ LET r == Head(link.down)
       IN  worker' = IF r \in refused THEN [pc |-> "reply", req |-> r, out |-> "rejected"]
                     ELSE [pc |-> Handler(r), req |-> r, out |-> None]
    /\ link' = [link EXCEPT !.down = Tail(@)]
    /\ accepted' = IF link.gen > accepted THEN link.gen ELSE accepted
    /\ UNCHANGED <<coord, local, done, told, faults>>

Answer(out) == worker' = [worker EXCEPT !.pc = "reply", !.out = out]

\* outcome_of a row of the commands table.
OutcomeOf(status) == IF status = "APPLIED" THEN "applied" ELSE "rejected"

\* enqueue_command.
Enqueue ==
    LET r == worker.req
    IN  /\ worker.pc = "enqueue"
        /\ \/ journal[r] = None /\ journal' = [journal EXCEPT ![r] = "QUEUED"] /\ worker' = [worker EXCEPT !.pc = "apply"]
           \/ journal[r] = "QUEUED" /\ journal' = journal /\ worker' = [worker EXCEPT !.pc = "apply"]
           \/ journal[r] \in {"APPLIED", "REJECTED"} /\ journal' = journal /\ Answer(OutcomeOf(journal[r]))
        /\ UNCHANGED <<coord, link, local, effects, told, accepted, faults>>

\* Mutant: the effect and the status are written one after the other.
ApplyTwoSteps ==
    LET r == worker.req
    IN  /\ worker.pc = "apply"
        /\ \/ journal[r] # "QUEUED" /\ Answer(OutcomeOf(journal[r])) /\ UNCHANGED done /\ faults' = faults
           \/ /\ journal[r] = "QUEUED" /\ effects' = [effects EXCEPT ![r] = @ + 1]
              /\ journal' = [journal EXCEPT ![r] = "APPLIED"] /\ Answer("applied") /\ faults' = faults
           \/ /\ journal[r] = "QUEUED" /\ effects' = [effects EXCEPT ![r] = @ + 1]
              /\ journal' = journal /\ faults < MaxFaults /\ faults' = faults + 1 /\ Answer("uncertain")
        /\ UNCHANGED <<coord, link, local, told, accepted>>

\* _apply_operator_command: one transaction holds the effect and the status.  A
\* failure of the database leaves the row queued.
Apply ==
    LET r == worker.req
    IN  /\ worker.pc = "apply"
        /\ \/ journal[r] # "QUEUED" /\ Answer(OutcomeOf(journal[r])) /\ UNCHANGED done /\ faults' = faults
           \/ /\ journal[r] = "QUEUED" /\ effects' = [effects EXCEPT ![r] = @ + 1]
              /\ journal' = [journal EXCEPT ![r] = "APPLIED"] /\ Answer("applied") /\ faults' = faults
           \/ /\ journal[r] = "QUEUED" /\ effects' = effects
              /\ journal' = [journal EXCEPT ![r] = "REJECTED"] /\ Answer("rejected") /\ faults' = faults
           \/ /\ journal[r] = "QUEUED" /\ UNCHANGED done
              /\ faults < MaxFaults /\ faults' = faults + 1 /\ Answer("uncertain")
        /\ UNCHANGED <<coord, link, local, told, accepted>>

\* A read, or an exception in it.
ExecuteRead ==
    /\ worker.pc = "direct" /\ worker.req \in Reads
    /\ \/ Answer("ok") /\ faults' = faults
       \/ faults < MaxFaults /\ faults' = faults + 1 /\ Answer("failed")
    /\ UNCHANGED <<coord, link, local, done, told, accepted>>

\* The handlers of mutations that do not use the commands table: they apply their
\* effect whenever they run.  An unexpected exception leaves it uncertain.
ExecuteDirect ==
    LET applied == [effects EXCEPT ![worker.req] = @ + 1]
    IN  /\ worker.pc = "direct" /\ worker.req \in Direct
        /\ \/ Answer("applied") /\ faults' = faults /\ effects' = applied
           \/ Answer("rejected") /\ UNCHANGED <<effects, faults>>
           \/ faults < MaxFaults /\ faults' = faults + 1 /\ Answer("uncertain") /\ effects' \in {effects, applied}
        /\ UNCHANGED <<coord, link, local, journal, told, accepted>>

\* The ack and the result, if the connection is still there.
Reply ==
    /\ worker.pc = "reply"
    /\ link' = IF link.stage # "open" THEN link
               ELSE [link EXCEPT !.up = @ \o <<[req |-> worker.req, out |-> None], [req |-> worker.req, out |-> worker.out]>>]
    /\ worker' = Idle
    /\ UNCHANGED <<coord, local, done, told, accepted, faults>>

\* run_controller, when one starts: a queued command is not replayed.
RejectQueued(r) ==
    /\ journal[r] = "QUEUED"
    /\ journal' = [journal EXCEPT ![r] = "REJECTED"]
    /\ UNCHANGED <<coord, link, worker, local, effects, told, accepted, faults>>

\* The worker dies, or the operator restarts it: the enrolment is read again.
Restart ==
    /\ faults < MaxFaults
    /\ faults' = faults + 1
    /\ worker' = Idle /\ link' = NoLink /\ session' = file
    /\ UNCHANGED <<coord, file, refused, done, told, accepted>>

Next ==
    \/ \E r \in Requests : Submit(r) \/ ReadResult(r) \/ RejectQueued(r)
    \/ Connect \/ Resend \/ SendQueued \/ ReceiveAnswer \/ Disconnect \/ Restore
    \/ Take \/ Enqueue \/ Apply \/ ExecuteRead \/ ExecuteDirect \/ Reply
    \/ Restart

\* The worker reconnects and works off what it received, and the coordinator
\* delivers and reads.
Fairness ==
    /\ WF_vars(Connect) /\ WF_vars(Resend) /\ WF_vars(SendQueued) /\ WF_vars(ReceiveAnswer)
    /\ WF_vars(Take \/ Enqueue \/ Apply \/ ExecuteRead \/ ExecuteDirect \/ Reply)

Spec == Init /\ [][Next]_vars /\ Fairness

-----------------------------------------------------------------------------
(* Properties. *)

\* WORK-006: whatever is lost, repeated or restored, a journaled request takes
\* effect at most once, exactly when its row says so.
EffectAtMostOnce == \A r \in Journaled : effects[r] = IF journal[r] = "APPLIED" THEN 1 ELSE 0

\* The client is told the truth: exit status 0 means that the request took effect,
\* and 2 without the uncertainty notice that it did not and never will.
ClientIsToldTheTruth ==
    \A r \in Journaled :
        /\ told[r] = "exit 0" => effects[r] > 0
        /\ told[r] = "exit 2" => effects[r] = 0

\* What the worker refuses never takes effect and leaves no row.
RefusedStaysOut == \A r \in refused : effects[r] = 0 /\ journal[r] = None

\* What the worker's row, the effect and the client's report say of a request agree.
OutcomeIsTrue == EffectAtMostOnce /\ RefusedStaysOut /\ ClientIsToldTheTruth

\* "durable before any command of this generation is accepted": a connection is
\* only welcomed under a generation newer than that of every command executed so
\* far, whatever the coordinator issues and whenever the worker restarts.
GenerationsAdvance == [][link'.stage = "welcomed" /\ link.stage # "welcomed" => link'.gen > accepted]_vars

\* Every journaled row is finished in the end, if the connection stays up.
CommandsFinish == \A r \in Requests : (rows[r].state # None) ~> (rows[r].state \in {None, "done"})

=============================================================================

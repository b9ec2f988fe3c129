--------------------------- MODULE NativeSessions ---------------------------
(* The provider conversations a mission owns: how the controller plans,     *)
(* finds, confirms and saves one session per provider                       *)
(* (llm_tools/bridge_sessions.py and the session part of                    *)
(* llm_tools/bridge_runtime.py), while provider processes come and go and   *)
(* the user works with the same provider in the same folder.                *)
(*                                                                          *)
(* A session is the number of its provider id. File times are abstracted to *)
(* `fresh`: written since the launch the controller last armed. PID 1 is    *)
(* the process a launch starts and PID 2 a child of it; a dead PID may be   *)
(* taken by a process of the user.                                          *)
EXTENDS Naturals, FiniteSets, SequencesExt

CONSTANTS
    Folders,      \* the working directories tasks use
    MaxSessions,  \* bound: provider sessions
    MaxOps,       \* bound: operations of the mission
    MaxTries,     \* bound: launches of one operation (scheduler retries)
    MaxTokens,    \* bound: processes started
    Window,       \* lines of a transcript the question reader keeps (2 MB)
    MaxLines,     \* lines of the window it reads (4096)
    MaxTranscript \* bound: lines of a transcript

ASSUME SessionAssumption == {MaxSessions, MaxOps, MaxTries, MaxTokens, Window, MaxLines, MaxTranscript} \subseteq Nat

VARIABLES
    saved,    \* native_sessions of the mission's configuration, per provider
    op,       \* the operation: its row, and how far its launch is
    mem,      \* the controller's own notes on the operation
    store,    \* the providers' session files
    procs,    \* the processes behind PID 1 and PID 2
    walk,     \* a look at the process tree, or the wait for the session's file
    proof,    \* who really touched what: sessions opened by the operation, by others, a reused PID
    lines     \* a provider transcript, for the question reader

sessionVars == <<saved, op, mem, store, procs, walk, proof, lines>>

Agents == {"codex", "claude"}
Sessions == 1 .. MaxSessions
NoSession == 0
Pids == {1, 2}
Confirmed == {"NATIVE_CREATED", "RESTORED_NATIVE"}
RestorationStates == Confirmed \cup {"", "RESTORING", "RECONSTRUCTED", "UNAVAILABLE"}

NoProcess == [tok |-> 0, owner |-> "none", open |-> {}]
NoNotes == [expected |-> NoSession, candidate |-> NoSession, armed |-> FALSE, owned |-> FALSE, found |-> FALSE]
NoWalk == [pc |-> "idle", pid |-> 1, kids |-> {}, seen |-> [p \in Pids |-> 0], got |-> {}, found |-> {}]
NoOp == [n |-> 0, agent |-> "codex", cwd |-> CHOOSE c \in Folders : TRUE, phase |-> "none",
         state |-> "", sess |-> NoSession, tok |-> 0, arg |-> NoSession, tries |-> 0]
NoProof == [opened |-> {}, others |-> {}, reused |-> FALSE]

SessionTypeOK ==
    /\ saved \in [Agents -> Sessions \cup {NoSession}]
    /\ op.state \in RestorationStates /\ op.sess \in Sessions \cup {NoSession}
    /\ op.phase \in {"none", "prepared", "launching", "running", "ended", "lost"}
    /\ {mem.expected, mem.candidate} \subseteq Sessions \cup {NoSession}
    /\ store.made \in 0 .. MaxSessions /\ store.fresh \subseteq Sessions
    /\ \A p \in Pids : procs[p].owner \in {"none", "mission", "user"} /\ procs[p].open \subseteq Sessions
    /\ walk.pc \in {"idle", "stat", "enter", "read", "check", "conclude", "capture"}

SessionInit ==
    /\ saved = [a \in Agents |-> NoSession] /\ op = NoOp /\ mem = NoNotes /\ walk = NoWalk /\ proof = NoProof
    /\ procs = [p \in Pids |-> NoProcess] /\ lines = << >>
    /\ store = [made |-> 0, toks |-> 0, fresh |-> {},
                file |-> [s \in Sessions |-> [by |-> "none", agent |-> "codex", cwd |-> NoOp.cwd, n |-> 0]]]

-----------------------------------------------------------------------------
(* The processes and their session files. *)

Mission(p) == procs[p].owner = "mission"
NewFile(st, s, who, a, c) == [st EXCEPT !.file[s] = [by |-> who, agent |-> a, cwd |-> c, n |-> op.n], !.fresh = @ \cup {s}]

\* A session id nobody has used.
NewId(st) == st.made + 1
CanName(st) == st.made < MaxSessions

\* The provider works in the session it was given: it creates the planned one or opens the one to resume.
AgentObeys(p) ==
    /\ Mission(p) /\ op.phase = "running" /\ op.arg # NoSession /\ procs[1].open \cup procs[2].open = {}
    /\ store' = IF store.file[op.arg].by = "none" THEN NewFile(store, op.arg, "mission", op.agent, op.cwd) ELSE store
    /\ procs' = [procs EXCEPT ![p].open = {op.arg}] /\ proof' = [proof EXCEPT !.opened = @ \cup {op.arg}]
    /\ UNCHANGED <<saved, op, mem, walk, lines>>

\* It starts a session of its own choosing: the only one, one instead of what it was asked for, or,
\* for Codex, one more for a child conversation.
AgentCreates(p) ==
    /\ Mission(p) /\ op.phase = "running" /\ CanName(store)
    /\ \/ procs[1].open \cup procs[2].open = {}
       \/ op.agent = "codex" /\ Cardinality(procs[p].open) = 1
    /\ store' = NewFile([store EXCEPT !.made = @ + 1], NewId(store), "mission", op.agent, op.cwd)
    /\ procs' = [procs EXCEPT ![p].open = @ \cup {NewId(store)}]
    /\ proof' = [proof EXCEPT !.opened = @ \cup {NewId(store)}]
    /\ UNCHANGED <<saved, op, mem, walk, lines>>

AgentWrites(p) ==
    /\ Mission(p) /\ ~(procs[p].open \subseteq store.fresh)
    /\ store' = [store EXCEPT !.fresh = @ \cup procs[p].open]
    /\ UNCHANGED <<saved, op, mem, procs, walk, proof, lines>>

AgentForks ==
    /\ Mission(1) /\ procs[2].tok = 0 /\ store.toks < MaxTokens
    /\ store' = [store EXCEPT !.toks = @ + 1]
    /\ procs' = [procs EXCEPT ![2] = [tok |-> store.toks + 1, owner |-> "mission", open |-> {}]]
    /\ UNCHANGED <<saved, op, mem, walk, proof, lines>>

\* A process exits; a child does not outlive the process the launch started.
AgentExits(p) ==
    /\ procs[p].tok # 0
    /\ procs' = [q \in Pids |-> IF q = p \/ (p = 1 /\ Mission(1) /\ Mission(q)) THEN NoProcess ELSE procs[q]]
    /\ UNCHANGED <<saved, op, mem, store, walk, proof, lines>>

\* The user starts the same provider by hand, under a PID that has become free.
UserStarts(p) ==
    /\ procs[p].tok = 0 /\ store.toks < MaxTokens /\ CanName(store) /\ op.phase = "running"
    /\ store' = NewFile([store EXCEPT !.toks = @ + 1, !.made = @ + 1], NewId(store), "user", op.agent, op.cwd)
    /\ procs' = [procs EXCEPT ![p] = [tok |-> store.toks + 1, owner |-> "user", open |-> {NewId(store)}]]
    /\ UNCHANGED <<saved, op, mem, walk, proof, lines>>

\* The user goes on with a session of the mission by hand.
UserContinues(s) ==
    /\ store.file[s].by = "mission" /\ op.phase = "running" /\ s \notin proof.others
    /\ store' = [store EXCEPT !.fresh = @ \cup {s}] /\ proof' = [proof EXCEPT !.others = @ \cup {s}]
    /\ UNCHANGED <<saved, op, mem, procs, walk, lines>>

-----------------------------------------------------------------------------
(* The controller's launch. *)

BeforeLaunch(a, c) ==
    /\ op.phase \in {"none", "ended", "lost"} /\ op.n < MaxOps /\ procs = [p \in Pids |-> NoProcess]
    /\ op' = [NoOp EXCEPT !.n = op.n + 1, !.agent = a, !.cwd = c, !.phase = "prepared"]
    /\ proof' = [proof EXCEPT !.opened = {}, !.others = {}]
    /\ UNCHANGED <<saved, mem, store, procs, walk, lines>>

\* record_operation_session: only a confirmed session is saved for the next launch.
Record(state, s) ==
    /\ op' = [op EXCEPT !.state = state, !.sess = s]
    /\ saved' = IF state \in Confirmed THEN [saved EXCEPT ![op.agent] = s] ELSE saved

\* Whether the saved session belongs to this provider and folder.
Fits(s) == s # NoSession /\ store.file[s].agent = op.agent /\ store.file[s].cwd = op.cwd

\* What the installed CLI's help advertises, or not.
Advertised == BOOLEAN

OwnedArgv(owned) == owned => op.agent = "codex"
ResumeArgv(resumes) == resumes /\ Fits(saved[op.agent])
NewSessionArgv(plans) == plans /\ op.agent = "claude"

\* The argv transform of one launch: what the installed CLI's help advertises decides whether the
\* saved session is resumed, a new one is planned, or the provider picks. A repeated launch keeps
\* the notes of the one before it.
Transform(owned, resumes, plans) ==
    LET armed == [store EXCEPT !.fresh = {}]
        noted == IF owned THEN [mem EXCEPT !.owned = TRUE, !.armed = TRUE] ELSE mem IN
    /\ op.phase = "prepared" /\ OwnedArgv(owned)
    /\ \/ /\ ResumeArgv(resumes)
          /\ mem' = [noted EXCEPT !.expected = saved[op.agent], !.armed = TRUE]
          /\ store' = armed
          /\ op' = [op EXCEPT !.phase = "launching", !.state = "RESTORING", !.sess = saved[op.agent],
                              !.arg = saved[op.agent], !.tries = @ + 1]
       \/ /\ ~ResumeArgv(resumes) /\ NewSessionArgv(plans) /\ CanName(store)
          /\ mem' = [noted EXCEPT !.candidate = NewId(store), !.armed = TRUE]
          /\ store' = [armed EXCEPT !.made = @ + 1]
          /\ op' = [op EXCEPT !.phase = "launching", !.arg = NewId(store), !.tries = @ + 1]
       \/ /\ ~ResumeArgv(resumes) /\ ~NewSessionArgv(plans)
          /\ mem' = noted /\ store' = IF owned THEN armed ELSE store
          /\ op' = [op EXCEPT !.phase = "launching", !.arg = NoSession, !.tries = @ + 1]
    /\ UNCHANGED <<saved, procs, walk, proof, lines>>

Target == IF mem.expected # NoSession THEN mem.expected ELSE mem.candidate

\* The provider starts and _record_process notes its PID and start token, unless it is gone already.
\* Without a Codex process to look into, the controller waits for the session's file.
LaunchProvider(short) ==
    /\ op.phase = "launching" /\ procs[1].tok = 0 /\ store.toks < MaxTokens
    /\ store' = [store EXCEPT !.toks = @ + 1]
    /\ procs' = IF short THEN procs ELSE [procs EXCEPT ![1] = [tok |-> store.toks + 1, owner |-> "mission", open |-> {}]]
    /\ op' = [op EXCEPT !.phase = "running", !.tok = IF short THEN @ ELSE store.toks + 1]
    /\ walk' = IF ~short /\ ~mem.owned /\ mem.armed /\ Target # NoSession THEN [NoWalk EXCEPT !.pc = "capture"] ELSE NoWalk
    /\ UNCHANGED <<saved, mem, proof, lines>>

-----------------------------------------------------------------------------
(* Looking for the session of an owned Codex process. *)

Observing == op.phase = "running" /\ walk.pc # "idle"
Alive(p, tok) == tok # 0 /\ procs[p].tok = tok
Walk(w) == walk' = w /\ UNCHANGED <<saved, op, mem, store, procs, proof, lines>>

\* _observe_owned_codex_session starts: a session confirmed already ends the search, and the recorded
\* PID must still carry its start token. Its child list is read.
Observe ==
    /\ op.phase = "running" /\ walk.pc = "idle" /\ mem.owned /\ ~mem.found
    /\ \/ op.state \in Confirmed /\ mem' = [mem EXCEPT !.found = TRUE] /\ walk' = walk
       \/ /\ op.state \notin Confirmed /\ Alive(1, op.tok) /\ mem' = mem
          /\ walk' = [NoWalk EXCEPT !.pc = "stat", !.seen[1] = op.tok, !.kids = {p \in {2} : Mission(p)}]
    /\ UNCHANGED <<saved, op, store, procs, proof, lines>>

\* The children's start tokens are read after the list that named them.
StatChildren ==
    /\ Observing /\ walk.pc = "stat"
    /\ walk' = [walk EXCEPT !.pc = "enter", !.seen = [p \in Pids |-> IF p \in walk.kids THEN procs[p].tok ELSE @[p]]]
    /\ proof' = [proof EXCEPT !.reused = @ \/ \E p \in walk.kids : procs[p].owner = "user"]
    /\ UNCHANGED <<saved, op, mem, store, procs, lines>>

\* After the last process comes the final check of the root.
Onward(w) == IF w.pid = 2 THEN [w EXCEPT !.pc = "conclude"] ELSE [w EXCEPT !.pc = "enter", !.pid = 2]

\* A process found in the tree is looked into only while it carries its start token.
EnterProcess ==
    /\ Observing /\ walk.pc = "enter"
    /\ Walk(IF Alive(walk.pid, walk.seen[walk.pid]) THEN [walk EXCEPT !.pc = "read"] ELSE Onward(walk))

\* The sessions whoever has the PID now holds open for writing, whose metadata names Codex and the folder.
ReadProcess ==
    /\ Observing /\ walk.pc = "read"
    /\ Walk([walk EXCEPT !.pc = "check", !.got = {s \in procs[walk.pid].open : Fits(s)}])

\* The process must still be the one that was found, or what was read of it is dropped: all of it
\* when it is the root.
\* Mutant: what was read is kept although the PID may have changed hands.
CheckProcessNot ==
    /\ Observing /\ walk.pc = "check"
    /\ Walk(Onward([walk EXCEPT !.found = @ \cup walk.got]))
CheckProcess ==
    /\ Observing /\ walk.pc = "check"
    /\ IF Alive(walk.pid, walk.seen[walk.pid])
       THEN Walk(Onward([walk EXCEPT !.found = @ \cup walk.got]))
       ELSE Walk(IF walk.pid = 1 THEN NoWalk ELSE Onward(walk))

\* Exactly one session, and the expected one when there is one, is recorded.
Conclude ==
    LET unique == Alive(1, op.tok) /\ Cardinality(walk.found) = 1
        s == CHOOSE x \in walk.found : TRUE IN
    /\ Observing /\ walk.pc = "conclude" /\ walk' = NoWalk
    /\ IF unique /\ mem.expected \in {NoSession, s}
       THEN /\ Record(IF mem.expected = s THEN "RESTORED_NATIVE" ELSE "NATIVE_CREATED", s)
            /\ mem' = [mem EXCEPT !.found = TRUE, !.candidate = IF mem.expected = NoSession THEN s ELSE @]
       ELSE UNCHANGED <<op, saved, mem>>
    /\ UNCHANGED <<store, procs, proof, lines>>

-----------------------------------------------------------------------------
(* Waiting for the session's file, and the outcome at the end. *)

\* provider_session_metadata: the provider has a file for exactly this session.
HasRecord(s) == s # NoSession /\ store.file[s].by # "none"

\* The record exists and was written since the launch.
\* Mutant: a file that has not changed since the launch counts.
WrittenEver(s) == HasRecord(s)
Written(s) == HasRecord(s) /\ s \in store.fresh

ConfirmedState == IF mem.expected # NoSession THEN "RESTORED_NATIVE" ELSE "NATIVE_CREATED"

CaptureFinds ==
    /\ Observing /\ walk.pc = "capture" /\ Written(Target)
    /\ Record(ConfirmedState, Target) /\ walk' = NoWalk
    /\ UNCHANGED <<mem, store, procs, proof, lines>>

\* An operator's stop or pause ends the wait, and nothing is recorded.
CaptureInterrupted ==
    /\ Observing /\ walk.pc = "capture" /\ walk' = NoWalk
    /\ UNCHANGED <<saved, op, mem, store, procs, proof, lines>>

CaptureTimesOut ==
    /\ Observing /\ walk.pc = "capture"
    /\ Record("UNAVAILABLE", NoSession) /\ walk' = NoWalk
    /\ UNCHANGED <<mem, store, procs, proof, lines>>

Returned == op.phase = "running" /\ walk.pc = "idle" /\ ~Mission(1)

\* The scheduler launches the operation again: the notes stay.
RelaunchProvider ==
    /\ Returned /\ op.tries < MaxTries
    /\ op' = [op EXCEPT !.phase = "prepared"]
    /\ UNCHANGED <<saved, mem, store, procs, walk, proof, lines>>

\* The last word on the operation: what the session's file says once the provider has returned.
OutcomeState ==
    IF mem.armed /\ Written(Target) THEN ConfirmedState
    ELSE IF mem.armed /\ mem.expected # NoSession THEN "RECONSTRUCTED" ELSE "UNAVAILABLE"

\* _record_session_outcome, then finish_operation.
AfterIteration ==
    LET state == OutcomeState
        s == IF state \in Confirmed THEN Target ELSE NoSession IN
    /\ Returned /\ mem' = NoNotes
    /\ op' = [op EXCEPT !.state = state, !.sess = s, !.phase = "ended"]
    /\ saved' = IF state \in Confirmed THEN [saved EXCEPT ![op.agent] = s] ELSE saved
    /\ UNCHANGED <<store, procs, walk, proof, lines>>

\* The controller dies with its notes; recovery resolves the operation and leaves its session as it was.
ControllerDies ==
    /\ op.phase \in {"prepared", "launching", "running"}
    /\ op' = [op EXCEPT !.phase = "lost"] /\ mem' = NoNotes /\ walk' = NoWalk
    /\ UNCHANGED <<saved, store, procs, proof, lines>>

SessionNext ==
    \/ \E p \in Pids : AgentObeys(p) \/ AgentCreates(p) \/ AgentWrites(p) \/ AgentExits(p) \/ UserStarts(p)
    \/ AgentForks \/ (\E s \in Sessions : UserContinues(s))
    \/ \E a \in Agents, c \in Folders : BeforeLaunch(a, c)
    \/ \E owned, resumes, plans \in Advertised : Transform(owned, resumes, plans)
    \/ \E short \in BOOLEAN : LaunchProvider(short)
    \/ Observe \/ StatChildren \/ EnterProcess \/ ReadProcess \/ CheckProcess \/ Conclude
    \/ CaptureFinds \/ CaptureInterrupted \/ CaptureTimesOut
    \/ RelaunchProvider \/ AfterIteration \/ ControllerDies

-----------------------------------------------------------------------------
(* The question a provider waits with, from its transcript.                 *)
(* A line asks with a call id, answers one, or is something else: malformed, *)
(* oversized, a question with fields out of bounds, or not ended yet.       *)

Calls == {"q1", "q2"}
Line == [kind : {"ask", "answer"}, id : Calls] \cup {[kind |-> "other", id |-> "q1"]}

ProviderLogs ==
    /\ Len(lines) < MaxTranscript /\ \E l \in Line : lines' = Append(lines, l)
    /\ UNCHANGED <<saved, op, mem, store, procs, walk, proof>>

\* The tail of a long transcript, without the line it may start in the middle of, and no more lines
\* than the reader takes.
Kept(t) == IF Len(t) > Window THEN SubSeq(t, Len(t) - Window + 2, Len(t)) ELSE t
Taken(t) == SubSeq(Kept(t), 1, IF Len(Kept(t)) < MaxLines THEN Len(Kept(t)) ELSE MaxLines)

\* A question waits under its call id; asking again keeps its place in the mapping, an answer removes it.
\* Mutant: an answer leaves the question.
ReadLineOnlyAsks(pending, l) ==
    IF l.kind = "ask" /\ l.id \notin ToSet(pending) THEN Append(pending, l.id) ELSE pending
ReadLine(pending, l) ==
    IF l.kind = "answer" THEN SelectSeq(pending, LAMBDA id : id # l.id)
    ELSE IF l.kind = "ask" /\ l.id \notin ToSet(pending) THEN Append(pending, l.id) ELSE pending

\* pending_operator_questions: the call id of the question last begun that waits, or "none".
PendingQuestion(t) ==
    LET pending == FoldLeft(ReadLine, << >>, Taken(t)) IN
    IF pending = << >> THEN "none" ELSE pending[Len(pending)]

SessionSpec == SessionInit /\ [][SessionNext \/ ProviderLogs]_sessionVars

-----------------------------------------------------------------------------
(* What native sessions promise. *)

\* The session saved for the next launch was started by a process of this mission, for that provider,
\* and never by the user's own use of the provider in the same folder: PIDs are compared with their
\* start tokens before and after they are read (bridge_sessions.py, _owned_codex_session_candidates).
\* The exception is a PID that changed hands between the child list and its stat.
OwnSessionOnly ==
    \A a \in Agents : saved[a] # NoSession =>
        store.file[saved[a]].agent = a /\ (store.file[saved[a]].by = "mission" \/ proof.reused)

\* An operation that says its session was restored or created names one its own processes opened,
\* or that somebody else wrote to meanwhile, in the folder of the operation: a provider that ignores
\* the resume option is not reported as restored (_capture_session_after_launch, _record_session_outcome).
ConfirmedIsOpened ==
    op.state \in Confirmed =>
        /\ op.sess \in proof.opened \cup proof.others \/ proof.reused
        /\ store.file[op.sess].cwd = op.cwd
        /\ op.state = "NATIVE_CREATED" => store.file[op.sess].n = op.n

\* The session an operation uses and the one kept for the next are the mission's own.
SessionIsOurs == OwnSessionOnly /\ ConfirmedIsOpened

\* A question that is reported waits in the whole transcript, and one that waits in a short transcript
\* is reported, as long as the kept tail has no more lines than are read (pending_operator_questions).
QuestionIsOpen ==
    LET q == PendingQuestion(lines)
        waits == {c \in Calls : \E i \in DOMAIN lines : /\ lines[i] = [kind |-> "ask", id |-> c]
                                   /\ \A j \in i .. Len(lines) : lines[j] # [kind |-> "answer", id |-> c]} IN
    Len(Kept(lines)) <= MaxLines =>
        /\ q # "none" => q \in waits
        /\ waits # {} /\ Len(lines) <= Window => q # "none"
=============================================================================

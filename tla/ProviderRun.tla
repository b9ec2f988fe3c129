----------------------------- MODULE ProviderRun -----------------------------
(***************************************************************************)
(* One scheduler run: the capacity gate with its resume timer, and the     *)
(* attempts of submit_once, each of which starts a provider process,       *)
(* watches its output through one of six runners, ends it when it stalls,  *)
(* and turns what it saw into a result and a route or model block.         *)
(*                                                                         *)
(* The provider is external: it prints, closes its output, leaves a        *)
(* descendant that keeps the output open, ignores SIGTERM and exits as it  *)
(* likes.  What it prints is kept as the kind of text the scanners tell    *)
(* apart.  A scanner sees two windows of the output: `scan`, the widest,   *)
(* and `tail`, its last lines; new text may push the older out of either.  *)
(* Timers count down to zero.                                              *)
(***************************************************************************)
EXTENDS Integers, FiniteSets

CONSTANTS
    Configs,     \* how the scheduler may be called
    Retries,     \* entries of --retry-delays
    IdleMax,     \* --headless-idle-timeout, in ticks
    QuestionMax, \* --headless-question-timeout
    TotalMax,    \* LLM_SCHEDULER_PTY_TIMEOUT, LLM_SCHEDULER_TMUX_TIMEOUT
    MaxChunks    \* bound on what a provider prints in one attempt

Runners == {"claude", "exact", "pty", "attached", "tmux", "owned"}
Guarded == {"claude", "exact"}
Headless == Guarded \cup {"pty"}

ASSUME RunAssumption ==
    /\ {IdleMax, QuestionMax, TotalMax, MaxChunks} \subseteq Nat \ {0} /\ Retries \in Nat
    /\ Configs \subseteq [runner : Runners, key : {"route", "model", "none"},
                          auto : BOOLEAN, ralph : BOOLEAN, suspend : BOOLEAN]

\* AUTONOMY_ABORT_STATUS, OPERATOR_DECLINED_STATUS, the code of a timeout.
Abort75 == 75
Declined76 == 76
Timeout124 == 124
NoCode == 999

\* What a provider prints: model text, a question, a menu that waits for a key,
\* the folder-trust prompt, "Error: out of credits" on its error channel, and a
\* gateway's JSON envelope saying that the credit of the model is spent; and a
\* tool's output that quotes a menu, such as a file of the repository.
Kinds == {"text", "question", "menu", "trust", "quota", "credit", "tool"}
Scanned == {"question", "menu", "trust", "quota"}

VARIABLES
    cfg,      \* SchedulerConfig
    pc,       \* where the scheduler is
    armed,    \* the resume timer of schedule_resume_and_suspend exists
    attempt,  \* attempts made
    proc,     \* the provider: none, alive, closed (alive, output closed), dead
    code,     \* its exit code
    holder,   \* a descendant keeps the output of the dead provider open
    chunk,    \* output it has printed and the runner has not read
    sent,     \* chunks printed in this attempt
    scan,     \* kinds in the wide scan window
    tail,     \* kinds in the last lines
    out,      \* kinds in the output file
    kept,     \* kinds in the last 64 KiB of the output file
    seen,     \* provider_quota_diagnostic_seen and provider_credit_diagnostic
    pending,  \* pending_prompt of run_pty_capture
    answered, \* trust_sent
    idle,     \* ticks until the idle timeout
    question, \* ticks until the question timeout, -1 when no question is pending
    total,    \* ticks until the total timeout
    quiet,    \* ticks since the runner last read output
    exit,     \* exit_code of the runner
    reason,   \* abort_reason
    station,  \* the tmux server answers
    file,     \* the status file, NoCode while absent or empty
    block,    \* the local block of the run's route or model
    result    \* what submit_once, and then main, returned

procVars == <<proc, code, holder, chunk, sent>>
scanVars == <<scan, tail, out, kept, seen, pending, answered>>
timeVars == <<idle, question, total, quiet>>
endVars == <<exit, reason, file>>
runVars == <<cfg, armed, attempt, station, block, result>>
vars == <<pc, procVars, scanVars, timeVars, endVars, runVars>>

TypeOK ==
    /\ cfg \in [runner : Runners, key : {"route", "model", "none"}, auto : BOOLEAN,
                ralph : BOOLEAN, suspend : BOOLEAN]
    /\ pc \in {"gate", "scheduled", "spawn", "loop", "drain", "term", "kill", "collect",
               "submit", "retry", "done", "raised", "interrupted"}
    /\ armed \in BOOLEAN /\ attempt \in 0 .. Retries + 1
    /\ proc \in {"none", "alive", "closed", "dead"}
    /\ code \in {NoCode, 0, 1, Abort75, -15, -9} /\ holder \in BOOLEAN
    /\ chunk \in Kinds \cup {"none"} /\ sent \in 0 .. MaxChunks
    /\ scan \subseteq Scanned /\ tail \subseteq scan /\ out \subseteq Kinds /\ kept \subseteq out
    /\ seen \subseteq {"quota", "credit"}
    /\ pending \in {"none", "trust", "blocking"} /\ answered \in BOOLEAN
    /\ idle \in 0 .. IdleMax /\ question \in -1 .. QuestionMax /\ total \in 0 .. TotalMax
    /\ quiet \in 0 .. IdleMax
    /\ exit \in {NoCode, 0, 1, 2, Abort75, Timeout124, 127, 130, 137, 143, -15, -9}
    /\ reason \in {"none", "idle", "question", "prompt"}
    /\ station \in BOOLEAN
    /\ file \in {NoCode, 0, 1, 2, Abort75, Timeout124, 127, 130, 137, 143, -15, -9}
    /\ block \in {"none", "runtime-failure", "autonomy-abort", "credit-exhausted"}
    /\ result \in {NoCode, 0, 1, Abort75, Declined76, 143}

\* resolve_attach_mode, run_fresh_headless and run_tmux pick the runner from the
\* configuration, which is fixed for the run.
Init ==
    /\ cfg \in Configs /\ pc = "gate" /\ armed = FALSE /\ attempt = 0
    /\ proc = "none" /\ code = NoCode /\ holder = FALSE /\ chunk = "none" /\ sent = 0
    /\ scan = {} /\ tail = {} /\ out = {} /\ kept = {} /\ seen = {}
    /\ pending = "none" /\ answered = FALSE
    /\ idle = IdleMax /\ question = -1 /\ total = TotalMax /\ quiet = 0
    /\ exit = NoCode /\ reason = "none" /\ station = TRUE /\ file = NoCode
    /\ block \in {"none", "runtime-failure"} /\ (cfg.key = "none" => block = "none")
    /\ result = NoCode

------------------------------------------------------------------------------
(* wait_until_usable, with --suspend-until-ready.                          *)

GateOpens ==
    /\ pc = "gate" /\ pc' = "spawn"
    /\ UNCHANGED <<procVars, scanVars, timeVars, endVars, runVars>>

\* schedule_resume_and_suspend armed a timer that is active: the process exits.
\* A failure to arm it leaves the run at the gate, waiting in the process.
ScheduleResume ==
    /\ pc = "gate" /\ cfg.suspend
    /\ pc' = "scheduled" /\ armed' = TRUE /\ result' = 0
    /\ UNCHANGED <<procVars, scanVars, timeVars, endVars, cfg, attempt, station, block>>

\* The timer starts scheduler_resume_argv: neither --suspend-until-ready nor the
\* --model of the command line is handed on, nor the route.
ResumeFires ==
    /\ pc = "scheduled" /\ armed
    /\ pc' = "gate" /\ armed' = FALSE /\ result' = NoCode
    /\ cfg' = [cfg EXCEPT !.suspend = FALSE, !.key = "none"]
    /\ block' = "none"
    /\ UNCHANGED <<procVars, scanVars, timeVars, endVars, attempt, station>>

\* should_interrupt_wait: a Bridge request ends the wait.
GateInterrupted ==
    /\ pc = "gate" /\ pc' = "done" /\ result' = 143
    /\ UNCHANGED <<procVars, scanVars, timeVars, endVars, cfg, armed, attempt, station, block>>

------------------------------------------------------------------------------
(* The provider process and the clock (external).                          *)

Emit(k) ==
    /\ pc = "loop" /\ proc = "alive" /\ chunk = "none" /\ sent < MaxChunks
    /\ sent' = sent + 1
    /\ IF cfg.runner \in Headless
       THEN chunk' = k /\ UNCHANGED <<out, kept>>
       ELSE out' = out \cup {k} /\ kept' = kept \cup {k} /\ UNCHANGED chunk
    /\ UNCHANGED <<pc, proc, code, holder, scan, tail, seen, pending, answered, timeVars,
                   endVars, runVars>>

CloseOutput ==
    /\ pc = "loop" /\ cfg.runner \in Guarded /\ proc = "alive" /\ proc' = "closed"
    /\ UNCHANGED <<pc, code, holder, chunk, sent, scanVars, timeVars, endVars, runVars>>

\* In a tmux pane the command script writes the status file, unless the whole
\* pane was killed first.
ProviderExits(c) ==
    /\ pc \in {"loop", "drain", "term"} /\ proc \in {"alive", "closed"}
    /\ proc' = "dead" /\ code' = c
    /\ holder' \in IF cfg.runner \in Guarded /\ proc = "alive" THEN BOOLEAN ELSE {FALSE}
    /\ file' \in IF cfg.runner \in {"tmux", "owned"} THEN {c, NoCode} ELSE {file}
    /\ UNCHANGED <<pc, chunk, sent, scanVars, timeVars, exit, reason, runVars>>

\* The station's server goes away and takes its panes with it.
StationGone ==
    /\ pc \in {"spawn", "loop"} /\ cfg.runner = "owned" /\ station
    /\ station' = FALSE
    /\ IF proc = "alive" THEN proc' = "dead" /\ code' = -9 ELSE UNCHANGED <<proc, code>>
    /\ UNCHANGED <<pc, holder, chunk, sent, scanVars, timeVars, endVars, cfg, armed, attempt,
                   block, result>>

Lower(t) == IF t > 0 THEN t - 1 ELSE t

Tick ==
    /\ pc = "loop" /\ total > 0 /\ idle > 0
    /\ total' = total - 1
    /\ \/ /\ cfg.runner \in Headless
          /\ idle' = idle - 1 /\ question' = Lower(question) /\ quiet' = quiet + 1
       \/ /\ cfg.runner = "tmux"
          /\ UNCHANGED <<idle, question, quiet>>
    /\ UNCHANGED <<pc, procVars, scanVars, endVars, runVars>>

------------------------------------------------------------------------------
(* Starting an attempt.                                                    *)

\* What run_tmux finds of a Bridge-owned pane: the station is gone, the pane runs
\* another native process, or it cannot be respawned.
OwnedRefusal ==
    IF ~station THEN {143} ELSE {Abort75, 127}

\* _popen_with_prompt, pty.fork, script, respawn-pane or send-keys.
Spawn ==
    /\ pc = "spawn" /\ (cfg.runner = "owned" => station)
    /\ pc' = "loop" /\ attempt' = attempt + 1
    /\ proc' = "alive" /\ code' = NoCode /\ holder' = FALSE /\ chunk' = "none" /\ sent' = 0
    /\ scan' = {} /\ tail' = {} /\ out' = {} /\ kept' = {} /\ seen' = {}
    /\ pending' = "none" /\ answered' = FALSE
    /\ idle' = IdleMax /\ question' = -1 /\ total' = TotalMax /\ quiet' = 0
    /\ exit' = NoCode /\ reason' = "none" /\ file' = NoCode
    /\ UNCHANGED <<cfg, armed, station, block, result>>

SpawnRefused(c) ==
    /\ pc = "spawn" /\ cfg.runner = "owned" /\ c \in OwnedRefusal
    /\ pc' = "submit" /\ attempt' = attempt + 1 /\ exit' = c /\ file' = c
    /\ proc' = "none" /\ code' = NoCode /\ out' = {} /\ kept' = {} /\ reason' = "none"
    /\ UNCHANGED <<holder, chunk, sent, scan, tail, seen, pending, answered, timeVars,
                   cfg, armed, station, block, result>>

\* _record_spawned_process: the mission could not record the process, so its
\* process group is killed and the error goes up.
RecordFails ==
    /\ pc = "spawn" /\ cfg.runner # "tmux" /\ (cfg.runner = "owned" => station)
    /\ pc' = "raised" /\ proc' = "dead" /\ code' = -9
    /\ UNCHANGED <<holder, chunk, sent, scanVars, timeVars, endVars, runVars>>

------------------------------------------------------------------------------
(* The scanners.                                                           *)

\* BLOCKING_PROMPT_PATTERNS in the last lines.
Blocking(t) == t \cap {"menu", "trust", "quota"} # {}

\* has_explicit_prompt_cue: a menu, a confirmation or a question.
Cue(t) == t \cap {"menu", "trust", "question"} # {}

\* Mutant: the rendered line is scanned, tool output included.
ClaudeScannableAll(k) == IF k = "tool" THEN "menu" ELSE k

\* ClaudeStreamRenderer: model text and the final result are scanned; tool input
\* and output count as activity only.
ClaudeScannable(k) == IF k = "tool" THEN "text" ELSE k

\* CodexStreamRenderer: the same for its items, and the credit envelope of an
\* error item is noted.
CodexScannable(k) == IF k = "tool" THEN "text" ELSE k
CodexCredit(k) == {k} \cap {"credit"}

\* The windows after text of kind k: the older text stays, or is pushed out of the
\* last lines, or out of both.
Windows(k) ==
    LET now == {k} \cap Scanned
    IN {[scan |-> scan \cup now, tail |-> tail \cup now], [scan |-> scan \cup now, tail |-> now],
        [scan |-> now, tail |-> now]}

\* The total timeout, then ProgressGuard.overdue or its copy in the PTY loop.
Overdue ==
    IF total = 0 THEN "total" ELSE IF idle = 0 THEN "idle" ELSE IF question = 0 THEN "question"
    ELSE "none"

\* Mutant: a question stays pending although the provider went on.
NoteOutputSticky(k, w) ==
    [blocking |-> Blocking(w.tail), seen |-> {},
     question |-> IF "question" \in w.tail THEN QuestionMax ELSE question]

\* ProgressGuard.note_output, as scan_tail of the Claude runner and scan_prompt
\* of the exact runner call it.  The exact runner looks for a cue in the chunk,
\* the Claude runner in the whole window.
NoteOutput(k, w) ==
    LET quota == "quota" \in w.scan
        cue == IF cfg.runner = "exact" THEN Cue({k}) ELSE Cue(w.scan)
    IN IF quota /\ ~cue
       THEN [blocking |-> FALSE, question |-> -1, seen |-> {"quota"}]
       ELSE [blocking |-> Blocking(w.tail), seen |-> IF quota THEN {"quota"} ELSE {},
             question |-> IF Blocking(w.tail) THEN question
                          ELSE IF "question" \in w.tail THEN QuestionMax ELSE -1]

\* append_combined and the 64 KiB that provider_failure_diagnostic reads back.
Retain(k) ==
    /\ out' = out \cup {k}
    /\ \/ kept' = kept \cup {k}
       \/ kept' = {k}

\* The step of both stream runners that reads a chunk; k is what is scanned of it
\* and noted the flags it raises.
GuardRead(k, noted) ==
    /\ pc = "loop" /\ chunk # "none" /\ Overdue = "none"
    /\ \E w \in Windows(k) :
         LET n == NoteOutput(k, w)
         IN /\ scan' = w.scan /\ tail' = w.tail /\ question' = n.question
            /\ seen' = seen \cup n.seen \cup noted
            /\ IF n.blocking
               THEN exit' = Abort75 /\ reason' = "prompt" /\ pc' = "term"
               ELSE UNCHANGED <<exit, reason, pc>>
    /\ Retain(chunk)
    /\ idle' = IdleMax /\ quiet' = 0 /\ chunk' = "none"
    /\ UNCHANGED <<proc, code, holder, sent, pending, answered, total, file, runVars>>

ClaudeRead == cfg.runner = "claude" /\ GuardRead(ClaudeScannable(chunk), {})
ExactRead == cfg.runner = "exact" /\ GuardRead(CodexScannable(chunk), CodexCredit(chunk))

\* run_pty_capture: a prompt is remembered until the output has been quiet.  A
\* question is noted in the wide window and forgotten only when trust is given.
PtyRead ==
    /\ pc = "loop" /\ cfg.runner = "pty" /\ chunk # "none" /\ Overdue = "none"
    /\ \E w \in Windows(IF chunk = "tool" THEN "menu" ELSE chunk) :
         /\ scan' = w.scan /\ tail' = w.tail
         /\ pending' = IF cfg.auto /\ ~answered /\ "trust" \in w.tail THEN "trust"
                       ELSE IF Blocking(w.tail) THEN "blocking" ELSE "none"
         /\ question' = IF pending' = "none" /\ "question" \in w.scan THEN QuestionMax ELSE question
    /\ Retain(chunk)
    /\ idle' = IdleMax /\ quiet' = 0 /\ chunk' = "none"
    /\ UNCHANGED <<pc, proc, code, holder, sent, seen, answered, total, endVars, runVars>>

\* PROMPT_QUIET_SECONDS after the prompt: confirm trust once, or give up.
PtyQuiet ==
    /\ pc = "loop" /\ cfg.runner = "pty" /\ pending # "none" /\ quiet > 0
    /\ Overdue = "none"
    /\ IF pending = "trust"
       THEN /\ answered' = TRUE /\ question' = -1 /\ pending' = "none"
            /\ UNCHANGED <<exit, reason, pc>>
       ELSE /\ exit' = Abort75 /\ reason' = "prompt" /\ pc' = "term"
            /\ UNCHANGED <<answered, question, pending>>
    /\ UNCHANGED <<procVars, scan, tail, out, kept, seen, idle, total, quiet, file, runVars>>

------------------------------------------------------------------------------
(* How a runner's loop ends.                                               *)

\* A timeout ends the loop; only the total one is not an abort.
LoopOverdue ==
    /\ pc = "loop" /\ cfg.runner \in Headless /\ Overdue # "none"
    /\ IF Overdue = "total" THEN exit' = Timeout124 /\ reason' = "none"
       ELSE exit' = Abort75 /\ reason' = Overdue
    /\ pc' = IF cfg.runner = "pty" /\ total = 0 THEN "drain" ELSE "term"
    /\ UNCHANGED <<procVars, scanVars, timeVars, file, runVars>>

\* Both pipes are at their end.  A provider that is not dead yet is signalled.
GuardEOF ==
    /\ pc = "loop" /\ cfg.runner \in Guarded /\ chunk = "none" /\ Overdue = "none"
    /\ proc = "closed" \/ (proc = "dead" /\ ~holder)
    /\ IF proc = "dead" THEN exit' = code /\ pc' = "collect"
       ELSE exit' = Timeout124 /\ pc' = "term"
    /\ UNCHANGED <<procVars, scanVars, timeVars, reason, file, runVars>>

\* The PTY is at its end; on a pending menu nothing more will follow.
PtyEOF ==
    /\ pc = "loop" /\ cfg.runner = "pty" /\ chunk = "none" /\ proc = "dead"
    /\ Overdue = "none"
    /\ IF pending = "blocking" THEN exit' = Abort75 /\ reason' = "prompt" /\ pc' = "term"
       ELSE exit' = Timeout124 /\ pc' = "drain" /\ UNCHANGED reason
    /\ UNCHANGED <<procVars, scanVars, timeVars, file, runVars>>

\* A code of a process that a signal ended: negative from Popen, 128 + n here.
PtyCode(c) == CASE c = -15 -> 143 [] c = -9 -> 137 [] OTHER -> c

\* waitpid finds the provider gone, whether or not its output has been read.
PtyReap ==
    /\ pc = "loop" /\ cfg.runner = "pty" /\ proc = "dead"
    /\ Overdue = "none"
    /\ exit' = PtyCode(code) /\ pc' = IF PtyCode(code) = Abort75 THEN "term" ELSE "collect"
    /\ UNCHANGED <<procVars, scanVars, timeVars, reason, file, runVars>>

\* Mutant: a waitpid that blocks until the provider ends.
PtyDrainWaits ==
    /\ pc = "drain" /\ proc = "dead" /\ exit' = PtyCode(code) /\ pc' = "collect"
    /\ UNCHANGED <<procVars, scanVars, timeVars, reason, file, runVars>>

\* After 124 the PTY runner looks once more for an exit code.
PtyDrain ==
    /\ pc = "drain"
    /\ IF proc = "dead" THEN exit' = PtyCode(code) /\ pc' = "collect"
       ELSE pc' = "term" /\ UNCHANGED exit
    /\ UNCHANGED <<procVars, scanVars, timeVars, reason, file, runVars>>

\* What is of no more use once the watch is over.
Forget ==
    /\ holder' = FALSE /\ chunk' = "none" /\ sent' = 0
    /\ scan' = {} /\ tail' = {} /\ pending' = "none" /\ answered' = FALSE
    /\ idle' = IdleMax /\ question' = -1 /\ total' = TotalMax /\ quiet' = 0

\* Ctrl-C: the PTY runner ends its provider; the stream runners started theirs
\* in a session of its own and let the interrupt go up.
Interrupt ==
    /\ pc = "loop" /\ cfg.runner \in Headless
    /\ IF cfg.runner = "pty"
       THEN exit' = 130 /\ proc' = "dead" /\ pc' = "collect"
            /\ code' = IF proc = "dead" THEN code ELSE -9
       ELSE pc' = "interrupted" /\ UNCHANGED <<exit, proc, code>>
    /\ Forget
    /\ UNCHANGED <<out, kept, seen, reason, file, runVars>>

\* SIGTERM, 0.2 s, SIGKILL.
Terminate ==
    /\ pc = "term"
    /\ \/ proc = "dead" /\ pc' = "collect" /\ UNCHANGED <<proc, code>>
       \/ proc # "dead" /\ proc' = "dead" /\ code' = -15 /\ pc' = "collect"
       \/ proc # "dead" /\ pc' = "kill" /\ UNCHANGED <<proc, code>>
    /\ UNCHANGED <<holder, chunk, sent, scanVars, timeVars, endVars, runVars>>

\* Mutant: no SIGKILL after a SIGTERM that was ignored.
KillNot ==
    /\ pc = "kill" /\ pc' = "collect"
    /\ UNCHANGED <<procVars, scanVars, timeVars, endVars, runVars>>

Kill ==
    /\ pc = "kill" /\ pc' = "collect" /\ proc' = "dead"
    /\ code' = IF proc = "dead" THEN code ELSE -9
    /\ UNCHANGED <<holder, chunk, sent, scanVars, timeVars, endVars, runVars>>

\* Mutant: a timeout hides the code of a provider that has just ended.
ReportedTimeout == exit

\* The exit code a runner reports.  A 124 gives way to the code of the dead
\* provider; the exact runner keeps a quota failure apart from its own 75.
Reported ==
    LET timedOut == cfg.runner \in Guarded /\ exit = Timeout124 /\ proc = "dead"
        final == IF timedOut THEN code ELSE exit
    IN IF cfg.runner = "exact" /\ reason # "prompt" /\ final = Abort75 /\ "quota" \in seen
       THEN 1 ELSE final

Collect ==
    /\ pc = "collect" /\ pc' = "submit"
    /\ exit' = Reported /\ file' = Reported
    /\ Forget
    /\ UNCHANGED <<proc, code, out, kept, seen, reason, runVars>>

\* run_fresh_attached waits for `script` as long as it takes.
AttachedExit ==
    /\ pc = "loop" /\ cfg.runner = "attached" /\ proc = "dead"
    /\ exit' = code /\ file' = code /\ pc' = "submit"
    /\ UNCHANGED <<procVars, scanVars, timeVars, reason, runVars>>

\* The polling loop of run_tmux: a status file, a station or a pane that is gone,
\* or, unless Bridge owns the pane, the timeout.
TmuxPoll ==
    /\ pc = "loop" /\ cfg.runner \in {"tmux", "owned"}
    /\ \/ file # NoCode /\ file' = file
       \/ file = NoCode /\ cfg.runner = "owned" /\ ~station /\ file' = 143
       \/ file = NoCode /\ cfg.runner = "owned" /\ station /\ proc = "dead" /\ file' = Timeout124
       \/ file = NoCode /\ cfg.runner = "tmux" /\ total = 0 /\ file' = Timeout124
    /\ exit' = file' /\ pc' = "submit"
    /\ UNCHANGED <<procVars, scanVars, timeVars, reason, runVars>>

------------------------------------------------------------------------------
(* submit_once after the runner has returned.                              *)

\* provider_failure_diagnostic.
Class(status, guard, verified) ==
    CASE guard -> "scheduler-guard"
      [] ~guard /\ status = 0 /\ ~(verified /\ "credit" \in kept) -> "success"
      [] ~guard /\ (status # 0 \/ "credit" \in kept) /\ verified -> "capacity"
      [] ~guard /\ status # 0 /\ ~verified /\ status \in {130, 143} -> "interrupted"
      [] ~guard /\ status # 0 /\ ~verified /\ status = Timeout124 -> "timeout"
      [] OTHER -> "provider-error"

\* read_provider_diagnostic refuses a sidecar that contradicts itself: a quota or
\* credit flag on a result of another class, or the code of a signalled provider.
Sidecar ==
    LET native == IF proc = "dead" THEN code ELSE exit
        class == Class(native, reason # "none" /\ exit = Abort75, seen # {})
    IN /\ seen # {} => class \in {"capacity", "scheduler-guard"}
       /\ ~(class = "provider-error" /\ native < 0)

\* Mutant: a credit envelope is looked for after failures only.
CreditExhaustedOnFailure == exit # 0 /\ "credit" \in out

\* Only the exact runner writes a sidecar, and there it alone decides.
CreditExhausted ==
    IF cfg.runner = "exact" THEN Sidecar /\ "credit" \in seen ELSE "credit" \in out

\* output_is_retryable.
Retryable ==
    IF cfg.runner \in {"attached", "owned"} THEN exit \notin {0, 130, 143}
    ELSE exit # 0 \/ (~cfg.ralph /\ "quota" \in out)

\* "No, exit" at the folder-trust prompt.
TrustDeclined ==
    exit \notin {0, Timeout124, 130, 143, Abort75} /\ "trust" \in out

Outcome ==
    IF exit = Abort75 \/ CreditExhausted THEN Abort75 ELSE IF Retryable THEN 1 ELSE 0

\* Mutant: a clean exit leaves the block of the route behind.
BlockAfterSticky ==
    IF cfg.key = "none" THEN "none" ELSE IF exit = Abort75 THEN "autonomy-abort"
    ELSE IF CreditExhausted THEN "credit-exhausted"
    ELSE IF Retryable THEN "runtime-failure" ELSE block

\* _record_route_runtime_block, _record_model_runtime_block, the autonomy block,
\* and the clearing of both after a clean exit.
BlockAfter ==
    CASE cfg.key = "none" -> "none"
      [] cfg.key # "none" /\ exit = Abort75 ->
           IF cfg.key = "route" THEN "autonomy-abort" ELSE block
      [] cfg.key # "none" /\ exit # Abort75 /\ CreditExhausted -> "credit-exhausted"
      [] cfg.key = "route" /\ exit # Abort75 /\ ~CreditExhausted /\ Retryable -> "runtime-failure"
      [] OTHER -> IF exit = 0 THEN "none" ELSE block

\* submit_once, and what main makes of its result.
SubmitOnce ==
    /\ pc = "submit"
    /\ \/ /\ TrustDeclined
          /\ result' = Declined76 /\ block' = block
       \/ /\ result' = Outcome /\ block' = BlockAfter
    /\ pc' = IF result' = 1 /\ attempt <= Retries THEN "retry" ELSE "done"
    /\ UNCHANGED <<procVars, scanVars, timeVars, endVars, cfg, armed, attempt, station>>

\* The delay before the next of --retry-delays is over.
Retry ==
    /\ pc = "retry" /\ pc' = "spawn" /\ result' = NoCode
    /\ UNCHANGED <<procVars, scanVars, timeVars, endVars, cfg, armed, attempt, station, block>>

Ended == pc \in {"done", "raised", "interrupted"} /\ UNCHANGED vars

Runner ==
    \/ ClaudeRead \/ ExactRead \/ PtyRead \/ PtyQuiet \/ LoopOverdue \/ GuardEOF \/ PtyEOF \/ PtyReap
    \/ PtyDrain \/ Terminate \/ Kill \/ Collect \/ AttachedExit \/ TmuxPoll \/ SubmitOnce
    \/ Retry

Next ==
    \/ GateOpens \/ ScheduleResume \/ ResumeFires \/ GateInterrupted
    \/ \E k \in Kinds : Emit(k)
    \/ CloseOutput
    \/ \E c \in {0, 1, Abort75} : ProviderExits(c)
    \/ StationGone \/ Tick
    \/ Spawn
    \/ \E c \in {143, Abort75, 127} : SpawnRefused(c)
    \/ RecordFails \/ Interrupt
    \/ Runner
    \/ Ended

Spec == Init /\ [][Next]_vars

\* Windows renew, so the gate opens in the end; timers fire; the scheduler is not
\* stopped and the clock goes on.  Nothing is assumed of the provider.
FairSpec == Spec /\ WF_vars(GateOpens) /\ WF_vars(ResumeFires) /\ WF_vars(Spawn)
                 /\ WF_vars(Runner) /\ WF_vars(Tick)

------------------------------------------------------------------------------
(* What a run promises.                                                    *)

\* No provider outlives its attempt: whatever ends the watch over a headless,
\* attached or Bridge-owned provider, the process is gone before the next attempt
\* starts or the result is handed on.  (A user's own tmux pane is left alone.)
NoSurvivor ==
    cfg.runner # "tmux" /\ pc \in {"gate", "spawn", "submit", "retry", "done", "raised"}
        => proc \in {"none", "dead"}

\* A headless run counts as done only when its provider ended by itself with 0,
\* and never when the output that was read and kept holds a gateway's envelope of
\* spent credit, whatever the exit code was.
SuccessIsEarned ==
    pc = "done" /\ attempt > 0 /\ result = 0 =>
        /\ cfg.runner \in Headless \cup {"tmux"} => code = 0
        /\ "credit" \notin IF cfg.runner = "exact" THEN kept \cap seen ELSE out

\* The exit code a provider ended with by itself is the one reported, unless the
\* run was aborted for a reason of its own or interrupted: a late timeout never
\* hides a finished provider, and the provider's own 75 is not taken for an abort
\* of the scheduler when it reported a quota.
ExitIsTheProviders ==
    pc \in {"submit", "retry", "done"} /\ cfg.runner \in Guarded /\ code \in {0, 1, Abort75}
      /\ reason = "none" /\ attempt > 0
        => exit = IF cfg.runner = "exact" /\ code = Abort75 /\ "quota" \in seen THEN 1 ELSE code

\* After a run the local block of its route says what the run found: none after a
\* clean exit that counts, one after every result that rotates away, also when
\* the block was there before and whatever the attempts before it left.
BlockMatchesResult ==
    pc = "done" /\ attempt > 0 /\ cfg.key = "route" =>
        /\ result = 0 /\ exit = 0 => block = "none"
        /\ result \in {1, Abort75} => block # "none"

\* A stream runner ends a run for a prompt only when the provider itself printed
\* one: what a tool prints, or a file of the repository it shows, never counts.
PromptIsTheProviders ==
    reason = "prompt" /\ cfg.runner \in Guarded => out \cap {"menu", "trust", "quota"} # {}

\* A stalled provider is one that has printed nothing: the guard of the stream
\* runners ends a run for idleness or for an open question only after that much
\* silence, however often the question was asked and answered before.
AbortIsForSilence ==
    /\ reason' = "idle" /\ reason # "idle" => quiet >= IdleMax
    /\ reason' = "question" /\ reason # "question" /\ cfg.runner \in Guarded => quiet >= QuestionMax

\* What a run reports is what happened: its success, the provider's exit, the
\* reason of an abort and the block it leaves on the route.
ResultIsTruthful ==
    [][/\ AbortIsForSilence
       /\ (SuccessIsEarned /\ ExitIsTheProviders /\ PromptIsTheProviders /\ BlockMatchesResult)']_vars

\* A run that is not left to an operator ends, whatever its provider does: it
\* prints for ever, falls silent, ignores signals or leaves its output open.
RunEnds ==
    cfg.runner \in Headless \cup {"tmux"} ~> pc \in {"done", "raised", "interrupted"}
==============================================================================

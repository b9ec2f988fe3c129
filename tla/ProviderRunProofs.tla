-------------------------- MODULE ProviderRunProofs --------------------------
(* Proofs about ProviderRun for every set of configurations and every limit:   *)
(* no provider outlives its attempt, and a run reports what happened.          *)
EXTENDS ProviderRun, TLAPS

----------------------------------------------------------------------------
(* The inductive invariant *)

\* Where a provider that is not in a user's own pane is gone.
AfterPCs == {"gate", "scheduled", "spawn", "collect", "submit", "retry", "done", "raised"}
EndingPCs == {"drain", "term", "kill", "collect"}

Configurations ==
  [runner : Runners, key : {"route", "model", "none"}, auto : BOOLEAN, ralph : BOOLEAN, suspend : BOOLEAN]

\* The watch ends with the process; a status file, or a station that is gone,
\* tells of a dead one.
GoneInv ==
  /\ proc \in {"none", "alive", "closed", "dead"} /\ (pc \in {"loop"} \cup EndingPCs => proc # "none")
  /\ cfg.runner # "tmux" /\ pc \in AfterPCs => proc \in {"none", "dead"}
  /\ proc = "closed" => cfg.runner \in Guarded
  /\ pc = "loop" /\ cfg.runner \in {"tmux", "owned"} /\ file # NoCode => proc = "dead" /\ file = code
  /\ pc = "loop" /\ cfg.runner = "owned" /\ ~station => proc = "dead"

\* The timers measure the silence.
ClockInv ==
  /\ idle \in Nat /\ quiet \in Nat /\ question \in Int
  /\ idle + quiet = IdleMax
  /\ pc = "loop" /\ cfg.runner \in Guarded /\ question # -1 => question + quiet >= QuestionMax

\* What the exit code may be on the way to the result.
ExitInv ==
  /\ pc \in {"gate", "scheduled"} => attempt = 0
  /\ pc \in EndingPCs => cfg.runner \in Headless
  /\ pc = "drain" => cfg.runner = "pty"
  /\ pc \in {"drain", "term", "kill"} => exit # 0
  /\ pc \in {"term", "kill"} /\ cfg.runner \in Guarded /\ reason = "none" => exit = Timeout124
  /\ pc = "collect" => (exit = 0 => code = 0) /\ (cfg.runner \in Guarded /\ reason = "none" => exit \in {Timeout124, code})
  /\ pc \in {"submit", "retry", "done"} /\ cfg.runner \in Headless \cup {"tmux"} /\ attempt > 0 /\ exit = 0 => code = 0

\* What the scanners of the stream runners see has been printed.
ScanInv == cfg.runner \in Guarded => tail \subseteq out

Truthful == SuccessIsEarned /\ ExitIsTheProviders /\ PromptIsTheProviders /\ BlockMatchesResult

RunInv == cfg \in Configurations /\ GoneInv /\ ClockInv /\ ExitInv /\ ScanInv /\ Truthful

Moved == Next \/ UNCHANGED vars

----------------------------------------------------------------------------
(* It is inductive *)

\* What a scanner of the stream runners sees after a chunk has been printed, so a
\* prompt that ends the run has been.
LEMMA SeenIsPrinted ==
  ASSUME ScanInv, cfg.runner \in Guarded, NEW k, k \in {chunk, "text"}, NEW w \in Windows(k)
  PROVE  /\ w.tail \subseteq out \cup {chunk}
         /\ NoteOutput(k, w).blocking => (out \cup {chunk}) \cap {"menu", "trust", "quota"} # {}
<1>1. "text" \notin Scanned
  BY DEF Scanned
<1>2. w.tail \subseteq tail \cup ({k} \cap Scanned)
  BY DEF Windows
<1>3. w.tail \subseteq out \cup {chunk}
  BY <1>1, <1>2 DEF ScanInv
<1>4. NoteOutput(k, w).blocking => Blocking(w.tail)
  BY DEF NoteOutput
<1> QED BY <1>3, <1>4 DEF Blocking

\* The configuration keeps its runner; a resumed run loses its route or model.
LEMMA ConfigStep ==
  ASSUME cfg \in Configurations, Moved
  PROVE  cfg' \in Configurations /\ cfg'.runner = cfg.runner
<1> USE DEF vars, procVars, scanVars, timeVars, endVars, runVars, Configurations
<1>1. CASE GateOpens \/ ScheduleResume \/ ResumeFires \/ GateInterrupted \/
           Spawn \/ (\E c \in {143, Abort75, 127} : SpawnRefused(c)) \/ RecordFails \/ Retry \/
           SubmitOnce
  BY <1>1 DEF GateOpens, ScheduleResume, ResumeFires, GateInterrupted, Spawn, SpawnRefused,
     RecordFails, Retry, SubmitOnce
<1>2. CASE (\E k \in Kinds : Emit(k)) \/ CloseOutput \/ (\E c \in {0, 1, Abort75} : ProviderExits(c)) \/ StationGone \/
           Tick
  BY <1>2 DEF Emit, CloseOutput, ProviderExits, StationGone, Tick
<1>3. CASE PtyRead \/ PtyQuiet
  BY <1>3 DEF PtyRead, PtyQuiet
<1>4. CASE ClaudeRead
  BY <1>4 DEF ClaudeRead, GuardRead
<1>5. CASE ExactRead
  BY <1>5 DEF ExactRead, GuardRead
<1>6. CASE LoopOverdue \/ GuardEOF \/ PtyEOF \/ PtyReap \/
           PtyDrain \/ Interrupt \/ Terminate \/ Kill \/
           Collect \/ AttachedExit \/ TmuxPoll
  BY <1>6 DEF LoopOverdue, GuardEOF, PtyEOF, PtyReap, PtyDrain, Interrupt, Terminate, Kill,
     Collect, AttachedExit, TmuxPoll
<1>7. CASE Ended \/ UNCHANGED vars
  BY <1>7 DEF Ended
<1> QED BY <1>1, <1>2, <1>3, <1>4, <1>5, <1>6, <1>7 DEF Moved, Next, Runner

\* A watch ends when the process has ended, or kills it.
LEMMA GoneStep ==
  ASSUME cfg \in Configurations, cfg'.runner = cfg.runner, GoneInv, ExitInv, Moved
  PROVE  GoneInv'
<1> USE DEF vars, procVars, scanVars, timeVars, endVars, runVars, GoneInv, ExitInv, AfterPCs,
    EndingPCs, Runners, Headless, Guarded, NoCode, Configurations, Abort75
<1>1. CASE GateOpens \/ ScheduleResume \/ ResumeFires \/ GateInterrupted \/
           Spawn \/ (\E c \in {143, Abort75, 127} : SpawnRefused(c)) \/ RecordFails \/ Retry \/
           SubmitOnce
  BY <1>1 DEF GateOpens, ScheduleResume, ResumeFires, GateInterrupted, Spawn, SpawnRefused,
     RecordFails, Retry, SubmitOnce
<1>2. CASE (\E k \in Kinds : Emit(k)) \/ CloseOutput \/ Tick
  BY <1>2 DEF Emit, CloseOutput, Tick
<1>3. CASE \E c \in {0, 1, Abort75} : ProviderExits(c)
  BY <1>3 DEF ProviderExits
<1>4. CASE StationGone
  BY <1>4 DEF StationGone
<1>5. CASE PtyRead \/ PtyQuiet
  BY <1>5 DEF PtyRead, PtyQuiet
<1>6. CASE ClaudeRead
  BY <1>6 DEF ClaudeRead, GuardRead
<1>7. CASE ExactRead
  BY <1>7 DEF ExactRead, GuardRead
<1>8. CASE LoopOverdue \/ GuardEOF \/ PtyEOF \/ PtyReap \/
           PtyDrain \/ Terminate \/ Kill \/ AttachedExit \/
           TmuxPoll
  BY <1>8 DEF LoopOverdue, GuardEOF, PtyEOF, PtyReap, PtyDrain, Terminate, Kill, AttachedExit,
     TmuxPoll
<1>9. CASE Interrupt
  BY <1>9 DEF Interrupt, Forget
<1>10. CASE Collect
  BY <1>10 DEF Collect, Forget
<1>11. CASE Ended \/ UNCHANGED vars
  BY <1>11 DEF Ended
<1> QED BY <1>1, <1>2, <1>3, <1>4, <1>5, <1>6, <1>7, <1>8, <1>9, <1>10, <1>11 DEF Moved, Next,
    Runner

\* Every step that reads output restarts the silence, and only the clock adds to it.
LEMMA ClockStep ==
  ASSUME cfg \in Configurations, cfg'.runner = cfg.runner, ClockInv, Moved PROVE ClockInv'
<1> USE RunAssumption DEF vars, procVars, scanVars, timeVars, endVars, runVars, ClockInv,
    Headless, Guarded
<1>1. CASE GateOpens \/ ScheduleResume \/ ResumeFires \/ GateInterrupted \/
           Spawn \/ (\E c \in {143, Abort75, 127} : SpawnRefused(c)) \/ RecordFails \/ Retry \/
           SubmitOnce
  BY <1>1 DEF GateOpens, ScheduleResume, ResumeFires, GateInterrupted, Spawn, SpawnRefused,
     RecordFails, Retry, SubmitOnce
<1>2. CASE (\E k \in Kinds : Emit(k)) \/ CloseOutput \/ (\E c \in {0, 1, Abort75} : ProviderExits(c)) \/ StationGone
  BY <1>2 DEF Emit, CloseOutput, ProviderExits, StationGone
<1>3. CASE Tick
  BY <1>3 DEF Tick, Lower
<1>4. CASE PtyRead \/ PtyQuiet
  BY <1>4 DEF PtyRead, PtyQuiet
<1>5. CASE ClaudeRead
  BY <1>5 DEF ClaudeRead, GuardRead, NoteOutput
<1>6. CASE ExactRead
  BY <1>6 DEF ExactRead, GuardRead, NoteOutput
<1>7. CASE LoopOverdue \/ GuardEOF \/ PtyEOF \/ PtyReap \/
           PtyDrain \/ Terminate \/ Kill \/ AttachedExit \/
           TmuxPoll
  BY <1>7 DEF LoopOverdue, GuardEOF, PtyEOF, PtyReap, PtyDrain, Terminate, Kill, AttachedExit,
     TmuxPoll
<1>8. CASE Interrupt
  BY <1>8 DEF Interrupt, Forget
<1>9. CASE Collect
  BY <1>9 DEF Collect, Forget
<1>10. CASE Ended \/ UNCHANGED vars
  BY <1>10 DEF Ended
<1> QED BY <1>1, <1>2, <1>3, <1>4, <1>5, <1>6, <1>7, <1>8, <1>9, <1>10 DEF Moved, Next, Runner

\* The windows of a stream runner only take in what is retained.
LEMMA ScanStep ==
  ASSUME cfg \in Configurations, cfg'.runner = cfg.runner, ScanInv, Moved PROVE ScanInv'
<1> USE DEF vars, procVars, scanVars, timeVars, endVars, runVars, ScanInv, Headless, Guarded
<1>1. CASE GateOpens \/ ScheduleResume \/ ResumeFires \/ GateInterrupted \/
           Spawn \/ (\E c \in {143, Abort75, 127} : SpawnRefused(c)) \/ RecordFails \/ Retry \/
           SubmitOnce
  BY <1>1 DEF GateOpens, ScheduleResume, ResumeFires, GateInterrupted, Spawn, SpawnRefused,
     RecordFails, Retry, SubmitOnce
<1>2. CASE (\E k \in Kinds : Emit(k)) \/ CloseOutput \/ (\E c \in {0, 1, Abort75} : ProviderExits(c)) \/ StationGone \/
           Tick
  BY <1>2 DEF Emit, CloseOutput, ProviderExits, StationGone, Tick
<1>3. CASE PtyRead \/ PtyQuiet
  BY <1>3 DEF PtyRead, PtyQuiet
<1>4. CASE ClaudeRead
  BY <1>4 DEF ClaudeRead, GuardRead, Windows, Retain, ClaudeScannable, Scanned
<1>5. CASE ExactRead
  BY <1>5 DEF ExactRead, GuardRead, Windows, Retain, CodexScannable, Scanned
<1>6. CASE LoopOverdue \/ GuardEOF \/ PtyEOF \/ PtyReap \/
           PtyDrain \/ Terminate \/ Kill \/ AttachedExit \/
           TmuxPoll
  BY <1>6 DEF LoopOverdue, GuardEOF, PtyEOF, PtyReap, PtyDrain, Terminate, Kill, AttachedExit,
     TmuxPoll
<1>7. CASE Interrupt
  BY <1>7 DEF Interrupt, Forget
<1>8. CASE Collect
  BY <1>8 DEF Collect, Forget
<1>9. CASE Ended \/ UNCHANGED vars
  BY <1>9 DEF Ended
<1> QED BY <1>1, <1>2, <1>3, <1>4, <1>5, <1>6, <1>7, <1>8, <1>9 DEF Moved, Next, Runner

\* The exit code is the dead process's own, or one of an abort or a timeout.
LEMMA ExitStep ==
  ASSUME cfg \in Configurations, cfg'.runner = cfg.runner, GoneInv, ExitInv, Moved
  PROVE  ExitInv'
<1> USE DEF vars, procVars, scanVars, timeVars, endVars, runVars, ExitInv, GoneInv, AfterPCs,
    EndingPCs, Headless, Guarded, Abort75, Timeout124, NoCode
<1>1. CASE GateOpens \/ ScheduleResume \/ ResumeFires \/ GateInterrupted \/
           Spawn \/ (\E c \in {143, Abort75, 127} : SpawnRefused(c)) \/ RecordFails \/ Retry \/
           SubmitOnce
  BY <1>1 DEF GateOpens, ScheduleResume, ResumeFires, GateInterrupted, Spawn, SpawnRefused,
     RecordFails, Retry, SubmitOnce
<1>2. CASE (\E k \in Kinds : Emit(k)) \/ CloseOutput \/ Tick
  BY <1>2 DEF Emit, CloseOutput, Tick
<1>3. CASE \E c \in {0, 1, Abort75} : ProviderExits(c)
  BY <1>3 DEF ProviderExits
<1>4. CASE StationGone
  BY <1>4 DEF StationGone
<1>5. CASE PtyRead \/ PtyQuiet
  BY <1>5 DEF PtyRead, PtyQuiet
<1>6. CASE ClaudeRead
  BY <1>6 DEF ClaudeRead, GuardRead
<1>7. CASE ExactRead
  BY <1>7 DEF ExactRead, GuardRead
<1>8. CASE GuardEOF \/ PtyEOF \/ Terminate \/ Kill \/
           AttachedExit \/ TmuxPoll
  BY <1>8 DEF GuardEOF, PtyEOF, Terminate, Kill, AttachedExit, TmuxPoll
<1>9. CASE LoopOverdue
  BY <1>9 DEF LoopOverdue, Overdue
<1>10. CASE PtyReap
  BY <1>10 DEF PtyReap, PtyCode
<1>11. CASE PtyDrain
  BY <1>11 DEF PtyDrain, PtyCode
<1>12. CASE Interrupt
  BY <1>12 DEF Interrupt, Forget
<1>13. CASE Collect
  BY <1>13 DEF Collect, Forget, Reported
<1>14. CASE Ended \/ UNCHANGED vars
  BY <1>14 DEF Ended
<1> QED BY <1>1, <1>2, <1>3, <1>4, <1>5, <1>6, <1>7, <1>8, <1>9, <1>10, <1>11, <1>12, <1>13,
    <1>14 DEF Moved, Next, Runner

\* An abort for idleness or for a question follows that much silence.
LEMMA SilenceStep ==
  ASSUME cfg \in Configurations, ClockInv, Moved PROVE AbortIsForSilence
<1> USE RunAssumption DEF vars, procVars, scanVars, timeVars, endVars, runVars,
    AbortIsForSilence, ClockInv, Headless, Guarded, Runners, Configurations
<1>1. CASE GateOpens \/ ScheduleResume \/ ResumeFires \/ GateInterrupted \/
           Spawn \/ (\E c \in {143, Abort75, 127} : SpawnRefused(c)) \/ RecordFails \/ Retry \/
           SubmitOnce
  BY <1>1 DEF GateOpens, ScheduleResume, ResumeFires, GateInterrupted, Spawn, SpawnRefused,
     RecordFails, Retry, SubmitOnce
<1>2. CASE (\E k \in Kinds : Emit(k)) \/ CloseOutput \/ (\E c \in {0, 1, Abort75} : ProviderExits(c)) \/ StationGone \/
           Tick
  BY <1>2 DEF Emit, CloseOutput, ProviderExits, StationGone, Tick
<1>3. CASE PtyRead \/ PtyQuiet
  BY <1>3 DEF PtyRead, PtyQuiet
<1>4. CASE ClaudeRead
  BY <1>4 DEF ClaudeRead, GuardRead
<1>5. CASE ExactRead
  BY <1>5 DEF ExactRead, GuardRead
<1>6. CASE GuardEOF \/ PtyEOF \/ PtyReap \/ PtyDrain \/
           Interrupt \/ Terminate \/ Kill \/ Collect \/
           AttachedExit \/ TmuxPoll
  BY <1>6 DEF GuardEOF, PtyEOF, PtyReap, PtyDrain, Interrupt, Terminate, Kill, Collect,
     AttachedExit, TmuxPoll
<1>7. CASE LoopOverdue
  BY <1>7 DEF LoopOverdue, Overdue
<1>8. CASE Ended \/ UNCHANGED vars
  BY <1>8 DEF Ended
<1> QED BY <1>1, <1>2, <1>3, <1>4, <1>5, <1>6, <1>7, <1>8 DEF Moved, Next, Runner

\* An abort for a prompt follows one that was printed.
LEMMA PromptStep ==
  ASSUME cfg \in Configurations, cfg'.runner = cfg.runner, ScanInv, PromptIsTheProviders, Moved
  PROVE  PromptIsTheProviders'
<1> USE DEF vars, procVars, scanVars, timeVars, endVars, runVars, ScanInv,
    PromptIsTheProviders, Headless, Guarded
<1>1. CASE GateOpens \/ ScheduleResume \/ ResumeFires \/ GateInterrupted \/
           Spawn \/ (\E c \in {143, Abort75, 127} : SpawnRefused(c)) \/ RecordFails \/ Retry \/
           SubmitOnce
  BY <1>1 DEF GateOpens, ScheduleResume, ResumeFires, GateInterrupted, Spawn, SpawnRefused,
     RecordFails, Retry, SubmitOnce
<1>2. CASE (\E k \in Kinds : Emit(k)) \/ CloseOutput \/ (\E c \in {0, 1, Abort75} : ProviderExits(c)) \/ StationGone \/
           Tick
  BY <1>2 DEF Emit, CloseOutput, ProviderExits, StationGone, Tick
<1>3. CASE PtyRead \/ PtyQuiet
  BY <1>3 DEF PtyRead, PtyQuiet
<1>4. CASE ClaudeRead
  <2> DEFINE k == ClaudeScannable(chunk)
  <2>1. k \in {chunk, "text"} /\ cfg.runner \in Guarded
    BY <1>4 DEF ClaudeRead, ClaudeScannable
  <2>2. PICK w \in Windows(k) : NoteOutput(k, w).blocking \/ reason' = reason
    BY <1>4 DEF ClaudeRead, GuardRead
  <2>3. out' = out \cup {chunk}
    BY <1>4 DEF ClaudeRead, GuardRead, Retain
  <2> QED BY <2>1, <2>2, <2>3, SeenIsPrinted
<1>5. CASE ExactRead
  <2> DEFINE k == CodexScannable(chunk)
  <2>1. k \in {chunk, "text"} /\ cfg.runner \in Guarded
    BY <1>5 DEF ExactRead, CodexScannable
  <2>2. PICK w \in Windows(k) : NoteOutput(k, w).blocking \/ reason' = reason
    BY <1>5 DEF ExactRead, GuardRead
  <2>3. out' = out \cup {chunk}
    BY <1>5 DEF ExactRead, GuardRead, Retain
  <2> QED BY <2>1, <2>2, <2>3, SeenIsPrinted
<1>6. CASE GuardEOF \/ PtyEOF \/ PtyReap \/ PtyDrain \/
           Terminate \/ Kill \/ AttachedExit \/ TmuxPoll
  BY <1>6 DEF GuardEOF, PtyEOF, PtyReap, PtyDrain, Terminate, Kill, AttachedExit, TmuxPoll
<1>7. CASE LoopOverdue
  BY <1>7 DEF LoopOverdue, Overdue
<1>8. CASE Interrupt
  BY <1>8 DEF Interrupt, Forget
<1>9. CASE Collect
  BY <1>9 DEF Collect, Forget
<1>10. CASE Ended \/ UNCHANGED vars
  BY <1>10 DEF Ended
<1> QED BY <1>1, <1>2, <1>3, <1>4, <1>5, <1>6, <1>7, <1>8, <1>9, <1>10 DEF Moved, Next, Runner

\* A timeout gives way to the code of a provider that ended by itself.
LEMMA ExitIsStep ==
  ASSUME cfg \in Configurations, cfg'.runner = cfg.runner, GoneInv, ExitInv, ExitIsTheProviders, Moved
  PROVE  ExitIsTheProviders'
<1> USE DEF vars, procVars, scanVars, timeVars, endVars, runVars, GoneInv, ExitInv,
    ExitIsTheProviders, Headless, Guarded, AfterPCs, EndingPCs, Abort75, Timeout124
<1>1. CASE GateOpens \/ ScheduleResume \/ ResumeFires \/ GateInterrupted \/
           Spawn \/ (\E c \in {143, Abort75, 127} : SpawnRefused(c)) \/ RecordFails \/ Retry \/
           SubmitOnce
  BY <1>1 DEF GateOpens, ScheduleResume, ResumeFires, GateInterrupted, Spawn, SpawnRefused,
     RecordFails, Retry, SubmitOnce
<1>2. CASE (\E k \in Kinds : Emit(k)) \/ CloseOutput \/ (\E c \in {0, 1, Abort75} : ProviderExits(c)) \/ StationGone \/
           Tick
  BY <1>2 DEF Emit, CloseOutput, ProviderExits, StationGone, Tick
<1>3. CASE PtyRead \/ PtyQuiet
  BY <1>3 DEF PtyRead, PtyQuiet
<1>4. CASE ClaudeRead
  BY <1>4 DEF ClaudeRead, GuardRead
<1>5. CASE ExactRead
  BY <1>5 DEF ExactRead, GuardRead
<1>6. CASE LoopOverdue \/ GuardEOF \/ PtyEOF \/ PtyReap \/
           PtyDrain \/ Interrupt \/ Terminate \/ Kill \/
           AttachedExit \/ TmuxPoll
  BY <1>6 DEF LoopOverdue, GuardEOF, PtyEOF, PtyReap, PtyDrain, Interrupt, Terminate, Kill,
     AttachedExit, TmuxPoll
<1>7. CASE Collect
  BY <1>7 DEF Collect, Forget, Reported
<1>8. CASE Ended \/ UNCHANGED vars
  BY <1>8 DEF Ended
<1> QED BY <1>1, <1>2, <1>3, <1>4, <1>5, <1>6, <1>7, <1>8 DEF Moved, Next, Runner

\* submit_once takes for a success only a 0 of the provider without spent credit.
LEMMA SuccessStep ==
  ASSUME cfg \in Configurations, cfg'.runner = cfg.runner, ExitInv, SuccessIsEarned, Moved
  PROVE  SuccessIsEarned'
<1> USE DEF vars, procVars, scanVars, timeVars, endVars, runVars, ExitInv, SuccessIsEarned,
    Headless, Guarded, Configurations, Runners, NoCode, Abort75, Declined76
<1>1. CASE GateOpens \/ ScheduleResume \/ ResumeFires \/ GateInterrupted \/
           Spawn \/ (\E c \in {143, Abort75, 127} : SpawnRefused(c)) \/ RecordFails \/ Retry
  BY <1>1 DEF GateOpens, ScheduleResume, ResumeFires, GateInterrupted, Spawn, SpawnRefused,
     RecordFails, Retry
<1>2. CASE SubmitOnce
  BY <1>2 DEF SubmitOnce, Outcome, CreditExhausted, Sidecar, Class, Retryable
<1>3. CASE (\E k \in Kinds : Emit(k)) \/ CloseOutput \/ (\E c \in {0, 1, Abort75} : ProviderExits(c)) \/ StationGone \/
           Tick
  BY <1>3 DEF Emit, CloseOutput, ProviderExits, StationGone, Tick
<1>4. CASE PtyRead \/ PtyQuiet
  BY <1>4 DEF PtyRead, PtyQuiet
<1>5. CASE ClaudeRead
  BY <1>5 DEF ClaudeRead, GuardRead
<1>6. CASE ExactRead
  BY <1>6 DEF ExactRead, GuardRead
<1>7. CASE LoopOverdue \/ GuardEOF \/ PtyEOF \/ PtyReap \/
           PtyDrain \/ Interrupt \/ Terminate \/ Kill \/
           Collect \/ AttachedExit \/ TmuxPoll
  BY <1>7 DEF LoopOverdue, GuardEOF, PtyEOF, PtyReap, PtyDrain, Interrupt, Terminate, Kill,
     Collect, AttachedExit, TmuxPoll
<1>8. CASE Ended \/ UNCHANGED vars
  BY <1>8 DEF Ended
<1> QED BY <1>1, <1>2, <1>3, <1>4, <1>5, <1>6, <1>7, <1>8 DEF Moved, Next, Runner

\* submit_once sets or clears the block of the route with its result.
LEMMA BlockStep ==
  ASSUME cfg \in Configurations, cfg'.runner = cfg.runner, ExitInv, BlockMatchesResult, Moved
  PROVE  BlockMatchesResult'
<1> USE DEF vars, procVars, scanVars, timeVars, endVars, runVars, ExitInv, BlockMatchesResult,
    NoCode, Abort75, Declined76
<1>1. CASE GateOpens \/ ScheduleResume \/ ResumeFires \/ GateInterrupted \/
           Spawn \/ (\E c \in {143, Abort75, 127} : SpawnRefused(c)) \/ RecordFails \/ Retry
  BY <1>1 DEF GateOpens, ScheduleResume, ResumeFires, GateInterrupted, Spawn, SpawnRefused,
     RecordFails, Retry
<1>2. CASE SubmitOnce
  BY <1>2 DEF SubmitOnce, Outcome, BlockAfter
<1>3. CASE (\E k \in Kinds : Emit(k)) \/ CloseOutput \/ (\E c \in {0, 1, Abort75} : ProviderExits(c)) \/ StationGone \/
           Tick
  BY <1>3 DEF Emit, CloseOutput, ProviderExits, StationGone, Tick
<1>4. CASE PtyRead \/ PtyQuiet
  BY <1>4 DEF PtyRead, PtyQuiet
<1>5. CASE ClaudeRead
  BY <1>5 DEF ClaudeRead, GuardRead
<1>6. CASE ExactRead
  BY <1>6 DEF ExactRead, GuardRead
<1>7. CASE LoopOverdue \/ GuardEOF \/ PtyEOF \/ PtyReap \/
           PtyDrain \/ Interrupt \/ Terminate \/ Kill \/
           Collect \/ AttachedExit \/ TmuxPoll
  BY <1>7 DEF LoopOverdue, GuardEOF, PtyEOF, PtyReap, PtyDrain, Interrupt, Terminate, Kill,
     Collect, AttachedExit, TmuxPoll
<1>8. CASE Ended \/ UNCHANGED vars
  BY <1>8 DEF Ended
<1> QED BY <1>1, <1>2, <1>3, <1>4, <1>5, <1>6, <1>7, <1>8 DEF Moved, Next, Runner

----------------------------------------------------------------------------
(* The theorems *)

LEMMA RunInit == Init => RunInv
<1> SUFFICES ASSUME Init PROVE RunInv
  OBVIOUS
<1>1. cfg \in Configurations
  BY RunAssumption DEF Init, Configurations
<1>2. GoneInv /\ ExitInv /\ ScanInv
  BY DEF Init, GoneInv, ExitInv, ScanInv, EndingPCs
<1>3. ClockInv
  BY RunAssumption DEF Init, ClockInv
<1>4. Truthful
  BY DEF Init, Truthful, SuccessIsEarned, ExitIsTheProviders, PromptIsTheProviders,
     BlockMatchesResult
<1> QED BY <1>1, <1>2, <1>3, <1>4 DEF RunInv

LEMMA RunStep == ASSUME RunInv, Moved PROVE RunInv' /\ AbortIsForSilence
<1>1. cfg' \in Configurations /\ cfg'.runner = cfg.runner
  BY ConfigStep DEF RunInv
<1>2. GoneInv' /\ ClockInv' /\ ScanInv' /\ ExitInv'
  BY <1>1, GoneStep, ClockStep, ScanStep, ExitStep DEF RunInv
<1>3. Truthful'
  BY <1>1, SuccessStep, ExitIsStep, PromptStep, BlockStep DEF RunInv, Truthful
<1>4. AbortIsForSilence
  BY SilenceStep DEF RunInv
<1> QED BY <1>1, <1>2, <1>3, <1>4 DEF RunInv

LEMMA RunInvariant == Spec => []RunInv
<1>1. RunInv /\ [Next]_vars => RunInv'
  BY RunStep DEF Moved
<1> QED BY <1>1, RunInit, PTL DEF Spec

\* Whatever ends the watch over a provider that is not in a user's own pane, the
\* process is gone before the next attempt starts or the result is handed on, for
\* every runner, every limit and any number of retries.
THEOREM NoSurvivorHolds == Spec => []NoSurvivor
<1>1. RunInv => NoSurvivor
  BY DEF RunInv, GoneInv, NoSurvivor, AfterPCs
<1> QED BY <1>1, RunInvariant, PTL

\* The success, the exit, the reason of an abort and the block of the route that a
\* run reports are what happened, whatever the provider prints and does.
THEOREM ResultIsTruthfulHolds == Spec => ResultIsTruthful
<1>1. RunInv /\ [Next]_vars =>
        [AbortIsForSilence /\ (SuccessIsEarned /\ ExitIsTheProviders /\ PromptIsTheProviders /\ BlockMatchesResult)']_vars
  BY RunStep DEF Moved, RunInv, Truthful
<1> QED BY <1>1, RunInvariant, PTL DEF Spec, ResultIsTruthful
=============================================================================

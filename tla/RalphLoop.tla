------------------------------ MODULE RalphLoop ------------------------------
(***************************************************************************)
(* The persistent rotation loop of ralph_robin.main, with the scheduler    *)
(* run it makes inline, the route blocks that run leaves behind, and the   *)
(* state file that survives a crash.                                       *)
(*                                                                         *)
(* Time is kept as what is left of every timer, so the loop may run for    *)
(* ever in a finite model.  A tick of `wait`, of a doze or of a run lowers *)
(* the wall clock and the monotonic timers together; a suspended machine   *)
(* lowers the wall-clock timers only, because CLOCK_MONOTONIC stands still *)
(* while the kernel sleeps.                                                *)
(***************************************************************************)
EXTENDS Integers, FiniteSets, FiniteSetsExt

CONSTANTS
    N,              \* entries in the rotation
    Flaky,          \* entries whose usage reader sometimes fails
    MaxReset,       \* how far ahead a spent window renews
    Backoff,        \* routes.default_backoff_seconds
    Poll,           \* --poll-interval
    MaxUnavailable, \* --max-unavailable-wait
    Retries,        \* entries of --retry-delays
    MinIteration,   \* --min-iteration-seconds
    MaxIterations,  \* --max-iterations, 0 for none
    MaxDuration,    \* the longest --max-duration
    FastStreak,     \* FAST_SUCCESS_ABORT_STREAK
    HardStreak,     \* HARD_FAIL_ABORT_STREAK
    MaxSuspends,    \* LLM_RALPH_MAX_SUSPENDS, 0 for no limit
    MinAwake,       \* LLM_RALPH_MIN_AWAKE_SECONDS
    MaxFaults,      \* bound on crashes and on requests of the operator
    Configurations  \* the configurations a run is started with

Idx == 0 .. N - 1

\* An empty or cut-off state file: written for no rotation at all.
Torn == [spec |-> 0, index |-> 0, counts |-> [i \in Idx |-> 0]]

ASSUME RalphAssumption ==
    /\ N \in Nat \ {0} /\ Flaky \subseteq Idx
    /\ {MaxReset, Backoff, Poll, MinIteration, FastStreak, HardStreak} \subseteq Nat \ {0}
    /\ {MaxUnavailable, Retries, MaxIterations, MaxDuration} \subseteq Nat
    /\ {MaxSuspends, MinAwake, MaxFaults} \subseteq Nat
    /\ Configurations \subseteq [routes : BOOLEAN, evenBurn : BOOLEAN, bridged : BOOLEAN,
                              duration : 0 .. MaxDuration, spec : {1}, opaque : SUBSET (Idx \ Flaky)]

VARIABLES
    cfg,        \* routes or providers, even burn, Bridge hooks, --max-duration (0:
                \* none), the rotation spec and its entries of opaque capacity
    pc,         \* where the loop is
    idx,        \* current_index
    skipped,    \* entries set aside in this pass
    counts,     \* completed_counts
    completed,  \* iterations completed by this process
    streak,     \* fast successes and hard failures in a row
    sel,        \* the selected index
    left,       \* what is left of the current wait, doze or retry delay
    since,      \* how long the usage of `sel` has been undetermined, -1 for not
    attempt,    \* attempts made by the scheduler in this iteration
    ran,        \* how long the run has taken
    status,     \* what run_scheduler_inline returned, or the loop's exit code
    budget,     \* what is left of --max-duration on the monotonic clock
    sleep,      \* SuspendState: suspends, time awake since the last, disabled
    saved,      \* the state file
    reset,      \* per entry: ticks until its spent window renews
    block,      \* per entry: ticks until its local block expires
    dark,       \* entries whose usage cannot be read now
    done,       \* per entry: runs that really succeeded
    steady,     \* opaque entries that have been usable throughout this process
    faults      \* crashes and requests of the operator so far

\* Entries whose capacity cannot be ranked.
Opaque == cfg.opaque

loopVars == <<cfg, idx, skipped, counts, completed, streak, sel, budget, sleep, saved>>
runVars == <<left, since, attempt, ran, status>>
envVars == <<reset, block, dark, done, steady, faults>>
vars == <<loopVars, pc, runVars, envVars>>

PCs == {"top", "save", "blocked", "launch", "usable", "doze", "run", "retry",
        "exit", "commit", "wait", "ended", "down"}
Less(t, d) == IF t > d THEN t - d ELSE 0

-----------------------------------------------------------------------------
(* What the rotation reads about its entries *)

\* A block whose time has passed is no block.
LocallyBlocked(i) == cfg.routes /\ block[i] > 0

\* The block replaces whatever the capacity reading says; only an opaque route
\* reports it as "blocked", the others by the reason it was recorded with.
BlockDecision(i) ==
    [usable |-> FALSE, wait |-> block[i],
     reason |-> IF i \in Opaque THEN "blocked" ELSE "runtime-failure"]

\* What decide makes of the reading: unreadable, spent until a reset, or usable.
CapacityDecision(i) ==
    CASE i \in dark -> [usable |-> FALSE, wait |-> Poll, reason |-> "inconclusive-usage"]
      [] i \notin dark /\ reset[i] > 0 -> [usable |-> FALSE, wait |-> reset[i], reason |-> "rate-limited"]
      [] OTHER -> [usable |-> TRUE, wait |-> 0, reason |-> "usable"]

Decision(i) == IF LocallyBlocked(i) THEN BlockDecision(i) ELSE CapacityDecision(i)

\* Reasons that anchor a wait of the whole rotation.
BlockedReasons == IF cfg.routes THEN {"rate-limited", "blocked"} ELSE {"rate-limited"}

\* Position of i in the rotation that starts at cur.
Rank(i, cur) == (i - cur + N) % N
First(S, cur) == CHOOSE i \in S : \A j \in S : Rank(i, cur) <= Rank(j, cur)

\* Mutant: the first usable entry, whatever it has completed.
FairByPosition(usable, n, cur, score) == First(usable, cur)

\* The best even-burn score; the earlier entry in rotation order on a tie.
EvenBurn(S, cur, score) ==
    CHOOSE i \in S : \A j \in S :
        score[i] > score[j] \/ (score[i] = score[j] /\ Rank(i, cur) <= Rank(j, cur))

\* Least-completed usable entries first; among several rankable ones the best score.
MixedCapacityFair(usable, n, cur, score) ==
    LET least == {i \in usable : \A j \in usable : n[i] <= n[j]}
    IN  IF Cardinality(least \ Opaque) >= 2 THEN EvenBurn(least \ Opaque, cur, score)
        ELSE First(least, cur)

\* Which of several usable entries runs.
ReadySelection(usable, n, cur, score) ==
    CASE ~cfg.evenBurn -> First(usable, cur)
      [] cfg.evenBurn /\ usable \ Opaque # {} /\ usable \cap Opaque # {} ->
           MixedCapacityFair(usable, n, cur, score)
      [] cfg.evenBurn /\ usable \cap Opaque = {} -> EvenBurn(usable, cur, score)
      [] OTHER -> First(usable, cur)

Run(i) == [index |-> i, limited |-> FALSE]

\* The first of the entries with the earliest known recovery.
SoonestBlocked(S) ==
    [limited |-> TRUE,
     index |-> CHOOSE i \in S : \A j \in S :
                 \/ Decision(i).wait < Decision(j).wait
                 \/ Decision(i).wait = Decision(j).wait /\ i <= j]

\* Nothing is usable in provider mode: an unmeasured provider is tried first,
\* and only a rotation that is blocked throughout waits.
ProviderFallback(active, blocked, cur) ==
    CASE active \ blocked # {} -> Run(First(active \ blocked, cur))
      [] active \ blocked = {} /\ blocked # {} -> SoonestBlocked(blocked)
      [] OTHER -> Run(-1)

\* Nothing is usable in route mode: one blocked route makes the rotation wait.
RouteFallback(active, blocked, cur) ==
    CASE blocked # {} -> SoonestBlocked(blocked)
      [] blocked = {} /\ active # {} -> Run(First(active, cur))
      [] OTHER -> Run(-1)

\* Mutant: a rotation with a blocked entry waits even if another is usable.
SelectionImpatient(skip, n, cur, score) ==
    LET active == Idx \ skip
        usable == {i \in active : Decision(i).usable}
        blocked == {i \in active : Decision(i).reason \in BlockedReasons}
    IN  CASE blocked # {} -> SoonestBlocked(blocked)
          [] blocked = {} /\ usable # {} -> Run(ReadySelection(usable, n, cur, score))
          [] OTHER -> RouteFallback(active, blocked, cur)

\* Index to run and whether the whole rotation has to wait instead; -1 for none.
Selection(skip, n, cur, score) ==
    LET active == Idx \ skip
        usable == {i \in active : Decision(i).usable}
        blocked == {i \in active : Decision(i).reason \in BlockedReasons}
    IN  CASE usable # {} -> Run(ReadySelection(usable, n, cur, score))
          [] usable = {} /\ cfg.routes -> RouteFallback(active, blocked, cur)
          [] OTHER -> ProviderFallback(active, blocked, cur)

\* The earliest recovery among all entries, skipped ones included; else one poll.
SoonestWaitUntil ==
    LET waits == {Decision(i).wait : i \in Idx} \ {0}
    IN  IF waits = {} THEN Poll ELSE Min(waits)

-----------------------------------------------------------------------------
(* Time *)

Elapse(d) ==
    /\ reset' = [i \in Idx |-> Less(reset[i], d)]
    /\ block' = [i \in Idx |-> Less(block[i], d)]

\* One tick of a machine that is awake.
Tick ==
    /\ Elapse(1)
    /\ budget' = Less(budget, 1)
    /\ sleep' = [sleep EXCEPT !.awake = Min({MinAwake, @ + 1})]

NoTime == UNCHANGED <<reset, block, budget, sleep>>
OutOfTime == cfg.duration > 0 /\ budget = 0
Capped(t) == IF cfg.duration > 0 THEN Min({t, budget}) ELSE t

Interrupted ==
    /\ cfg.bridged
    /\ faults < MaxFaults
    /\ faults' = faults + 1

-----------------------------------------------------------------------------
(* Start, crash and restart *)

\* The file counts only when it was written for the rotation now configured.
Readable(file) == file.spec = cfg.spec
CurrentIndexFromState(file) == IF Readable(file) THEN file.index ELSE 0
CompletedCountsFromState(file) == IF Readable(file) THEN file.counts ELSE [i \in Idx |-> 0]

NewSuspendState == [suspends |-> 0, awake |-> MinAwake, disabled |-> FALSE]
NoStreak == [fast |-> 0, hard |-> 0]

Init ==
    /\ cfg \in Configurations
    /\ pc = "top" /\ idx = 0 /\ skipped = {} /\ counts = [i \in Idx |-> 0]
    /\ completed = 0 /\ streak = NoStreak /\ sel = 0 /\ budget = cfg.duration
    /\ sleep = NewSuspendState /\ saved = Torn
    /\ left = 0 /\ since = -1 /\ attempt = 0 /\ ran = 0 /\ status = 0
    /\ reset \in {f \in [Idx -> {0, MaxReset}] : \A i \in Opaque : f[i] = 0}
    /\ block = [i \in Idx |-> 0] /\ dark = {} /\ done = [i \in Idx |-> 0]
    /\ steady = Opaque /\ faults = 0

Crash ==
    /\ pc \notin {"ended", "down"}
    /\ faults < MaxFaults
    /\ pc' = "down"
    /\ faults' = faults + 1
    /\ idx' = 0 /\ counts' = [i \in Idx |-> 0] /\ steady' = {}
    /\ skipped' = {} /\ completed' = 0 /\ streak' = NoStreak /\ sel' = 0
    /\ budget' = cfg.duration /\ sleep' = NewSuspendState
    /\ left' = 0 /\ since' = -1 /\ attempt' = 0 /\ ran' = 0 /\ status' = 0
    /\ UNCHANGED <<cfg, saved, reset, block, dark, done>>

Restart ==
    /\ pc = "down"
    /\ pc' = "top"
    /\ idx' = CurrentIndexFromState(saved)
    /\ counts' = CompletedCountsFromState(saved)
    /\ UNCHANGED <<cfg, skipped, completed, streak, sel, budget, sleep, saved, runVars, envVars>>

-----------------------------------------------------------------------------
(* The head of the loop *)

\* The time budget is success only if some iteration completed.
StopTimedOut ==
    /\ pc' = "ended"
    /\ status' = IF completed > 0 THEN 0 ELSE 75
    /\ UNCHANGED <<loopVars, left, since, attempt, ran, envVars>>

TimedOut == pc = "top" /\ OutOfTime /\ StopTimedOut

\* before_iteration answers stop.
BridgeStop ==
    /\ pc = "top" /\ ~OutOfTime
    /\ Interrupted
    /\ pc' = "ended" /\ status' = 0
    /\ UNCHANGED <<loopVars, left, since, attempt, ran, reset, block, dark, done, steady>>

\* A valid rotation replaces the one in use (an invalid one leaves it alone).
ReloadRotation ==
    /\ Interrupted
    /\ cfg' = [cfg EXCEPT !.spec = 3 - @]
    /\ steady' = {}

\* One pass over the head: a pending rotation resets the loop, then the
\* selection is made; `left` keeps the wait it computed for the whole rotation.
\* save_state truncates the file before it writes it.
Select(reload, score) ==
    LET cur == IF reload THEN 0 ELSE idx
        skip == IF reload THEN {} ELSE skipped
        n == IF reload THEN [i \in Idx |-> 0] ELSE counts
        choice == Selection(skip, n, cur, score)
    IN  /\ pc = "top" /\ ~OutOfTime
        /\ IF reload THEN ReloadRotation ELSE UNCHANGED <<cfg, faults, steady>>
        /\ idx' = cur /\ skipped' = skip /\ counts' = n
        /\ sel' = choice.index
        /\ left' = SoonestWaitUntil
        /\ IF choice.index = -1
           THEN pc' = "blocked" /\ UNCHANGED saved
           ELSE pc' = "save" /\ saved' = Torn
        /\ status' = IF choice.limited THEN 1 ELSE 0
        /\ UNCHANGED <<completed, streak, since, attempt, ran, reset, block, dark, done>>
        /\ UNCHANGED <<budget, sleep>>

\* Mutant: the iteration is counted before it is known to have succeeded.
StateFileEarly == [spec |-> cfg.spec, index |-> sel, counts |-> [counts EXCEPT ![sel] = @ + 1]]

StateFile == [spec |-> cfg.spec, index |-> sel, counts |-> counts]

\* The write ends: the machine-wide wait follows, or the launch.
SaveState ==
    /\ pc = "save"
    /\ saved' = StateFile
    /\ pc' = IF status = 1 THEN "blocked" ELSE "launch"
    /\ status' = 0
    /\ UNCHANGED <<cfg, idx, skipped, counts, completed, streak, sel, budget, sleep>>
    /\ UNCHANGED <<left, since, attempt, ran, envVars>>

-----------------------------------------------------------------------------
(* suspend_until_available and suspend_machine_until *)

\* Why the machine must stay awake now.
SuspendBlocked ==
    \/ sleep.disabled
    \/ MaxSuspends > 0 /\ sleep.suspends >= MaxSuspends
    \/ sleep.awake < MinAwake

\* The loop goes on after a wait with a clean slate of skipped entries.
Resume == pc' = "top" /\ skipped' = {} /\ left' = 0 /\ sel' = 0

WaitTimedOut == pc = "blocked" /\ OutOfTime /\ StopTimedOut

\* The operator's boundary request ends the wait before it begins, or during it.
WaitInterrupted ==
    /\ pc \in {"blocked", "wait"} /\ ~(pc = "blocked" /\ OutOfTime)
    /\ Interrupted
    /\ Resume
    /\ UNCHANGED <<cfg, idx, counts, completed, streak, budget, sleep, saved>>
    /\ UNCHANGED <<since, attempt, ran, status, reset, block, dark, done, steady>>

\* Every awake branch: not allowed, churn guard, no shared wake, or a suspend
\* that did not happen; a backend that cannot arm a wake disables suspending.
WaitAwake(disable) ==
    /\ pc = "blocked" /\ ~OutOfTime
    /\ disable => ~SuspendBlocked
    /\ pc' = "wait"
    /\ left' = Capped(left)
    /\ sleep' = [sleep EXCEPT !.disabled = @ \/ disable]
    /\ UNCHANGED <<cfg, idx, skipped, counts, completed, streak, sel, budget, saved>>
    /\ UNCHANGED <<since, attempt, ran, status, envVars>>

\* The machine slept for d ticks; a wake off its target is unreliable.
Suspend(d) ==
    /\ pc = "blocked" /\ ~OutOfTime
    /\ ~SuspendBlocked
    /\ Elapse(d)
    /\ sleep' = [suspends |-> IF MaxSuspends > 0 THEN sleep.suspends + 1 ELSE 0,
                 awake |-> 0, disabled |-> d # Capped(left)]
    /\ Resume
    /\ UNCHANGED <<cfg, idx, counts, completed, streak, budget, saved>>
    /\ UNCHANGED <<since, attempt, ran, status, dark, done, steady, faults>>

WaitUntilEpoch ==
    /\ pc = "wait"
    /\ IF left > 0
       THEN Tick /\ left' = left - 1 /\ UNCHANGED <<pc, skipped, sel>>
       ELSE NoTime /\ Resume
    /\ UNCHANGED <<cfg, idx, counts, completed, streak, saved>>
    /\ UNCHANGED <<since, attempt, ran, status, dark, done, steady, faults>>

-----------------------------------------------------------------------------
(* One scheduler run, inline *)

\* before_launch may decline for the Bridge; else the scheduler takes over.
Launch ==
    /\ pc = "launch"
    /\ \/ pc' = "usable" /\ UNCHANGED <<sel, faults>>
       \/ pc' = "top" /\ sel' = 0 /\ Interrupted
    /\ since' = -1 /\ attempt' = 0 /\ ran' = 0 /\ left' = 0
    /\ UNCHANGED <<cfg, idx, skipped, counts, completed, streak, budget, sleep, saved>>
    /\ UNCHANGED <<status, reset, block, dark, done, steady>>

\* Mutant: an entry that cannot be measured is waited for without a limit.
WaitForMeasurement ==
    /\ pc = "usable"
    /\ IF Decision(sel).usable
       THEN pc' = "run" /\ attempt' = 1 /\ UNCHANGED left
       ELSE pc' = "doze" /\ left' = Decision(sel).wait /\ UNCHANGED attempt
    /\ UNCHANGED <<loopVars, since, ran, status, envVars>>

\* wait_until_usable reads the selected entry again.
WaitUntilUsable ==
    LET d == Decision(sel)
        undetermined == d.reason # "rate-limited"
        waited == IF since = -1 THEN 0 ELSE since
    IN  /\ pc = "usable"
        /\ IF d.usable \/ (undetermined /\ MaxUnavailable > 0 /\ waited >= MaxUnavailable)
           THEN pc' = "run" /\ attempt' = 1 /\ since' = -1 /\ UNCHANGED left
           ELSE /\ pc' = "doze" /\ left' = d.wait
                /\ since' = IF undetermined THEN waited ELSE -1
                /\ UNCHANGED attempt
        /\ UNCHANGED <<loopVars, ran, status, envVars>>

\* _sleep_interruptibly: before a read of usage, or between two attempts.
SleepInterruptibly ==
    /\ pc \in {"doze", "retry"}
    /\ IF left > 0
       THEN /\ Tick /\ left' = left - 1 /\ UNCHANGED <<pc, attempt>>
            /\ since' = IF pc = "doze" /\ since >= 0 THEN Min({MaxUnavailable, since + 1}) ELSE since
       ELSE /\ NoTime /\ UNCHANGED <<left, since>>
            /\ pc' = IF pc = "doze" THEN "usable" ELSE "run"
            /\ attempt' = IF pc = "doze" THEN attempt ELSE attempt + 1
    /\ UNCHANGED <<cfg, idx, skipped, counts, completed, streak, sel, saved>>
    /\ UNCHANGED <<ran, status, dark, done, steady, faults>>

SleepInterrupted ==
    /\ pc \in {"doze", "retry"}
    /\ Interrupted
    /\ pc' = "exit" /\ status' = 143
    /\ UNCHANGED <<loopVars, left, since, attempt, ran, reset, block, dark, done, steady>>

\* The command line is too long for exec.
LaunchRefused ==
    /\ pc = "run" /\ attempt = 1 /\ ran = 0
    /\ pc' = "exit" /\ status' = 78
    /\ UNCHANGED <<loopVars, left, since, attempt, ran, envVars>>

RunTick ==
    /\ pc = "run" /\ ran < MinIteration
    /\ Tick /\ ran' = ran + 1
    /\ UNCHANGED <<pc, cfg, idx, skipped, counts, completed, streak, sel, saved>>
    /\ UNCHANGED <<left, since, attempt, status, dark, done, steady, faults>>

\* What one attempt did to the capacity of its entry.
Spend(spent) ==
    reset' = IF spent /\ sel \notin Opaque THEN [reset EXCEPT ![sel] = MaxReset] ELSE reset

\* submit_once: a clean exit clears the block of the route, every failure that
\* names the route records one; only a failure is tried again.
SubmitOnce(outcome, spent) ==
    LET fails == outcome \in {"failed", "not-executable"}
    IN  /\ pc = "run"
        /\ Spend(spent)
        /\ block' = CASE outcome = "ok" /\ cfg.routes -> [block EXCEPT ![sel] = 0]
                      [] outcome \in {"failed", "not-executable", "abort", "credit"} /\ cfg.routes ->
                           [block EXCEPT ![sel] = Backoff]
                      [] OTHER -> block
        /\ done' = IF outcome = "ok" THEN [done EXCEPT ![sel] = @ + 1] ELSE done
        /\ steady' = IF outcome = "ok" THEN steady ELSE steady \ {sel}
        /\ IF outcome = "failed" /\ attempt <= Retries
           THEN pc' = "retry" /\ left' = 1 /\ UNCHANGED status
           ELSE /\ pc' = "exit" /\ UNCHANGED left
                /\ status' = CASE outcome = "ok" -> 0
                               [] outcome \in {"abort", "credit"} -> 75
                               [] outcome = "declined" -> 76
                               [] fails -> 1
        /\ UNCHANGED <<loopVars, since, attempt, ran, dark, faults>>

-----------------------------------------------------------------------------
(* What the loop makes of the status *)

\* The locals of one iteration go out of scope.
Iterated == since' = -1 /\ attempt' = 0 /\ ran' = 0 /\ sel' = 0

Exit(code) ==
    /\ pc' = "ended" /\ status' = code /\ left' = 0
    /\ UNCHANGED <<idx, skipped>>

Succeeded ==
    /\ pc = "exit" /\ status = 0
    /\ completed' = completed + 1
    /\ counts' = [counts EXCEPT ![sel] = @ + 1]
    /\ streak' = [streak EXCEPT !.hard = 0]
    /\ saved' = Torn
    /\ pc' = "commit"
    /\ UNCHANGED <<cfg, idx, skipped, sel, budget, sleep, runVars, envVars>>

\* The state is on disk; a run of instant successes is paced, then given up.
Commit ==
    LET fast == ran < MinIteration IN
    /\ pc = "commit"
    /\ saved' = StateFile
    /\ streak' = [streak EXCEPT !.fast = IF fast THEN @ + 1 ELSE 0]
    /\ CASE MaxIterations > 0 /\ completed >= MaxIterations -> NoTime /\ Exit(0)
         [] ~(MaxIterations > 0 /\ completed >= MaxIterations) /\ fast /\ streak.fast + 1 >= FastStreak ->
              NoTime /\ Exit(75)
         [] OTHER -> /\ IF fast THEN Tick ELSE NoTime
                     /\ idx' = sel /\ skipped' = {} /\ pc' = "top" /\ left' = 0
                     /\ UNCHANGED status
    /\ Iterated
    /\ UNCHANGED <<cfg, counts, completed, dark, done, steady, faults>>

\* Declined by the operator or refused: the Bridge has dealt with the task.
NotLaunched ==
    /\ pc = "exit" /\ status \in {76, 78}
    /\ IF cfg.bridged THEN pc' = "top" /\ left' = 0 /\ status' = 0 /\ UNCHANGED <<idx, skipped>>
       ELSE Exit(status)
    /\ Iterated
    /\ UNCHANGED <<cfg, counts, completed, streak, budget, sleep, saved, envVars>>

\* Mutant: the wait is for the last recovery instead of the first.
SuspendUntilAllAvailable == pc' = "blocked" /\ left' = Max({Decision(i).wait : i \in Idx} \cup {Poll})

\* Capacity is read again, since the failed run may have spent it.
SuspendUntilAvailable == pc' = "blocked" /\ left' = SoonestWaitUntil

NextIndex(i) == (i + 1) % N

\* An abort or a hard failure sets the entry aside; when all are, capacity is
\* read again and the loop waits.
RotateAway ==
    LET hard == status \notin {75}
        skip == skipped \cup {sel}
    IN  /\ pc = "exit" /\ status \in {1, 75, 143}
        /\ streak' = IF hard THEN [streak EXCEPT !.hard = @ + 1] ELSE streak
        /\ IF hard /\ streak.hard + 1 >= HardStreak
           THEN Exit(status)
           ELSE /\ skipped' = skip
                /\ status' = 0
                /\ IF Cardinality(skip) >= N
                   THEN SuspendUntilAvailable /\ UNCHANGED idx
                   ELSE pc' = "top" /\ idx' = NextIndex(sel) /\ left' = 0
        /\ Iterated
        /\ UNCHANGED <<cfg, counts, completed, budget, sleep, saved, envVars>>

\* A usage reader fails or recovers, seen where the loop reads usage.
Flicker(i) ==
    /\ pc \in {"top", "usable", "exit"}
    /\ dark' = IF i \in dark THEN dark \ {i} ELSE dark \cup {i}
    /\ UNCHANGED <<loopVars, pc, runVars, reset, block, done, steady, faults>>

-----------------------------------------------------------------------------
Scores == [Idx -> {0, 1}]
Outcomes == {"ok", "failed", "not-executable", "abort", "credit", "declined"}

\* The steps the program, the provider and the clock take without the operator.
Step ==
    \/ Restart
    \/ TimedOut
    \/ \E score \in Scores : Select(FALSE, score)
    \/ SaveState
    \/ WaitTimedOut
    \/ WaitAwake(FALSE)
    \/ WaitUntilEpoch
    \/ Launch
    \/ WaitUntilUsable
    \/ SleepInterruptibly
    \/ \E outcome \in Outcomes, spent \in BOOLEAN : SubmitOnce(outcome, spent)
    \/ Succeeded
    \/ Commit
    \/ NotLaunched
    \/ RotateAway

Next ==
    \/ Step
    \/ Crash
    \/ BridgeStop
    \/ \E score \in Scores : Select(TRUE, score)
    \/ WaitInterrupted
    \/ WaitAwake(TRUE)
    \/ \E d \in 1 .. MaxReset + 1 : Suspend(d)
    \/ SleepInterrupted
    \/ LaunchRefused
    \/ RunTick
    \/ \E i \in Flaky : Flicker(i)

Spec == Init /\ [][Next]_vars /\ WF_vars(Step)

-----------------------------------------------------------------------------
TypeOK ==
    /\ cfg \in [routes : BOOLEAN, evenBurn : BOOLEAN, bridged : BOOLEAN,
               duration : 0 .. MaxDuration, spec : {1, 2}, opaque : SUBSET Idx]
    /\ pc \in PCs /\ idx \in Idx /\ skipped \subseteq Idx /\ sel \in Idx \cup {-1}
    /\ counts \in [Idx -> Nat] /\ done \in [Idx -> Nat] /\ completed \in Nat
    /\ streak \in [fast : Nat, hard : Nat]
    /\ left \in Nat /\ since \in Nat \cup {-1} /\ attempt \in Nat /\ ran \in Nat
    /\ status \in {0, 1, 75, 76, 78, 143}
    /\ budget \in 0 .. MaxDuration
    /\ sleep \in [suspends : Nat, awake : 0 .. MinAwake, disabled : BOOLEAN]
    /\ saved \in [spec : 0 .. 2, index : Idx, counts : [Idx -> Nat]]
    /\ reset \in [Idx -> Nat] /\ block \in [Idx -> Nat]
    /\ dark \subseteq Flaky /\ steady \subseteq Opaque
    /\ faults \in 0 .. MaxFaults

\* The whole machine waits only while no entry that is not set aside can run, and
\* the wait ends no later than the first recovery any entry reports while it
\* lasts: the target is never one that a failed run has outdated, nor that of a
\* later window (suspend_until_available, soonest_wait_until).
WaitsAreNeeded ==
    [][/\ pc = "wait" => \A i \in Idx \ Flaky : Decision(i).wait > 0 => left <= Decision(i).wait
       /\ pc = "top" /\ pc' = "save" /\ status' = 1 => \A i \in Idx \ skipped' : ~Decision(i).usable]_vars

\* The rotation is fair, also after a crash.  An opaque entry that never failed
\* keeps its share: no measurable entry gets more than one turn ahead of it,
\* whatever the scores, the renewals and the failures of the others
\* (mixed_capacity_fair_index).  And the turns counted, in memory and in the
\* state file, are iterations that succeeded (save_state, completed_counts_from_state).
RotationIsFair ==
    /\ cfg.evenBurn => \A o \in steady, j \in Idx \ Opaque : counts[j] <= counts[o] + 1
    /\ \A i \in Idx : counts[i] <= done[i]
    /\ \A i \in Idx : saved.counts[i] <= done[i]

\* One broken usage reader, or every window spent, cannot stall the loop: it
\* always comes back to running a provider or ends.
AlwaysRunsAgain == []<>(pc \in {"run", "ended", "down"})

=============================================================================

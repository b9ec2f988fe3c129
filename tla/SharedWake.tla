----------------------------- MODULE SharedWake -----------------------------
(***************************************************************************)
(* The wake plan that all missions of a host share (bridge_power), the     *)
(* suspend cycle that uses it (common.suspend_with_wake), the capacity     *)
(* refresh worker of every controller (bridge_refresh), and a suspend that *)
(* does not take part in the plan (ralph-robin on its own, sleep-soak).    *)
(*                                                                         *)
(* Every wall-clock target is kept as the time that is left, 0 for none or *)
(* past.  What update_wake_request, shared_wake_target and                 *)
(* reconcile_shared_wake do under the planner lock is one step; a suspend  *)
(* cycle holds the lock over several.                                      *)
(***************************************************************************)
EXTENDS Integers, Sequences

CONSTANTS
    Missions,   \* missions with a controller on this host
    Foreign,    \* a suspender without a mission
    None,       \* nobody
    MaxTarget,  \* how far ahead a capacity reset may be
    MaxCycles,  \* bound on the suspend cycles
    MaxFaults,  \* bound on failures to arm, dead workers, wedged resumes and kills
    Keep        \* lines trim_ledger keeps

Actors == Missions \cup {Foreign}
Targets == 1 .. MaxTarget

ASSUME WakeAssumption ==
    /\ Foreign \notin Missions /\ None \notin Actors
    /\ {MaxTarget, MaxCycles, Keep} \subseteq Nat \ {0} /\ MaxFaults \in Nat

VARIABLES
    rtcwake,    \* this user may program the RTC with rtcwake
    rtc,        \* the RTC alarm, 0 for none
    timers,     \* active WakeSystem timers; the unit's name tells a foreign one from the plan's
    requests,   \* one wake request file per mission, 0 for none
    plan,       \* plan.json
    missed,     \* missions whose wake could not be armed, or was replaced by a foreign one
    planner,    \* holder of planner.lock
    host,       \* the machine is awake or asleep
    ledger,     \* suspend-ledger.jsonl
    cycles,     \* suspend cycles so far; the last one is the one in flight
    broken,     \* cycles that a wedged resume or a kill cut off
    act,        \* the suspend path of every actor
    worker,     \* the refresh worker thread of every controller
    stop,       \* whether its stop() was called, and has returned
    faults      \* faults so far

wakes == <<rtc, timers, requests, plan, missed>>
sleeps == <<host, ledger, cycles, broken>>
vars == <<rtcwake, wakes, planner, sleeps, act, worker, stop, faults>>

NoArm == [method |-> "none", target |-> 0]
Units == {"timer", "foreign-timer"}
Arms == [method : {"none", "rtcwake"} \cup Units, target : 0 .. MaxTarget]
Arm(method, t) == [method |-> method, target |-> t]
Armed(a) == a.method # "none"
Resting == [pc |-> "idle", arm |-> NoArm, goal |-> 0]

TypeOK ==
    /\ rtcwake \in BOOLEAN /\ rtc \in 0 .. MaxTarget /\ timers \subseteq [method : Units, target : Targets]
    /\ requests \in [Missions -> 0 .. MaxTarget] /\ plan \in Arms /\ missed \subseteq Missions
    /\ planner \in Actors \cup {None} /\ host \in {"awake", "asleep"}
    /\ ledger \in Seq([id : 1 .. MaxCycles, event : {"start", "done"}])
    /\ cycles \in 0 .. MaxCycles /\ broken \subseteq 1 .. MaxCycles
    /\ act \in [Actors -> [pc : {"idle", "armed", "planned", "suspending", "waiting", "resumed"},
                           arm : Arms, goal : 0 .. MaxTarget]]
    /\ worker \in [Missions -> {"loop", "wake", "dead"}]
    /\ stop \in [Missions -> {"no", "asked", "done"}]
    /\ faults \in 0 .. MaxFaults

Init ==
    /\ rtcwake \in BOOLEAN /\ rtc = 0 /\ timers = {}
    /\ requests = [m \in Missions |-> 0] /\ plan = NoArm /\ missed = {}
    /\ planner = None /\ host = "awake" /\ ledger = <<>> /\ cycles = 0 /\ broken = {}
    /\ act = [a \in Actors |-> Resting]
    /\ worker = [m \in Missions |-> "loop"] /\ stop = [m \in Missions |-> "no"]
    /\ faults = 0

At(a, pc) == act[a].pc = pc
Awake == host = "awake"
Free == planner = None /\ Awake
Least(S) == IF S = {} THEN 0 ELSE CHOOSE t \in S : \A u \in S : t <= u

-----------------------------------------------------------------------------
(* Arming and disarming.  A hardware state is [rtc, timers].                *)

Hardware == [rtc |-> rtc, timers |-> timers]

\* arm_rtc_wake: rtcwake when its alarm can be read back, a timer otherwise, or
\* neither; an rtcwake that is not confirmed may have lost the old alarm.  Every
\* outcome but the expected one is a fault.  A target in the past is not armed.
ArmRtcWake(h, t, unit) ==
    LET lost == IF rtcwake THEN {h, [h EXCEPT !.rtc = 0]} ELSE {h}
        timer(g) == [g EXCEPT !.timers = @ \cup {Arm(unit, t)}]
        good == IF t = 0 THEN [hw |-> h, method |-> "none", bad |-> 0]
                ELSE IF rtcwake THEN [hw |-> [h EXCEPT !.rtc = t], method |-> "rtcwake", bad |-> 0]
                ELSE [hw |-> timer(h), method |-> unit, bad |-> 0]
    IN  {good} \cup
        (IF faults < MaxFaults
         THEN {[hw |-> g, method |-> "none", bad |-> 1] : g \in lost} \cup
              (IF rtcwake /\ t # 0 THEN {[hw |-> timer(g), method |-> unit, bad |-> 1] : g \in lost} ELSE {})
         ELSE {})

DisarmRtcWake(h, arm) ==
    IF arm.method = "rtcwake" THEN [h EXCEPT !.rtc = 0] ELSE [h EXCEPT !.timers = @ \ {arm}]

\* The alarm or the timer is still there.
Holds(h, arm) ==
    /\ arm.target # 0
    /\ \/ arm.method = "rtcwake" /\ h.rtc = arm.target
       \/ arm \in h.timers

Earliest(reqs) == Least({reqs[m] : m \in Missions} \ {0})

\* An old wake goes when a new one has replaced it.
Replaced(h, old, new) ==
    IF ~Armed(old) \/ (old.method = "rtcwake" /\ new.method = "rtcwake") THEN h
    ELSE LET g == DisarmRtcWake(h, old)
         IN  IF new.method = "timer" THEN [g EXCEPT !.timers = @ \cup {new}] ELSE g

\* _reconcile: the wakes that the requests `reqs` may lead to.
Reconcile(reqs) ==
    LET target == Earliest(reqs)
        Result(h, p, a, b) == [hw |-> h, plan |-> p, arm |-> a, bad |-> b]
        new(r) == Arm(r.method, target)
        old(r) == Arm(r.method, plan.target)
    IN  CASE target = 0 -> {Result(DisarmRtcWake(Hardware, plan), NoArm, NoArm, 0)}
          [] target # 0 /\ plan.target = target /\ Holds(Hardware, plan) -> {Result(Hardware, plan, plan, 0)}
          [] OTHER -> UNION {
                IF r.method # "none" THEN {Result(Replaced(r.hw, plan, new(r)), new(r), new(r), r.bad)}
                ELSE IF ~Armed(plan) THEN {Result(r.hw, [NoArm EXCEPT !.target = target], NoArm, 1)}
                ELSE IF plan.method = "timer" THEN {Result(r.hw, plan, plan, 1)}
                ELSE {IF q.method = "none" THEN Result(q.hw, plan, NoArm, 1)
                      ELSE Result(q.hw, old(q), old(q), 1) : q \in ArmRtcWake(r.hw, plan.target, "timer")}
                : r \in ArmRtcWake(Hardware, target, "timer")}

Adopt(reqs, res) ==
    /\ rtc' = res.hw.rtc /\ timers' = res.hw.timers /\ plan' = res.plan /\ faults' = faults + res.bad
    /\ missed' = {m \in Missions : reqs[m] # 0 /\ res.arm.target \notin 1 .. reqs[m]}

\* update_wake_request, under a free planner lock: one request changes, then the
\* plan follows with `res`, an outcome of reconciling it.
UpdateWakeRequest(m, t, res) ==
    /\ requests' = [requests EXCEPT ![m] = t]
    /\ Adopt(requests', res)

-----------------------------------------------------------------------------
(* The refresh worker of a controller. *)

\* _refresh_manual_wake takes the write lock and looks at the stop flag ...
RefreshWake(m) ==
    /\ worker[m] = "loop" /\ stop[m] = "no" /\ Awake
    /\ worker' = [worker EXCEPT ![m] = "wake"]
    /\ UNCHANGED <<rtcwake, wakes, planner, sleeps, act, stop, faults>>

\* ... and then waits for the planner.
RefreshRequest(m, t) ==
    /\ worker[m] = "wake"
    /\ Free
    /\ \E res \in Reconcile([requests EXCEPT ![m] = t]) : UpdateWakeRequest(m, t, res)
    /\ worker' = [worker EXCEPT ![m] = "loop"]
    /\ UNCHANGED <<rtcwake, planner, sleeps, act, stop>>

\* The database fails twice: for an event, and for the event that reports it.
RefreshFails(m) ==
    /\ worker[m] = "loop" /\ stop[m] = "no" /\ Awake /\ faults < MaxFaults
    /\ worker' = [worker EXCEPT ![m] = "dead"]
    /\ faults' = faults + 1
    /\ UNCHANGED <<rtcwake, wakes, planner, sleeps, act, stop>>

\* stop(): the flag first, then the write lock.
AskStop(m) ==
    /\ At(m, "idle") /\ stop[m] = "no" /\ Awake
    /\ stop' = [stop EXCEPT ![m] = "asked"]
    /\ UNCHANGED <<rtcwake, wakes, planner, sleeps, act, worker, faults>>

\* Mutant: stop() does not take the write lock.
StopUnlocked(m) ==
    /\ stop[m] = "asked"
    /\ Free
    /\ \E res \in Reconcile([requests EXCEPT ![m] = 0]) : UpdateWakeRequest(m, 0, res)
    /\ stop' = [stop EXCEPT ![m] = "done"]
    /\ UNCHANGED <<rtcwake, planner, sleeps, act, worker>>

Stop(m) ==
    /\ stop[m] = "asked" /\ worker[m] # "wake"
    /\ Free
    /\ \E res \in Reconcile([requests EXCEPT ![m] = 0]) : UpdateWakeRequest(m, 0, res)
    /\ stop' = [stop EXCEPT ![m] = "done"]
    /\ UNCHANGED <<rtcwake, planner, sleeps, act, worker>>

-----------------------------------------------------------------------------
(* The suspend path of a mission whose controller runs: prepare_suspend, or  *)
(* the operator's suspend_until_credits with the same calls.                 *)

Become(a, new) == act' = [act EXCEPT ![a] = new]

JoinPlan(m, t) ==
    /\ At(m, "idle") /\ stop[m] = "no" /\ cycles < MaxCycles
    /\ Free
    /\ \E res \in Reconcile([requests EXCEPT ![m] = t]) :
          /\ UpdateWakeRequest(m, t, res)
          /\ Become(m, IF Armed(res.arm) THEN [pc |-> "armed", arm |-> res.arm, goal |-> 0] ELSE Resting)
    /\ UNCHANGED <<rtcwake, planner, sleeps, worker, stop>>

\* shared_wake_target: the earliest request, whoever made it.
ReadSharedTarget(m) ==
    /\ At(m, "armed") /\ Free
    /\ LET planned == Earliest(requests)
       IN  \/ Become(m, [act[m] EXCEPT !.pc = "planned", !.goal = planned]) /\ planned # 0
           \/ Become(m, Resting) /\ act[m].arm.target # planned
    /\ UNCHANGED <<rtcwake, wakes, planner, sleeps, worker, stop, faults>>

\* Mutant: the pre-armed wake is trusted.
BeginSuspendTrusting(m) ==
    /\ At(m, "planned") /\ Free /\ act[m].goal # 0 /\ cycles < MaxCycles
    /\ planner' = m /\ cycles' = cycles + 1
    /\ ledger' = Append(ledger, [id |-> cycles + 1, event |-> "start"])
    /\ Become(m, [act[m] EXCEPT !.pc = "suspending"])
    /\ UNCHANGED <<rtcwake, wakes, host, broken, worker, stop, faults>>

\* _suspend_with_wake_locked up to the ledger: the lead, the pre-armed wake and
\* the safety check are looked at again under the lock.
BeginSuspend(m) ==
    /\ At(m, "planned") /\ Free
    /\ LET valid == act[m].goal # 0 /\ act[m].arm.target = act[m].goal /\ Holds(Hardware, act[m].arm)
       IN  \/ /\ valid /\ cycles < MaxCycles
              /\ planner' = m /\ cycles' = cycles + 1
              /\ ledger' = Append(ledger, [id |-> cycles + 1, event |-> "start"])
              /\ Become(m, [act[m] EXCEPT !.pc = "suspending"])
           \/ Become(m, [act[m] EXCEPT !.pc = "resumed"]) /\ UNCHANGED <<planner, cycles, ledger>>
    /\ UNCHANGED <<rtcwake, wakes, host, broken, worker, stop, faults>>

\* The same for a suspender that arms a wake of its own.
BeginForeign(t) ==
    /\ At(Foreign, "idle") /\ Free /\ cycles < MaxCycles
    /\ \E r \in ArmRtcWake(Hardware, t, "foreign-timer") :
          /\ r.method # "none"
          /\ rtc' = r.hw.rtc /\ timers' = r.hw.timers /\ faults' = faults + r.bad
          /\ Become(Foreign, [pc |-> "suspending", arm |-> Arm(r.method, t), goal |-> t])
    /\ planner' = Foreign /\ cycles' = cycles + 1 /\ missed' = {m \in Missions : requests[m] # 0}
    /\ ledger' = Append(ledger, [id |-> cycles + 1, event |-> "start"])
    /\ UNCHANGED <<rtcwake, requests, plan, host, broken, worker, stop>>

\* trim_ledger
Trimmed(log) == IF Len(log) <= Keep THEN log ELSE SubSeq(log, Len(log) - Keep + 1, Len(log))

Finished == Trimmed(Append(ledger, [id |-> cycles, event |-> "done"]))

\* A mission restores the plan after its cycle; a foreign suspender does not.
Over(a) == Become(a, IF a = Foreign THEN Resting ELSE [Resting EXCEPT !.pc = "resumed"])

\* Mutant: a refused suspend returns without closing its cycle.
SuspendRejectedOpen(a) ==
    /\ At(a, "suspending")
    /\ LET h == DisarmRtcWake(Hardware, act[a].arm) IN rtc' = h.rtc /\ timers' = h.timers
    /\ planner' = None
    /\ Over(a)
    /\ UNCHANGED <<rtcwake, requests, plan, missed, host, ledger, cycles, broken, worker, stop, faults>>

\* systemctl suspend is refused: the wake is cancelled, the cycle is closed.
SuspendRejected(a) ==
    /\ At(a, "suspending")
    /\ LET h == DisarmRtcWake(Hardware, act[a].arm) IN rtc' = h.rtc /\ timers' = h.timers
    /\ ledger' = Finished /\ planner' = None
    /\ Over(a)
    /\ UNCHANGED <<rtcwake, requests, plan, missed, host, cycles, broken, worker, stop, faults>>

\* It is accepted; the machine sleeps, or it does not.
SuspendAccepted(a) ==
    /\ At(a, "suspending")
    /\ host' \in {"asleep", "awake"}
    /\ Become(a, [act[a] EXCEPT !.pc = "waiting"])
    /\ UNCHANGED <<rtcwake, wakes, planner, ledger, cycles, broken, worker, stop, faults>>

\* wall_clock_wait_until is over: the target, or the operator of a mission.
WaitOver(a) ==
    /\ At(a, "waiting") /\ Awake
    /\ act[a].goal = 0 \/ a \in Missions
    /\ ledger' = Finished /\ planner' = None
    /\ Over(a)
    /\ UNCHANGED <<rtcwake, wakes, host, cycles, broken, worker, stop, faults>>

\* reconcile_shared_wake after the outcome.
ReconcileSharedWake(m) ==
    /\ At(m, "resumed") /\ Free
    /\ \E res \in Reconcile(requests) : Adopt(requests, res)
    /\ Become(m, Resting)
    /\ UNCHANGED <<rtcwake, requests, planner, sleeps, worker, stop>>

-----------------------------------------------------------------------------
(* The machine. *)

Lower(t) == IF t > 0 THEN t - 1 ELSE 0

\* Time passes; an alarm that is due wakes the machine.  The floors on the lead
\* (min_lead_seconds) are far longer than the steps from the last look at the
\* clock to systemctl suspend.
Tick ==
    /\ \A a \in Actors : At(a, "suspending") => act[a].goal > 1
    /\ rtc' = Lower(rtc) /\ timers' = {[t EXCEPT !.target = @ - 1] : t \in {u \in timers : u.target > 1}}
    /\ requests' = [m \in Missions |-> Lower(requests[m])]
    /\ plan' = [plan EXCEPT !.target = Lower(@)]
    /\ missed' = {m \in missed : requests[m] > 1}
    /\ act' = [a \in Actors |-> [act[a] EXCEPT !.arm.target = Lower(@), !.goal = Lower(@)]]
    /\ host' = IF rtc = 1 \/ \E t \in timers : t.target = 1 THEN "awake" ELSE host
    /\ UNCHANGED <<rtcwake, planner, ledger, cycles, broken, worker, stop, faults>>

\* Somebody presses a key.
UserWakes ==
    /\ ~Awake /\ host' = "awake"
    /\ UNCHANGED <<rtcwake, wakes, planner, ledger, cycles, broken, act, worker, stop, faults>>

\* The resume wedges and the machine is reset: files stay, processes and timers go.
Wedge ==
    /\ ~Awake /\ faults < MaxFaults /\ faults' = faults + 1
    /\ host' = "awake" /\ broken' = broken \cup {cycles}
    /\ rtc' = 0 /\ timers' = {} /\ planner' = None
    /\ act' = [a \in Actors |-> Resting]
    /\ worker' = [m \in Missions |-> "loop"] /\ stop' = [m \in Missions |-> "no"]
    /\ UNCHANGED <<rtcwake, requests, plan, missed, ledger, cycles>>

\* A suspender is killed; the kernel drops its lock.
Kill(a) ==
    /\ Awake /\ ~At(a, "idle") /\ faults < MaxFaults /\ faults' = faults + 1
    /\ broken' = IF planner = a THEN broken \cup {cycles} ELSE broken
    /\ planner' = IF planner = a THEN None ELSE planner
    /\ Become(a, Resting)
    /\ UNCHANGED <<rtcwake, wakes, host, ledger, cycles, worker, stop>>

Cycle(a) == SuspendRejected(a) \/ SuspendAccepted(a) \/ WaitOver(a)

Mission(m) ==
    \/ RefreshWake(m) \/ (\E t \in 0 .. MaxTarget : RefreshRequest(m, t)) \/ RefreshFails(m)
    \/ AskStop(m) \/ Stop(m)
    \/ (\E t \in Targets : JoinPlan(m, t)) \/ ReadSharedTarget(m) \/ BeginSuspend(m) \/ ReconcileSharedWake(m)

Next ==
    \/ \E m \in Missions : Mission(m)
    \/ \E t \in Targets : BeginForeign(t)
    \/ \E a \in Actors : Cycle(a) \/ Kill(a)
    \/ Tick \/ UserWakes \/ Wedge

Spec == Init /\ [][Next]_vars

-----------------------------------------------------------------------------
(* Properties. *)

WakeAt == Least(({t.target : t \in timers} \cup {rtc}) \ {0})

\* docs/ralph-robin.md: "Never suspends without an armed wake", and a mission
\* that suspends the host never sleeps past the reset another mission asked for
\* and update_wake_request armed,
\* whatever happened between reading the plan and taking the planner lock.
SleepIsCovered ==
    ~Awake =>
        /\ WakeAt # 0
        /\ \A m \in Missions : requests[m] # 0 /\ m \notin missed => WakeAt <= requests[m]

\* A controller's wake request does not outlive its worker: a refresh that is
\* under way when stop() is called does not bring the request back.
ReleasedIsGone == \A m \in Missions : stop[m] = "done" => requests[m] = 0

\* The host sleeps exactly as long as the missions that still want to wake allow.
PlanIsKept == SleepIsCovered /\ ReleasedIsGone

\* incomplete_suspend_cycles reports exactly the cycles that were cut off (while
\* the ledger still holds them) and the one in flight.
LedgerIsTruthful ==
    LET started == {ledger[i].id : i \in {j \in 1 .. Len(ledger) : ledger[j].event = "start"}}
        ended == {ledger[i].id : i \in {j \in 1 .. Len(ledger) : ledger[j].event = "done"}}
        flying == IF planner = None THEN {} ELSE {cycles}
    IN  started \ ended = started \cap (broken \cup flying)

=============================================================================

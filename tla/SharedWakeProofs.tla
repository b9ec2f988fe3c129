--------------------------- MODULE SharedWakeProofs ---------------------------
(* Proofs about SharedWake for any number of missions, cycles and faults: the  *)
(* ledger of suspend cycles tells the truth, a released request stays away,    *)
(* and a host that arms all its wakes in one way is never asleep past one.     *)
EXTENDS SharedWake, SequenceTheorems, FiniteSetTheorems, WellFoundedInduction, TLAPS

----------------------------------------------------------------------------
(* The inductive invariants *)

\* The suspender that holds planner.lock is the one whose cycle is in flight, and
\* only while it waits for the end of a suspend can the host be asleep.
PlannerInv ==
  /\ \A a \in Actors : act[a].pc \in {"suspending", "waiting"} <=> planner = a
  /\ ~Awake => \E a \in Actors : At(a, "waiting")

\* Every line of the ledger belongs to a cycle that has begun; a cycle that has
\* ended was not cut off, and one that was neither cut off nor is in flight has
\* its end after its start.
Flying == IF planner = None THEN {} ELSE {cycles}
LedgerInv ==
  /\ broken \cup Flying \subseteq 1 .. cycles
  /\ broken \cap Flying = {}
  /\ \A i \in 1 .. Len(ledger) : ledger[i].id \in 1 .. cycles
  /\ \A i \in 1 .. Len(ledger) : ledger[i].event = "done" => ledger[i].id \notin broken \cup Flying
  /\ \A i \in 1 .. Len(ledger) : ledger[i].event = "start" /\ ledger[i].id \notin broken \cup Flying =>
        \E j \in i .. Len(ledger) : ledger[j].event = "done" /\ ledger[j].id = ledger[i].id

\* A stopped controller has no worker that still holds a request.
ReleaseInv == \A m \in Missions : stop[m] = "done" => requests[m] = 0 /\ worker[m] # "wake"

\* The requests the plan answers.
Promised(m) == requests[m] # 0 /\ m \notin missed

\* The host arms every wake in the same way: rtcwake never falls back to a timer.
Uniform == rtcwake => timers = {}

\* The wakes belong to the plan, and the plan is early enough for every promise.
PlanInv ==
  /\ \A m \in Missions : Promised(m) => Armed(plan) /\ plan.target <= requests[m]
  /\ \A t \in timers : t.method = "timer" => t = plan
  /\ ~rtcwake => rtc = 0
  /\ rtcwake => plan.method # "timer"
  /\ rtc # 0 /\ (\E m \in Missions : Promised(m)) => plan.method = "rtcwake" /\ rtc = plan.target

\* The wake a suspend relies on is there and early enough, and so is the wake of
\* a host that is asleep.
Wakers == ({t.target : t \in timers} \cup {rtc}) \ {0}
Covered == \E w \in Wakers : \A m \in Missions : Promised(m) => w <= requests[m]
SleepInv ==
  /\ \A a \in Actors : At(a, "suspending") =>
        /\ act[a].arm.target = act[a].goal /\ Holds(Hardware, act[a].arm)
        /\ \A m \in Missions : Promised(m) => act[a].goal <= requests[m]
  /\ ~Awake => Covered

\* The mission's arms are the plan's: a foreign timer is never one of them.
Types ==
  /\ TypeOK
  /\ plan.method # "foreign-timer"
  /\ \A m \in Missions : act[m].arm.method # "foreign-timer"

WakeInv == Types /\ PlannerInv /\ LedgerInv /\ ReleaseInv
UniformInv == WakeInv /\ PlanInv /\ SleepInv

Moved == Next \/ UNCHANGED vars

LEMMA Limits ==
  /\ Foreign \notin Missions /\ None \notin Actors /\ Missions \subseteq Actors /\ Foreign \in Actors
  /\ MaxTarget \in Nat \ {0} /\ MaxCycles \in Nat \ {0} /\ Keep \in Nat \ {0} /\ MaxFaults \in Nat
BY WakeAssumption DEF Actors

----------------------------------------------------------------------------
(* Arming, disarming and the plan *)

HW == [rtc : 0 .. MaxTarget, timers : SUBSET [method : Units, target : Targets]]

LEMMA LeastIs ==
  ASSUME NEW S, S \subseteq Nat
  PROVE  /\ S = {} => Least(S) = 0
         /\ S # {} => Least(S) \in S /\ \A k \in S : Least(S) <= k
<1>1. ASSUME S # {} PROVE \E m \in S : \A k \in S : m <= k
  <2>1. PICK m \in S : \A k \in S : <<k, m>> \notin OpToRel(<, Nat)
    BY <1>1, NatLessThanWellFounded, WFMin
  <2>2. \A k \in S : ~(k < m)
    BY <2>1 DEF OpToRel
  <2> QED BY <2>2
<1> QED BY <1>1 DEF Least

LEMMA EarliestIs ==
  ASSUME NEW reqs \in [Missions -> 0 .. MaxTarget]
  PROVE  Earliest(reqs) \in 0 .. MaxTarget
<1> DEFINE S == {reqs[m] : m \in Missions} \ {0}
<1>1. S \subseteq 1 .. MaxTarget /\ S \subseteq Nat
  BY Limits
<1>2. Earliest(reqs) = Least(S)
  BY DEF Earliest
<1> HIDE DEF S
<1>3. S = {} \/ Least(S) \in S
  BY <1>1, LeastIs
<1>4. S = {} => Least(S) = 0
  BY <1>1, LeastIs
<1>5. 0 \in 0 .. MaxTarget /\ 1 .. MaxTarget \subseteq 0 .. MaxTarget
  BY Limits
<1> QED BY <1>1, <1>2, <1>3, <1>4, <1>5

\* What arm_rtc_wake may lead to.
LEMMA ArmIs ==
  ASSUME faults \in 0 .. MaxFaults, rtcwake \in BOOLEAN, NEW h \in HW, NEW t \in 0 .. MaxTarget, NEW unit \in Units,
         NEW r \in ArmRtcWake(h, t, unit)
  PROVE  /\ r.bad \in {0, 1} /\ faults + r.bad \in 0 .. MaxFaults
         /\ r.hw \in HW /\ (~rtcwake => r.hw.rtc = h.rtc)
         /\ \/ r.method = "none" /\ r.hw.timers = h.timers /\ (t # 0 => r.bad = 1)
            \/ t # 0 /\ rtcwake /\ r.method = "rtcwake" /\ r.hw.rtc = t /\ r.hw.timers = h.timers
            \/ t # 0 /\ r.method = unit /\ r.hw.timers = h.timers \cup {Arm(unit, t)}
<1>1. /\ [h EXCEPT !.rtc = 0] \in HW /\ [h EXCEPT !.rtc = 0].timers = h.timers
      /\ t # 0 => [h EXCEPT !.rtc = t] \in HW /\ [h EXCEPT !.rtc = t].timers = h.timers /\ [h EXCEPT !.rtc = t].rtc = t
  BY Limits DEF HW
<1>2. t # 0 => Arm(unit, t) \in [method : Units, target : Targets]
  BY DEF Arm, Targets
<1> DEFINE lost == IF rtcwake THEN {h, [h EXCEPT !.rtc = 0]} ELSE {h}
           timer(g) == [g EXCEPT !.timers = @ \cup {Arm(unit, t)}]
<1>3. \A g \in HW : t # 0 => timer(g) \in HW /\ timer(g).rtc = g.rtc /\ timer(g).timers = g.timers \cup {Arm(unit, t)}
  BY <1>2 DEF HW
<1>4. \A g \in lost : g \in HW /\ g.timers = h.timers /\ (~rtcwake => g.rtc = h.rtc)
  <2> SUFFICES ASSUME NEW g \in lost PROVE g \in HW /\ g.timers = h.timers /\ (~rtcwake => g.rtc = h.rtc)
    OBVIOUS
  <2>1. g = h \/ (rtcwake /\ g = [h EXCEPT !.rtc = 0])
    OBVIOUS
  <2> QED BY <1>1, <2>1
<1>5. \/ t = 0 /\ r = [hw |-> h, method |-> "none", bad |-> 0]
      \/ t # 0 /\ rtcwake /\ r = [hw |-> [h EXCEPT !.rtc = t], method |-> "rtcwake", bad |-> 0]
      \/ t # 0 /\ ~rtcwake /\ r = [hw |-> timer(h), method |-> unit, bad |-> 0]
      \/ faults < MaxFaults /\ \E g \in lost : r = [hw |-> g, method |-> "none", bad |-> 1]
      \/ faults < MaxFaults /\ t # 0 /\ \E g \in lost : r = [hw |-> timer(g), method |-> unit, bad |-> 1]
  <2> HIDE DEF timer
  <2> DEFINE good == IF t = 0 THEN [hw |-> h, method |-> "none", bad |-> 0]
                     ELSE IF rtcwake THEN [hw |-> [h EXCEPT !.rtc = t], method |-> "rtcwake", bad |-> 0]
                     ELSE [hw |-> timer(h), method |-> unit, bad |-> 0]
  <2>1. \/ r = good
        \/ faults < MaxFaults /\ \E g \in lost : r = [hw |-> g, method |-> "none", bad |-> 1]
        \/ faults < MaxFaults /\ t # 0 /\ \E g \in lost : r = [hw |-> timer(g), method |-> unit, bad |-> 1]
    <3> HIDE DEF good, lost
    <3>1. r \in {good} \cup
               (IF faults < MaxFaults
                THEN {[hw |-> g, method |-> "none", bad |-> 1] : g \in lost} \cup
                     (IF rtcwake /\ t # 0 THEN {[hw |-> timer(g), method |-> unit, bad |-> 1] : g \in lost} ELSE {})
                ELSE {})
      BY Zenon DEF ArmRtcWake, good, lost, timer
    <3> QED BY <3>1
  <2> HIDE DEF lost
  <2> QED BY <2>1
<1>6. CASE t = 0 /\ r = [hw |-> h, method |-> "none", bad |-> 0]
  BY <1>6
<1>7. CASE t # 0 /\ rtcwake /\ r = [hw |-> [h EXCEPT !.rtc = t], method |-> "rtcwake", bad |-> 0]
  <2> PICK n : n = [h EXCEPT !.rtc = t]
    OBVIOUS
  <2>1. n \in HW /\ n.timers = h.timers /\ n.rtc = t
    BY <1>1, <1>7
  <2>2. r = [hw |-> n, method |-> "rtcwake", bad |-> 0]
    BY <1>7
  <2>3. r.hw = n /\ r.bad = 0 /\ r.method = "rtcwake"
    BY <2>2
  <2>4. t # 0 /\ rtcwake
    BY <1>7
  <2> QED BY <2>1, <2>3, <2>4
<1>8. CASE t # 0 /\ ~rtcwake /\ r = [hw |-> timer(h), method |-> unit, bad |-> 0]
  <2> HIDE DEF timer
  <2>1. timer(h) \in HW /\ timer(h).rtc = h.rtc /\ timer(h).timers = h.timers \cup {Arm(unit, t)}
    BY <1>3, <1>8
  <2> QED BY <1>8, <2>1
<1>9. CASE faults < MaxFaults /\ \E g \in lost : r = [hw |-> g, method |-> "none", bad |-> 1]
  <2> HIDE DEF lost
  <2> QED BY <1>4, <1>9, Limits
<1>10. CASE faults < MaxFaults /\ t # 0 /\ \E g \in lost : r = [hw |-> timer(g), method |-> unit, bad |-> 1]
  <2> HIDE DEF lost
  <2> PICK g \in lost : r = [hw |-> timer(g), method |-> unit, bad |-> 1]
    BY <1>10
  <2> HIDE DEF timer
  <2>1. timer(g) \in HW /\ timer(g).rtc = g.rtc /\ timer(g).timers = h.timers \cup {Arm(unit, t)}
    BY <1>3, <1>4, <1>10
  <2> QED BY <1>4, <1>10, <2>1, Limits
<1> QED BY <1>5, <1>6, <1>7, <1>8, <1>9, <1>10

LEMMA DisarmIs ==
  ASSUME NEW h \in HW, NEW arm \in Arms
  PROVE  /\ DisarmRtcWake(h, arm) \in HW
         /\ DisarmRtcWake(h, arm).rtc = IF arm.method = "rtcwake" THEN 0 ELSE h.rtc
         /\ DisarmRtcWake(h, arm).timers = IF arm.method = "rtcwake" THEN h.timers ELSE h.timers \ {arm}
BY Limits DEF DisarmRtcWake, HW

LEMMA ReplacedIs ==
  ASSUME NEW h \in HW, NEW old \in Arms, NEW new \in Arms, new.method \in {"rtcwake", "timer"}, new.target # 0
  PROVE  LET g == Replaced(h, old, new)
         IN  /\ g \in HW
             /\ ~Armed(old) \/ (old.method = "rtcwake" /\ new.method = "rtcwake") => g = h
             /\ ~(~Armed(old) \/ (old.method = "rtcwake" /\ new.method = "rtcwake")) =>
                   /\ g.rtc = IF old.method = "rtcwake" THEN 0 ELSE h.rtc
                   /\ g.timers = (IF old.method = "rtcwake" THEN h.timers ELSE h.timers \ {old}) \cup
                                 (IF new.method = "timer" THEN {new} ELSE {})
<1>1. CASE ~Armed(old) \/ (old.method = "rtcwake" /\ new.method = "rtcwake")
  BY <1>1 DEF Replaced
<1>2. CASE ~(~Armed(old) \/ (old.method = "rtcwake" /\ new.method = "rtcwake"))
  <2> PICK d : d = DisarmRtcWake(h, old)
    OBVIOUS
  <2>1. Replaced(h, old, new) = IF new.method = "timer" THEN [d EXCEPT !.timers = @ \cup {new}] ELSE d
    BY <1>2 DEF Replaced
  <2>2. /\ d \in HW /\ d.rtc = IF old.method = "rtcwake" THEN 0 ELSE h.rtc
        /\ d.timers = IF old.method = "rtcwake" THEN h.timers ELSE h.timers \ {old}
    BY DisarmIs
  <2>3. new.method = "timer" => new \in [method : Units, target : Targets]
    BY DEF Arms, Units, Targets
  <2>4. CASE new.method # "timer"
    BY <1>2, <2>1, <2>2, <2>4
  <2>5. CASE new.method = "timer"
    <3> PICK g : g = [d EXCEPT !.timers = @ \cup {new}]
      OBVIOUS
    <3>1. g \in HW /\ g.rtc = d.rtc /\ g.timers = d.timers \cup {new}
      BY <2>2, <2>3, <2>5 DEF HW
    <3> QED BY <1>2, <2>1, <2>2, <2>5, <3>1
  <2> QED BY <2>4, <2>5
<1> QED BY <1>1, <1>2

LEMMA HardwareIs == TypeOK => Hardware \in HW /\ Hardware.rtc = rtc /\ Hardware.timers = timers
BY DEF TypeOK, Hardware, HW

\* The timers that a plan may have.
Fits(h, p) == \A t \in h.timers : t.method = "timer" => t = p

\* What a new plan is worth.
Sound(res) ==
  /\ res.hw \in HW /\ res.plan \in Arms /\ res.plan.method # "foreign-timer"
  /\ res.arm \in {res.plan, NoArm} /\ (res.arm.target # 0 => res.arm = res.plan /\ Armed(res.plan))
  /\ res.bad \in {0, 1} /\ faults + res.bad \in 0 .. MaxFaults
  /\ ~rtcwake => res.hw.rtc \in {rtc, 0}
  /\ Fits(Hardware, plan) => Fits(res.hw, res.plan)
  /\ rtcwake /\ timers = {} /\ plan.method # "timer" /\ res.hw.timers = {} =>
        /\ res.plan.method # "timer"
        /\ res.arm.target # 0 => res.plan.method = "rtcwake" /\ res.hw.rtc = res.plan.target

LEMMA ReconcileIs ==
  ASSUME Types, NEW reqs \in [Missions -> 0 .. MaxTarget], NEW res \in Reconcile(reqs)
  PROVE  Sound(res)
<1> DEFINE target == Earliest(reqs)
           Result(h, p, a, b) == [hw |-> h, plan |-> p, arm |-> a, bad |-> b]
           new(r) == Arm(r.method, target)
           old(r) == Arm(r.method, plan.target)
<1>1. target \in 0 .. MaxTarget
  BY EarliestIs
<1>2. /\ Hardware \in HW /\ Hardware.rtc = rtc /\ Hardware.timers = timers /\ plan \in Arms
      /\ plan.method # "foreign-timer" /\ rtcwake \in BOOLEAN /\ faults \in 0 .. MaxFaults /\ plan.target \in 0 .. MaxTarget
  BY HardwareIs DEF Types, TypeOK, Arms
<1>3. NoArm \in Arms /\ NoArm.target = 0 /\ NoArm.method = "none"
  BY Limits DEF Arms, NoArm
<1>4. /\ \A m \in {"none", "rtcwake", "timer"}, t \in 0 .. MaxTarget : Arm(m, t) \in Arms
      /\ \A m, t : Arm(m, t).method = m /\ Arm(m, t).target = t
  BY DEF Arm, Arms, Units
<1>5. \A h, p, a, b : Result(h, p, a, b).hw = h /\ Result(h, p, a, b).plan = p /\ Result(h, p, a, b).arm = a
                     /\ Result(h, p, a, b).bad = b
  OBVIOUS
<1>6. \/ target = 0 /\ res = Result(DisarmRtcWake(Hardware, plan), NoArm, NoArm, 0)
      \/ target # 0 /\ Holds(Hardware, plan) /\ res = Result(Hardware, plan, plan, 0)
      \/ /\ target # 0
         /\ \E r \in ArmRtcWake(Hardware, target, "timer") :
              \/ r.method # "none" /\ res = Result(Replaced(r.hw, plan, new(r)), new(r), new(r), r.bad)
              \/ r.method = "none" /\ ~Armed(plan) /\ res = Result(r.hw, [NoArm EXCEPT !.target = target], NoArm, 1)
                 /\ r.bad = 1
              \/ r.method = "none" /\ plan.method = "timer" /\ res = Result(r.hw, plan, plan, 1) /\ r.bad = 1
              \/ /\ r.method = "none" /\ Armed(plan) /\ plan.method # "timer" /\ r.bad = 1
                 /\ \E q \in ArmRtcWake(r.hw, plan.target, "timer") :
                      \/ q.method = "none" /\ res = Result(q.hw, plan, NoArm, 1)
                      \/ q.method # "none" /\ res = Result(q.hw, old(q), old(q), 1)
  <2> DEFINE alone(r) == Result(r.hw, [NoArm EXCEPT !.target = target], NoArm, 1)
             again(r) == {IF q.method = "none" THEN Result(q.hw, plan, NoArm, 1) ELSE Result(q.hw, old(q), old(q), 1)
                          : q \in ArmRtcWake(r.hw, plan.target, "timer")}
             armed(r) == IF r.method # "none" THEN {Result(Replaced(r.hw, plan, new(r)), new(r), new(r), r.bad)}
                         ELSE IF ~Armed(plan) THEN {alone(r)}
                         ELSE IF plan.method = "timer" THEN {Result(r.hw, plan, plan, 1)}
                         ELSE again(r)
             some == UNION {armed(r) : r \in ArmRtcWake(Hardware, target, "timer")}
  <2>1. res \in CASE target = 0 -> {Result(DisarmRtcWake(Hardware, plan), NoArm, NoArm, 0)}
                   [] target # 0 /\ plan.target = target /\ Holds(Hardware, plan) -> {Result(Hardware, plan, plan, 0)}
                   [] OTHER -> some
    BY Zenon DEF Reconcile
  <2> HIDE DEF Result, new, old, target, some
  <2>2. \/ target = 0 /\ res = Result(DisarmRtcWake(Hardware, plan), NoArm, NoArm, 0)
        \/ target # 0 /\ Holds(Hardware, plan) /\ res = Result(Hardware, plan, plan, 0)
        \/ target # 0 /\ res \in some
    BY <2>1
  <2>3. ASSUME target # 0, res \in some
        PROVE  \E r \in ArmRtcWake(Hardware, target, "timer") :
              \/ r.method # "none" /\ res = Result(Replaced(r.hw, plan, new(r)), new(r), new(r), r.bad)
              \/ r.method = "none" /\ ~Armed(plan) /\ res = Result(r.hw, [NoArm EXCEPT !.target = target], NoArm, 1)
                 /\ r.bad = 1
              \/ r.method = "none" /\ plan.method = "timer" /\ res = Result(r.hw, plan, plan, 1) /\ r.bad = 1
              \/ /\ r.method = "none" /\ Armed(plan) /\ plan.method # "timer" /\ r.bad = 1
                 /\ \E q \in ArmRtcWake(r.hw, plan.target, "timer") :
                      \/ q.method = "none" /\ res = Result(q.hw, plan, NoArm, 1)
                      \/ q.method # "none" /\ res = Result(q.hw, old(q), old(q), 1)
    <3> HIDE DEF armed
    <3>1. PICK r \in ArmRtcWake(Hardware, target, "timer") : res \in armed(r)
      BY <2>3 DEF some
    <3>2. r.method = "none" => r.bad = 1
      BY <1>1, <1>2, <2>3, ArmIs DEF Units
    <3> HIDE DEF again, alone
    <3>3. \/ r.method # "none" /\ res = Result(Replaced(r.hw, plan, new(r)), new(r), new(r), r.bad)
          \/ r.method = "none" /\ ~Armed(plan) /\ res = alone(r)
          \/ r.method = "none" /\ plan.method = "timer" /\ res = Result(r.hw, plan, plan, 1)
          \/ r.method = "none" /\ Armed(plan) /\ plan.method # "timer" /\ res \in again(r)
      BY <3>1 DEF armed
    <3>4. res \in again(r) => \E q \in ArmRtcWake(r.hw, plan.target, "timer") :
                      \/ q.method = "none" /\ res = Result(q.hw, plan, NoArm, 1)
                      \/ q.method # "none" /\ res = Result(q.hw, old(q), old(q), 1)
      BY DEF again
    <3> QED BY <3>2, <3>3, <3>4 DEF alone
  <2> QED BY <2>2, <2>3
<1>7. "timer" \in Units /\ Fits(Hardware, plan) = (\A t \in timers : t.method = "timer" => t = plan)
  BY <1>2 DEF Units, Fits
<1> HIDE DEF Result, new, old, target
<1>8. CASE target = 0 /\ res = Result(DisarmRtcWake(Hardware, plan), NoArm, NoArm, 0)
  <2> PICK d : d = DisarmRtcWake(Hardware, plan)
    OBVIOUS
  <2>1. /\ d \in HW /\ d.rtc = (IF plan.method = "rtcwake" THEN 0 ELSE rtc)
        /\ d.timers = (IF plan.method = "rtcwake" THEN timers ELSE timers \ {plan})
    BY <1>2, DisarmIs
  <2>2. res.hw = d /\ res.plan = NoArm /\ res.arm = NoArm /\ res.bad = 0
    BY <1>5, <1>8
  <2> QED BY <1>2, <1>3, <1>7, <2>1, <2>2 DEF Sound, Fits
<1>9. CASE target # 0 /\ Holds(Hardware, plan) /\ res = Result(Hardware, plan, plan, 0)
  <2>1. res.hw = Hardware /\ res.plan = plan /\ res.arm = plan /\ res.bad = 0
    BY <1>5, <1>9
  <2>2. \/ plan.method = "rtcwake" /\ rtc = plan.target
        \/ plan \in timers /\ plan.method \in Units
    BY <1>2, <1>9 DEF Holds, HW
  <2>3. Armed(plan)
    BY <2>2 DEF Armed, Units
  <2> QED BY <1>2, <2>1, <2>2, <2>3 DEF Sound
<1>10. ASSUME target # 0, NEW r \in ArmRtcWake(Hardware, target, "timer"),
              \/ r.method # "none" /\ res = Result(Replaced(r.hw, plan, new(r)), new(r), new(r), r.bad)
              \/ r.method = "none" /\ ~Armed(plan) /\ res = Result(r.hw, [NoArm EXCEPT !.target = target], NoArm, 1)
                 /\ r.bad = 1
              \/ r.method = "none" /\ plan.method = "timer" /\ res = Result(r.hw, plan, plan, 1) /\ r.bad = 1
              \/ /\ r.method = "none" /\ Armed(plan) /\ plan.method # "timer" /\ r.bad = 1
                 /\ \E q \in ArmRtcWake(r.hw, plan.target, "timer") :
                      \/ q.method = "none" /\ res = Result(q.hw, plan, NoArm, 1)
                      \/ q.method # "none" /\ res = Result(q.hw, old(q), old(q), 1)
       PROVE  Sound(res)
  <2>1. /\ r.bad \in {0, 1} /\ faults + r.bad \in 0 .. MaxFaults
        /\ r.hw \in HW /\ (~rtcwake => r.hw.rtc = rtc)
    BY <1>1, <1>2, <1>7, ArmIs
  <2>2. \/ r.method = "none" /\ r.hw.timers = timers
        \/ r.method = "rtcwake" /\ r.hw.rtc = target /\ r.hw.timers = timers
        \/ r.method = "timer" /\ r.hw.timers = timers \cup {new(r)}
    BY <1>1, <1>2, <1>7, ArmIs DEF new
  <2>3. plan.method \in {"none", "rtcwake", "timer"}
    BY <1>2 DEF Arms, Units
  <2>4. CASE r.method # "none" /\ res = Result(Replaced(r.hw, plan, new(r)), new(r), new(r), r.bad)
    <3> PICK n : n = new(r)
      OBVIOUS
    <3>1. n \in Arms /\ n.method = r.method /\ n.target = target /\ r.method \in {"rtcwake", "timer"}
      BY <1>1, <1>4, <2>2, <2>4 DEF new
    <3> PICK g : g = Replaced(r.hw, plan, n)
      OBVIOUS
    <3>2. /\ g \in HW
          /\ ~Armed(plan) \/ (plan.method = "rtcwake" /\ n.method = "rtcwake") => g = r.hw
          /\ ~(~Armed(plan) \/ (plan.method = "rtcwake" /\ n.method = "rtcwake")) =>
                /\ g.rtc = IF plan.method = "rtcwake" THEN 0 ELSE r.hw.rtc
                /\ g.timers = (IF plan.method = "rtcwake" THEN r.hw.timers ELSE r.hw.timers \ {plan}) \cup
                              (IF n.method = "timer" THEN {n} ELSE {})
      BY <1>2, <1>10, <2>1, <3>1, ReplacedIs
    <3>3. res.hw = g /\ res.plan = n /\ res.arm = n /\ res.bad = r.bad
      BY <1>5, <2>4
    <3>4. ~rtcwake => g.rtc \in {rtc, 0}
      <4>1. g.rtc \in {r.hw.rtc, 0}
        BY <3>2
      <4> QED BY <2>1, <4>1
    <3>5. Fits(Hardware, plan) => Fits(g, n)
      BY <1>7, <2>2, <2>3, <3>1, <3>2 DEF Fits, Armed
    <3>6. n.method = "timer" => n \in g.timers
      BY <2>2, <3>1, <3>2
    <3>7. n.method = "rtcwake" /\ plan.method # "timer" => g.rtc = n.target
      BY <2>2, <2>3, <3>1, <3>2 DEF Armed
    <3>8. Armed(n) /\ n.method # "foreign-timer"
      BY <3>1 DEF Armed
    <3>9. g.timers = {} => n.method = "rtcwake"
      BY <3>1, <3>6
    <3> QED BY <2>1, <3>1, <3>2, <3>3, <3>4, <3>5, <3>7, <3>8, <3>9 DEF Sound
  <2>5. CASE r.method = "none" /\ ~Armed(plan) /\ res = Result(r.hw, [NoArm EXCEPT !.target = target], NoArm, 1) /\ r.bad = 1
    <3> PICK n : n = [NoArm EXCEPT !.target = target]
      OBVIOUS
    <3>1. n = Arm("none", target)
      BY DEF NoArm, Arm
    <3>2. n \in Arms /\ n.method = "none"
      BY <1>1, <1>4, <3>1
    <3>3. res.hw = r.hw /\ res.plan = n /\ res.arm = NoArm /\ res.bad = 1
      BY <1>5, <2>5
    <3>4. Fits(Hardware, plan) => Fits(r.hw, n)
      BY <1>7, <2>2, <2>3, <2>5 DEF Fits, Armed
    <3> QED BY <1>3, <2>1, <2>5, <3>2, <3>3, <3>4 DEF Sound
  <2>6. CASE r.method = "none" /\ plan.method = "timer" /\ res = Result(r.hw, plan, plan, 1) /\ r.bad = 1
    <3>1. res.hw = r.hw /\ res.plan = plan /\ res.arm = plan /\ res.bad = 1
      BY <1>5, <2>6
    <3>2. Fits(Hardware, plan) => Fits(r.hw, plan)
      BY <1>7, <2>2, <2>6 DEF Fits
    <3> QED BY <1>2, <2>1, <2>6, <3>1, <3>2 DEF Sound, Armed
  <2>7. ASSUME r.method = "none", Armed(plan), plan.method # "timer", r.bad = 1,
               NEW q \in ArmRtcWake(r.hw, plan.target, "timer"),
               \/ q.method = "none" /\ res = Result(q.hw, plan, NoArm, 1)
               \/ q.method # "none" /\ res = Result(q.hw, old(q), old(q), 1)
        PROVE  Sound(res)
    <3>1. q.hw \in HW /\ (~rtcwake => q.hw.rtc = r.hw.rtc)
      BY <1>2, <1>7, <2>1, ArmIs
    <3>2. \/ q.method = "none" /\ q.hw.timers = r.hw.timers
          \/ q.method = "rtcwake" /\ q.hw.rtc = plan.target /\ q.hw.timers = r.hw.timers
          \/ q.method = "timer" /\ q.hw.timers = r.hw.timers \cup {old(q)}
      BY <1>2, <1>7, <2>1, ArmIs DEF old
    <3>3. r.hw.timers = timers
      BY <2>2, <2>7
    <3>4. ~rtcwake => q.hw.rtc \in {rtc, 0}
      BY <2>1, <3>1
    <3>5. CASE q.method = "none" /\ res = Result(q.hw, plan, NoArm, 1)
      <4>1. res.hw = q.hw /\ res.plan = plan /\ res.arm = NoArm /\ res.bad = 1
        BY <1>5, <3>5
      <4>2. Fits(Hardware, plan) => Fits(q.hw, plan)
        BY <1>7, <3>2, <3>3, <3>5 DEF Fits
      <4> QED BY <1>2, <1>3, <2>1, <2>7, <3>1, <3>4, <4>1, <4>2 DEF Sound
    <3>6. CASE q.method # "none" /\ res = Result(q.hw, old(q), old(q), 1)
      <4> PICK n : n = old(q)
        OBVIOUS
      <4>1. n \in Arms /\ n.method = q.method /\ n.target = plan.target /\ q.method \in {"rtcwake", "timer"}
        BY <1>2, <1>4, <3>2, <3>6 DEF old
      <4>2. res.hw = q.hw /\ res.plan = n /\ res.arm = n /\ res.bad = 1
        BY <1>5, <3>6
      <4>3. Fits(Hardware, plan) => Fits(q.hw, n)
        BY <1>7, <2>3, <2>7, <3>2, <3>3 DEF Fits, Armed
      <4>4. (q.hw.timers = {} => n.method = "rtcwake") /\ (n.method = "rtcwake" => q.hw.rtc = n.target)
        BY <3>2, <4>1
      <4>5. Armed(n) /\ n.method # "foreign-timer"
        BY <4>1 DEF Armed
      <4> QED BY <2>1, <2>7, <3>1, <3>4, <4>1, <4>2, <4>3, <4>4, <4>5 DEF Sound
    <3> QED BY <2>7, <3>5, <3>6
  <2> QED BY <1>10, <2>4, <2>5, <2>6, <2>7
<1> QED BY <1>6, <1>8, <1>9, <1>10

----------------------------------------------------------------------------
(* The kinds of steps *)

States == [pc : {"idle", "armed", "planned", "suspending", "waiting", "resumed"}, arm : Arms, goal : 0 .. MaxTarget]
Flight == {"suspending", "waiting"}

\* Nobody begins or ends a cycle.
Calm ==
  /\ act' \in [Actors -> States]
  /\ \A a \in Actors : act'[a] = act[a] \/
        (act[a].pc \notin Flight /\ act'[a].pc \notin Flight /\ (a \in Missions => act'[a].arm.method # "foreign-timer"))

CalmStep == Calm /\ UNCHANGED <<rtcwake, wakes, planner, sleeps>> /\ faults' \in 0 .. MaxFaults

\* The plan follows a request.
AdoptStep ==
  /\ Calm /\ Free /\ UNCHANGED <<rtcwake, planner, sleeps>> /\ requests' \in [Missions -> 0 .. MaxTarget]
  /\ \E res \in Reconcile(requests') : Adopt(requests', res)

\* A cycle begins, of a mission ...
Begins(a) == planner' = a /\ cycles < MaxCycles /\ cycles' = cycles + 1
             /\ ledger' = Append(ledger, [id |-> cycles + 1, event |-> "start"])
BeginStep(m) ==
  /\ Free /\ Begins(m) /\ UNCHANGED <<rtcwake, wakes, host, broken, faults>>
  /\ act[m].arm.target = act[m].goal /\ Holds(Hardware, act[m].arm)
  /\ act' = [act EXCEPT ![m] = [act[m] EXCEPT !.pc = "suspending"]]

LEMMA ActIs ==
  ASSUME Types, NEW a \in Actors, NEW new, act' = [act EXCEPT ![a] = new]
  PROVE  /\ act'[a] = new /\ (\A b \in Actors : b # a => act'[b] = act[b]) /\ act[a] \in States
         /\ (new \in States => act' \in [Actors -> States])
BY DEF Types, TypeOK, States

LEMMA MissionMoves ==
  ASSUME Types, NEW m \in Missions, Mission(m)
  PROVE  CalmStep \/ AdoptStep \/ BeginStep(m)
<1> USE DEF wakes, sleeps, Become
<1>1. m \in Actors
  BY Limits
<1>2. act \in [Actors -> States] /\ act[m] \in States /\ act[m].arm.method # "foreign-timer" /\ requests \in [Missions -> 0 .. MaxTarget]
      /\ faults \in 0 .. MaxFaults
  BY <1>1 DEF Types, TypeOK, States
<1>3. UNCHANGED act => Calm
  BY <1>2 DEF Calm
<1>4. ASSUME RefreshWake(m) \/ RefreshFails(m) \/ AskStop(m) PROVE CalmStep
  <2>1. faults' \in 0 .. MaxFaults
    BY <1>2, <1>4, Limits DEF RefreshWake, RefreshFails, AskStop
  <2> QED BY <1>3, <1>4, <2>1 DEF RefreshWake, RefreshFails, AskStop, CalmStep
<1>5. ASSUME NEW t \in 0 .. MaxTarget, RefreshRequest(m, t) PROVE AdoptStep
  BY <1>2, <1>3, <1>5 DEF RefreshRequest, UpdateWakeRequest, AdoptStep
<1>6. ASSUME Stop(m) PROVE AdoptStep
  <2>1. 0 \in 0 .. MaxTarget
    BY Limits
  <2> QED BY <1>2, <1>3, <1>6, <2>1 DEF Stop, UpdateWakeRequest, AdoptStep
<1>7. ASSUME NEW t \in Targets, JoinPlan(m, t) PROVE AdoptStep
  <2>0. t \in 0 .. MaxTarget
    BY DEF Targets
  <2> PICK res \in Reconcile([requests EXCEPT ![m] = t]) :
                 /\ UpdateWakeRequest(m, t, res)
                 /\ act' = [act EXCEPT ![m] = IF Armed(res.arm) THEN [pc |-> "armed", arm |-> res.arm, goal |-> 0] ELSE Resting]
    BY <1>7 DEF JoinPlan
  <2>1. requests' \in [Missions -> 0 .. MaxTarget] /\ res \in Reconcile(requests') /\ Adopt(requests', res) /\ Free
    BY <1>2, <1>7, <2>0 DEF UpdateWakeRequest, JoinPlan
  <2>2. NoArm \in Arms /\ NoArm.method = "none"
    BY Limits DEF Arms, NoArm
  <2>3. res.arm \in Arms /\ res.arm.method # "foreign-timer"
    BY <2>1, <2>2, ReconcileIs DEF Sound
  <2> PICK new : new = IF Armed(res.arm) THEN [pc |-> "armed", arm |-> res.arm, goal |-> 0] ELSE Resting
    OBVIOUS
  <2>4. new \in States /\ new.pc \notin Flight /\ new.arm.method # "foreign-timer"
    BY <2>2, <2>3, Limits DEF States, Flight, Resting
  <2>5. act[m].pc \notin Flight
    BY <1>7 DEF JoinPlan, At, Flight
  <2>6. Calm
    BY <1>1, <2>4, <2>5, ActIs DEF Calm
  <2>7. UNCHANGED <<rtcwake, planner, sleeps>>
    BY <1>7 DEF JoinPlan
  <2> QED BY <2>1, <2>6, <2>7 DEF AdoptStep
<1>8. ASSUME ReadSharedTarget(m) PROVE CalmStep
  <2>1. /\ act[m].pc \notin Flight
        /\ \/ act' = [act EXCEPT ![m] = [act[m] EXCEPT !.pc = "planned", !.goal = Earliest(requests)]]
           \/ act' = [act EXCEPT ![m] = Resting]
    BY <1>8 DEF ReadSharedTarget, At, Flight
  <2>2. Earliest(requests) \in 0 .. MaxTarget
    BY <1>2, EarliestIs
  <2>3. CASE act' = [act EXCEPT ![m] = [act[m] EXCEPT !.pc = "planned", !.goal = Earliest(requests)]]
    <3> PICK new : new = [act[m] EXCEPT !.pc = "planned", !.goal = Earliest(requests)]
      OBVIOUS
    <3>1. new \in States /\ new.pc \notin Flight /\ new.arm = act[m].arm
      BY <1>2, <2>2 DEF States, Flight
    <3>2. Calm
      BY <1>1, <1>2, <2>1, <2>3, <3>1, ActIs DEF Calm
    <3> QED BY <1>2, <1>8, <3>2 DEF ReadSharedTarget, CalmStep
  <2>4. CASE act' = [act EXCEPT ![m] = Resting]
    <3>1. Resting \in States /\ Resting.pc \notin Flight /\ Resting.arm.method # "foreign-timer"
      BY Limits DEF Resting, States, Arms, NoArm, Flight
    <3>2. Calm
      BY <1>1, <2>1, <2>4, <3>1, ActIs DEF Calm
    <3> QED BY <1>2, <1>8, <3>2 DEF ReadSharedTarget, CalmStep
  <2> QED BY <2>1, <2>3, <2>4
<1>9. ASSUME BeginSuspend(m) PROVE CalmStep \/ BeginStep(m)
  <2>1. CASE act' = [act EXCEPT ![m] = [act[m] EXCEPT !.pc = "resumed"]] /\ UNCHANGED <<planner, cycles, ledger>>
    <3> PICK new : new = [act[m] EXCEPT !.pc = "resumed"]
      OBVIOUS
    <3>1. new \in States /\ new.pc \notin Flight /\ new.arm = act[m].arm
      BY <1>2 DEF States, Flight
    <3>2. act[m].pc \notin Flight
      BY <1>9 DEF BeginSuspend, At, Flight
    <3>3. Calm
      BY <1>1, <1>2, <2>1, <3>1, <3>2, ActIs DEF Calm
    <3> QED BY <1>2, <1>9, <2>1, <3>3 DEF BeginSuspend, CalmStep
  <2>2. CASE ~(act' = [act EXCEPT ![m] = [act[m] EXCEPT !.pc = "resumed"]] /\ UNCHANGED <<planner, cycles, ledger>>)
    BY <1>9, <2>2 DEF BeginSuspend, BeginStep, Begins
  <2> QED BY <2>1, <2>2
<1>10. ASSUME ReconcileSharedWake(m) PROVE AdoptStep
  <2>1. Resting \in States /\ Resting.pc \notin Flight /\ Resting.arm.method # "foreign-timer"
    BY Limits DEF Resting, States, Arms, NoArm, Flight
  <2>2. act[m].pc \notin Flight /\ act' = [act EXCEPT ![m] = Resting]
    BY <1>10 DEF ReconcileSharedWake, At, Flight
  <2>3. Calm
    BY <1>1, <2>1, <2>2, ActIs DEF Calm
  <2> QED BY <1>2, <1>10, <2>3 DEF ReconcileSharedWake, AdoptStep
<1> QED BY <1>4, <1>5, <1>6, <1>7, <1>8, <1>9, <1>10 DEF Mission

Kinds ==
  \/ CalmStep \/ AdoptStep \/ (\E m \in Missions : BeginStep(m)) \/ (\E t \in Targets : BeginForeign(t))
  \/ (\E a \in Actors : SuspendRejected(a) \/ SuspendAccepted(a) \/ WaitOver(a) \/ Kill(a))
  \/ Tick \/ UserWakes \/ Wedge

LEMMA Steps == ASSUME Types, Moved PROVE Kinds
<1>1. UNCHANGED vars => CalmStep
  BY DEF vars, wakes, sleeps, CalmStep, Calm, Types, TypeOK, States
<1> QED BY <1>1, MissionMoves DEF Moved, Next, Cycle, Kinds

----------------------------------------------------------------------------
(* Requests and their workers *)

WorkTypes == worker \in [Missions -> {"loop", "wake", "dead"}] /\ stop \in [Missions -> {"no", "asked", "done"}]

\* A request comes back only through a worker that stop() still waits for.
LEMMA WorkStep ==
  ASSUME Types, ReleaseInv, Moved
  PROVE  WorkTypes' /\ ReleaseInv'
<1> USE DEF Types, TypeOK, WorkTypes, ReleaseInv
<1>1. ASSUME NEW m \in Missions, RefreshWake(m) \/ RefreshFails(m) \/ AskStop(m) PROVE WorkTypes' /\ ReleaseInv'
  BY <1>1 DEF RefreshWake, RefreshFails, AskStop, wakes
<1>2. ASSUME NEW m \in Missions, NEW t \in 0 .. MaxTarget, RefreshRequest(m, t) PROVE WorkTypes' /\ ReleaseInv'
  BY <1>2 DEF RefreshRequest, UpdateWakeRequest
<1>3. ASSUME NEW m \in Missions, Stop(m) PROVE WorkTypes' /\ ReleaseInv'
  BY <1>3 DEF Stop, UpdateWakeRequest
<1>4. ASSUME NEW m \in Missions, NEW t \in Targets, JoinPlan(m, t) PROVE WorkTypes' /\ ReleaseInv'
  BY <1>4 DEF JoinPlan, UpdateWakeRequest
<1>5. ASSUME Tick PROVE WorkTypes' /\ ReleaseInv'
  <2>1. UNCHANGED <<worker, stop>> /\ \A m \in Missions : requests'[m] = Lower(requests[m])
    BY <1>5 DEF Tick
  <2>2. Lower(0) = 0
    BY DEF Lower
  <2> QED BY <2>1, <2>2
<1>6. ASSUME Wedge PROVE WorkTypes' /\ ReleaseInv'
  BY <1>6 DEF Wedge
<1>7. ASSUME UNCHANGED <<requests, worker, stop>> PROVE WorkTypes' /\ ReleaseInv'
  BY <1>7
<1>8. ASSUME NEW m \in Missions, ReadSharedTarget(m) \/ BeginSuspend(m) \/ ReconcileSharedWake(m)
      PROVE  UNCHANGED <<requests, worker, stop>>
  BY <1>8 DEF ReadSharedTarget, BeginSuspend, ReconcileSharedWake, wakes
<1>9. ASSUME NEW a \in Actors, Cycle(a) \/ Kill(a) PROVE UNCHANGED <<requests, worker, stop>>
  BY <1>9 DEF Cycle, SuspendRejected, SuspendAccepted, WaitOver, Kill, wakes
<1>10. ASSUME (\E t \in Targets : BeginForeign(t)) \/ UserWakes \/ UNCHANGED vars PROVE UNCHANGED <<requests, worker, stop>>
  BY <1>10 DEF BeginForeign, UserWakes, vars, wakes
<1> HIDE DEF Types, TypeOK, WorkTypes, ReleaseInv
<1>11. ASSUME NEW m \in Missions, Mission(m) PROVE WorkTypes' /\ ReleaseInv'
  BY <1>1, <1>2, <1>3, <1>4, <1>7, <1>8, <1>11 DEF Mission
<1> QED BY <1>5, <1>6, <1>7, <1>9, <1>10, <1>11 DEF Moved, Next

----------------------------------------------------------------------------
(* Types *)

CoreTypes ==
  /\ rtcwake \in BOOLEAN /\ rtc \in 0 .. MaxTarget /\ timers \subseteq [method : Units, target : Targets]
  /\ requests \in [Missions -> 0 .. MaxTarget] /\ plan \in Arms /\ missed \subseteq Missions
  /\ planner \in Actors \cup {None} /\ host \in {"awake", "asleep"}
  /\ ledger \in Seq([id : 1 .. MaxCycles, event : {"start", "done"}])
  /\ cycles \in 0 .. MaxCycles /\ broken \subseteq 1 .. MaxCycles
  /\ act \in [Actors -> States]
  /\ faults \in 0 .. MaxFaults
  /\ plan.method # "foreign-timer"
  /\ \A m \in Missions : act[m].arm.method # "foreign-timer"

LEMMA TypesAre == Types <=> CoreTypes /\ WorkTypes
BY DEF Types, TypeOK, CoreTypes, WorkTypes, States

Lines == [id : 1 .. MaxCycles, event : {"start", "done"}]

\* trim_ledger keeps the end of the ledger.
LEMMA TrimmedIs ==
  ASSUME NEW S, NEW log \in Seq(S)
  PROVE  /\ Trimmed(log) \in Seq(S) /\ Len(Trimmed(log)) <= Len(log)
         /\ \A i \in 1 .. Len(Trimmed(log)) : Trimmed(log)[i] = log[i + (Len(log) - Len(Trimmed(log)))]
<1>1. CASE Len(log) <= Keep
  BY <1>1 DEF Trimmed
<1>2. CASE ~(Len(log) <= Keep)
  <2> DEFINE m == Len(log) - Keep + 1
             n == Len(log)
  <2>1. n \in Nat /\ m \in 1 .. n /\ Keep \in Nat \ {0} /\ n - m + 1 = Keep
    BY <1>2, Limits
  <2>2. Trimmed(log) = SubSeq(log, m, n)
    BY <1>2 DEF Trimmed
  <2>3. /\ SubSeq(log, m, n) \in Seq(S) /\ Len(SubSeq(log, m, n)) = n - m + 1
        /\ \A i \in 1 .. n - m + 1 : SubSeq(log, m, n)[i] = log[m + i - 1]
    <3> HIDE DEF m
    <3> QED BY <2>1, SubSeqProperties
  <2>4. \A i \in 1 .. Keep : m + i - 1 = i + (n - Keep)
    BY <2>1
  <2> HIDE DEF m
  <2> QED BY <2>1, <2>2, <2>3, <2>4
<1> QED BY <1>1, <1>2

LEMMA FinishedIs ==
  ASSUME CoreTypes, cycles \in 1 .. MaxCycles
  PROVE  /\ Finished \in Seq(Lines) /\ Len(Finished) \in Nat /\ Len(Finished) <= Len(ledger) + 1 /\ Len(ledger) \in Nat
         /\ LET k == Len(ledger) + 1 - Len(Finished)
            IN  \A i \in 1 .. Len(Finished) :
                  \/ i + k = Len(ledger) + 1 /\ Finished[i] = [id |-> cycles, event |-> "done"]
                  \/ i + k \in 1 .. Len(ledger) /\ Finished[i] = ledger[i + k]
<1> DEFINE line == [id |-> cycles, event |-> "done"]
           log == Append(ledger, line)
<1>1. ledger \in Seq(Lines) /\ line \in Lines
  BY DEF CoreTypes, Lines
<1> HIDE DEF line
<1>2. /\ log \in Seq(Lines) /\ Len(log) = Len(ledger) + 1 /\ Len(ledger) \in Nat
      /\ \A i \in 1 .. Len(log) : log[i] = IF i = Len(ledger) + 1 THEN line ELSE ledger[i]
  BY <1>1, AppendProperties
<1>3. Finished = Trimmed(log)
  BY DEF Finished, line
<1> HIDE DEF log
<1>4. /\ Finished \in Seq(Lines) /\ Len(Finished) <= Len(log)
      /\ \A i \in 1 .. Len(Finished) : Finished[i] = log[i + (Len(log) - Len(Finished))]
  BY <1>2, <1>3, TrimmedIs
<1>5. Len(Finished) \in Nat
  BY <1>4
<1> DEFINE n == Len(Finished)
           l == Len(ledger)
<1> SUFFICES ASSUME NEW i \in 1 .. n
             PROVE  \/ i + (l + 1 - n) = l + 1 /\ Finished[i] = line
                    \/ i + (l + 1 - n) \in 1 .. l /\ Finished[i] = ledger[i + (l + 1 - n)]
  BY <1>2, <1>4, <1>5 DEF line
<1>6. Finished[i] = log[i + (l + 1 - n)]
  BY <1>2, <1>4
<1>7. i + (l + 1 - n) \in 1 .. l + 1
  BY <1>2, <1>4, <1>5
<1> QED BY <1>2, <1>6, <1>7

\* What the steps of a cycle do to its actor.
LEMMA RestingIs ==
  /\ Resting \in States /\ Resting.pc = "idle" /\ Resting.arm = NoArm /\ NoArm \in Arms
  /\ NoArm.method = "none" /\ NoArm.target = 0 /\ Resting.goal = 0
BY Limits DEF Resting, States, Arms, NoArm

LEMMA OverIs ==
  ASSUME Types, NEW a \in Actors, Over(a)
  PROVE  \E new \in States : act' = [act EXCEPT ![a] = new] /\ new.pc \in {"idle", "resumed"} /\ new.arm = NoArm
<1> PICK new : new = IF a = Foreign THEN Resting ELSE [Resting EXCEPT !.pc = "resumed"]
  OBVIOUS
<1>1. new.pc \in {"idle", "resumed"} /\ new \in States /\ new.arm = NoArm
  <2>1. CASE a = Foreign
    BY <2>1, RestingIs
  <2>2. CASE a # Foreign
    <3>1. new = [pc |-> "resumed", arm |-> NoArm, goal |-> 0]
      BY <2>2 DEF Resting
    <3> QED BY <3>1, RestingIs, Limits DEF States
  <2> QED BY <2>1, <2>2
<1> QED BY <1>1 DEF Over, Become

LEMMA PhaseIs ==
  ASSUME NEW s \in States, NEW pc \in {"suspending", "waiting"}, NEW v, v = [s EXCEPT !.pc = pc]
  PROVE  v \in States /\ v.pc = pc /\ v.arm = s.arm /\ v.goal = s.goal
<1>1. v = [pc |-> pc, arm |-> s.arm, goal |-> s.goal]
  BY DEF States
<1> QED BY <1>1 DEF States

\* One tick of an arm and of an actor.
LEMMA LowerIs == \A n \in 0 .. MaxTarget : Lower(n) \in 0 .. MaxTarget /\ (n > 0 => Lower(n) = n - 1) /\ (n = 0 => Lower(n) = 0)
BY Limits DEF Lower

LEMMA ArmTicks ==
  ASSUME NEW p \in Arms, NEW v, v = [p EXCEPT !.target = Lower(@)]
  PROVE  v \in Arms /\ v = Arm(p.method, Lower(p.target)) /\ v.method = p.method /\ v.target = Lower(p.target)
<1>1. v = Arm(p.method, Lower(p.target))
  BY DEF Arms, Arm
<1>2. Lower(p.target) \in 0 .. MaxTarget /\ p.method \in {"none", "rtcwake"} \cup Units
  BY LowerIs DEF Arms
<1> QED BY <1>1, <1>2 DEF Arm, Arms

LEMMA ActorTicks ==
  ASSUME NEW s \in States, NEW v, v = [s EXCEPT !.arm.target = Lower(@), !.goal = Lower(@)]
  PROVE  /\ v \in States /\ v.pc = s.pc /\ v.arm = Arm(s.arm.method, Lower(s.arm.target)) /\ v.goal = Lower(s.goal)
         /\ v.arm.method = s.arm.method /\ v.arm.target = Lower(s.arm.target)
<1> PICK p : p = [s.arm EXCEPT !.target = Lower(@)]
  OBVIOUS
<1>1. s.arm \in Arms /\ s.goal \in 0 .. MaxTarget
  BY DEF States
<1>2. p \in Arms /\ p = Arm(s.arm.method, Lower(s.arm.target)) /\ p.method = s.arm.method /\ p.target = Lower(s.arm.target)
  BY <1>1, ArmTicks
<1>3. v = [pc |-> s.pc, arm |-> p, goal |-> Lower(s.goal)]
  BY DEF States
<1>4. Lower(s.goal) \in 0 .. MaxTarget
  BY <1>1, LowerIs
<1> QED BY <1>2, <1>3, <1>4 DEF States

LEMMA TypeStep ==
  ASSUME WakeInv, Moved
  PROVE  Types'
<1> USE DEF wakes, sleeps
<1>0. CoreTypes /\ WorkTypes' /\ Types
  BY WorkStep, TypesAre DEF WakeInv
<1>1. ASSUME CalmStep PROVE CoreTypes'
  BY <1>0, <1>1, Limits DEF CalmStep, Calm, CoreTypes
<1>2. ASSUME AdoptStep PROVE CoreTypes'
  <2> PICK res \in Reconcile(requests') : Adopt(requests', res) /\ requests' \in [Missions -> 0 .. MaxTarget]
    BY <1>2 DEF AdoptStep
  <2>1. Sound(res)
    <3> PICK reqs : reqs = requests'
      OBVIOUS
    <3> QED BY <1>0, ReconcileIs
  <2>2. /\ rtc' \in 0 .. MaxTarget /\ timers' \subseteq [method : Units, target : Targets] /\ plan' \in Arms
        /\ plan'.method # "foreign-timer" /\ missed' \subseteq Missions /\ faults' \in 0 .. MaxFaults
    BY <2>1 DEF Adopt, Sound, HW
  <2> QED BY <1>0, <1>2, <2>2, Limits DEF AdoptStep, Calm, CoreTypes
<1>3. ASSUME NEW m \in Missions, BeginStep(m) PROVE CoreTypes'
  <2>1. m \in Actors
    BY Limits
  <2> PICK new : new = [act[m] EXCEPT !.pc = "suspending"]
    OBVIOUS
  <2>2. new \in States /\ new.arm = act[m].arm
    BY <1>0, <2>1, PhaseIs DEF CoreTypes
  <2>3. act' = [act EXCEPT ![m] = new]
    BY <1>3 DEF BeginStep
  <2>4. cycles' \in 0 .. MaxCycles /\ ledger' \in Seq(Lines)
    BY <1>0, <1>3, Limits DEF BeginStep, Begins, CoreTypes, Lines
  <2> QED BY <1>0, <1>3, <2>1, <2>2, <2>3, <2>4 DEF BeginStep, Begins, CoreTypes, Lines
<1>4. ASSUME NEW t \in Targets, BeginForeign(t) PROVE CoreTypes'
  <2> PICK r \in ArmRtcWake(Hardware, t, "foreign-timer") :
         /\ rtc' = r.hw.rtc /\ timers' = r.hw.timers /\ faults' = faults + r.bad
         /\ act' = [act EXCEPT ![Foreign] = [pc |-> "suspending", arm |-> Arm(r.method, t), goal |-> t]]
    BY <1>4 DEF BeginForeign, Become
  <2>1. t \in 0 .. MaxTarget /\ "foreign-timer" \in Units /\ Hardware \in HW
    BY <1>0, HardwareIs DEF Targets, Units, Types
  <2>2. /\ r.bad \in {0, 1} /\ faults + r.bad \in 0 .. MaxFaults /\ r.hw \in HW /\ r.method \in {"none", "rtcwake"} \cup Units
    BY <1>0, <2>1, ArmIs DEF CoreTypes
  <2>3. [pc |-> "suspending", arm |-> Arm(r.method, t), goal |-> t] \in States
    BY <2>1, <2>2 DEF States, Arms, Arm
  <2>4. cycles' \in 0 .. MaxCycles /\ ledger' \in Seq(Lines)
    BY <1>0, <1>4, Limits DEF BeginForeign, CoreTypes, Lines
  <2>5. act' \in [Actors -> States] /\ \A m \in Missions : act'[m] = act[m]
    BY <1>0, <2>3, Limits DEF CoreTypes
  <2>6. missed' \subseteq Missions /\ planner' = Foreign
    BY <1>4 DEF BeginForeign
  <2> QED BY <1>0, <1>4, <2>2, <2>4, <2>5, <2>6, Limits DEF BeginForeign, CoreTypes, HW, Lines
<1>5. ASSUME NEW a \in Actors, SuspendRejected(a) \/ WaitOver(a) PROVE CoreTypes'
  <2> PICK new \in States : act' = [act EXCEPT ![a] = new] /\ new.arm = NoArm
    BY <1>0, <1>5, OverIs DEF SuspendRejected, WaitOver
  <2>1. act' \in [Actors -> States] /\ \A m \in Missions : act'[m].arm.method # "foreign-timer"
    BY <1>0, RestingIs, Limits DEF CoreTypes
  <2>2. cycles \in 1 .. MaxCycles
    BY <1>0, <1>5, Limits DEF WakeInv, PlannerInv, LedgerInv, Flying, CoreTypes, SuspendRejected, WaitOver, At
  <2>3. ledger' \in Seq(Lines)
    BY <1>0, <1>5, <2>2, FinishedIs DEF SuspendRejected, WaitOver
  <2>4. rtc' \in 0 .. MaxTarget /\ timers' \subseteq [method : Units, target : Targets]
    <3>1. CASE SuspendRejected(a)
      <4>1. act[a].arm \in Arms /\ Hardware \in HW
        BY <1>0, HardwareIs DEF CoreTypes, States, Types
      <4>2. DisarmRtcWake(Hardware, act[a].arm) \in HW
        BY <4>1, DisarmIs
      <4> QED BY <3>1, <4>2 DEF SuspendRejected, HW
    <3>2. CASE WaitOver(a)
      BY <1>0, <3>2 DEF WaitOver, CoreTypes
    <3> QED BY <1>5, <3>1, <3>2
  <2>5. UNCHANGED <<rtcwake, requests, plan, missed, host, cycles, broken, faults>> /\ planner' = None
    BY <1>5 DEF SuspendRejected, WaitOver
  <2> QED BY <1>0, <2>1, <2>3, <2>4, <2>5 DEF CoreTypes, Lines
<1>6. ASSUME NEW a \in Actors, SuspendAccepted(a) PROVE CoreTypes'
  <2> PICK new : new = [act[a] EXCEPT !.pc = "waiting"]
    OBVIOUS
  <2>1. new \in States /\ new.arm = act[a].arm
    BY <1>0, PhaseIs DEF CoreTypes
  <2>2. act' = [act EXCEPT ![a] = new]
    BY <1>6 DEF SuspendAccepted, Become
  <2> QED BY <1>0, <1>6, <2>1, <2>2 DEF SuspendAccepted, CoreTypes
<1>7. ASSUME NEW a \in Actors, Kill(a) PROVE CoreTypes'
  <2>1. act' = [act EXCEPT ![a] = Resting]
    BY <1>7 DEF Kill, Become
  <2>2. act' \in [Actors -> States] /\ \A m \in Missions : act'[m].arm.method # "foreign-timer"
    BY <1>0, <2>1, RestingIs, Limits DEF CoreTypes
  <2>3. broken' \subseteq 1 .. MaxCycles /\ planner' \in Actors \cup {None} /\ faults' \in 0 .. MaxFaults
    <3>1. planner = a => cycles \in 1 .. MaxCycles
      BY <1>0, Limits DEF WakeInv, LedgerInv, Flying, CoreTypes
    <3>2. broken' = broken \/ (planner = a /\ broken' = broken \cup {cycles})
      BY <1>7 DEF Kill
    <3>3. faults' = faults + 1 /\ faults < MaxFaults /\ planner' \in {planner, None}
      BY <1>7 DEF Kill
    <3>4. broken' \subseteq 1 .. MaxCycles
      BY <1>0, <3>1, <3>2 DEF CoreTypes
    <3> QED BY <1>0, <3>3, <3>4, Limits DEF CoreTypes
  <2> QED BY <1>0, <1>7, <2>2, <2>3 DEF Kill, CoreTypes
<1>8. ASSUME Tick PROVE CoreTypes'
  <2>1. rtc' \in 0 .. MaxTarget /\ requests' \in [Missions -> 0 .. MaxTarget] /\ missed' \subseteq Missions
    BY <1>0, <1>8, LowerIs DEF Tick, CoreTypes
  <2>2. timers' \subseteq [method : Units, target : Targets]
    <3> SUFFICES ASSUME NEW w \in timers' PROVE w \in [method : Units, target : Targets]
      OBVIOUS
    <3>1. PICK u \in timers : u.target > 1 /\ w = [u EXCEPT !.target = @ - 1]
      BY <1>8 DEF Tick
    <3>2. u \in [method : Units, target : Targets]
      BY <1>0 DEF CoreTypes
    <3>3. w = [method |-> u.method, target |-> u.target - 1]
      BY <3>1, <3>2
    <3> QED BY <3>1, <3>2, <3>3, Limits DEF Targets
  <2>3. plan' \in Arms /\ plan'.method = plan.method
    <3> PICK v : v = [plan EXCEPT !.target = Lower(@)]
      OBVIOUS
    <3> QED BY <1>0, <1>8, ArmTicks DEF Tick, CoreTypes
  <2>4. act' \in [Actors -> States] /\ \A a \in Actors : act'[a].arm.method = act[a].arm.method
    <3>1. ASSUME NEW a \in Actors PROVE act'[a] \in States /\ act'[a].arm.method = act[a].arm.method
      <4> PICK v : v = [act[a] EXCEPT !.arm.target = Lower(@), !.goal = Lower(@)]
        OBVIOUS
      <4>1. v \in States /\ v.arm.method = act[a].arm.method
        BY <1>0, ActorTicks DEF CoreTypes
      <4> QED BY <1>8, <4>1 DEF Tick
    <3>2. act' = [a \in Actors |-> act'[a]]
      BY <1>8 DEF Tick
    <3> QED BY <3>1, <3>2
  <2>5. host' \in {"awake", "asleep"} /\ UNCHANGED <<rtcwake, planner, ledger, cycles, broken, faults>>
    BY <1>0, <1>8 DEF Tick, CoreTypes
  <2> QED BY <1>0, <2>1, <2>2, <2>3, <2>4, <2>5, Limits DEF CoreTypes
<1>9. ASSUME UserWakes PROVE CoreTypes'
  BY <1>0, <1>9 DEF UserWakes, CoreTypes
<1>10. ASSUME Wedge PROVE CoreTypes'
  <2>1. broken' \subseteq 1 .. MaxCycles /\ faults' \in 0 .. MaxFaults
    BY <1>0, <1>10, Limits DEF WakeInv, PlannerInv, LedgerInv, Flying, CoreTypes, Wedge, At
  <2>2. act' \in [Actors -> States] /\ \A m \in Missions : act'[m] = Resting
    BY <1>10, RestingIs, Limits DEF Wedge
  <2> QED BY <1>0, <1>10, <2>1, <2>2, RestingIs, Limits DEF Wedge, CoreTypes
<1>11. CoreTypes'
  BY <1>0, <1>1, <1>2, <1>3, <1>4, <1>5, <1>6, <1>7, <1>8, <1>9, <1>10, Steps DEF Kinds
<1> QED BY <1>0, <1>11, TypesAre DEF Types, CoreTypes, WorkTypes, TypeOK, States

----------------------------------------------------------------------------
(* The planner lock and the ledger *)

\* Whoever begins a cycle takes the lock, whoever ends one gives it back.
LEMMA CycleMoves ==
  ASSUME Types
  PROVE  /\ \A m \in Missions : BeginStep(m) =>
              /\ planner = None /\ Begins(m) /\ Awake /\ UNCHANGED <<host, broken>>
              /\ act'[m].pc = "suspending" /\ \A b \in Actors : b # m => act'[b] = act[b]
         /\ \A t \in Targets : BeginForeign(t) =>
              /\ planner = None /\ Begins(Foreign) /\ Awake /\ UNCHANGED <<host, broken>>
              /\ act'[Foreign].pc = "suspending" /\ \A b \in Actors : b # Foreign => act'[b] = act[b]
         /\ \A a \in Actors : SuspendRejected(a) \/ WaitOver(a) =>
              /\ act[a].pc \in Flight /\ act'[a].pc \notin Flight /\ \A b \in Actors : b # a => act'[b] = act[b]
              /\ planner' = None /\ ledger' = Finished /\ UNCHANGED <<host, cycles, broken>>
              /\ ~Awake => At(a, "suspending")
         /\ \A a \in Actors : SuspendAccepted(a) =>
              /\ act[a].pc = "suspending" /\ act'[a].pc = "waiting" /\ \A b \in Actors : b # a => act'[b] = act[b]
              /\ UNCHANGED <<planner, ledger, cycles, broken>>
         /\ \A a \in Actors : Kill(a) => act'[a].pc \notin Flight /\ \A b \in Actors : b # a => act'[b] = act[b]
<1> USE DEF sleeps, Become
<1>1. ASSUME NEW m \in Missions, BeginStep(m)
      PROVE  act'[m].pc = "suspending" /\ \A b \in Actors : b # m => act'[b] = act[b]
  <2>1. m \in Actors /\ act[m] \in States
    BY Limits DEF Types, TypeOK, States
  <2> PICK new : new = [act[m] EXCEPT !.pc = "suspending"]
    OBVIOUS
  <2>2. new.pc = "suspending" /\ act' = [act EXCEPT ![m] = new]
    BY <1>1, <2>1, PhaseIs DEF BeginStep
  <2> QED BY <2>1, <2>2, ActIs
<1>2. ASSUME NEW t \in Targets, BeginForeign(t)
      PROVE  act'[Foreign].pc = "suspending" /\ \A b \in Actors : b # Foreign => act'[b] = act[b]
  <2> PICK new : new.pc = "suspending" /\ act' = [act EXCEPT ![Foreign] = new]
    BY <1>2 DEF BeginForeign
  <2> QED BY Limits, ActIs
<1>3. ASSUME NEW a \in Actors, SuspendRejected(a) \/ WaitOver(a)
      PROVE  act'[a].pc \notin Flight /\ \A b \in Actors : b # a => act'[b] = act[b]
  <2> PICK new \in States : act' = [act EXCEPT ![a] = new] /\ new.pc \in {"idle", "resumed"}
    BY <1>3, OverIs DEF SuspendRejected, WaitOver
  <2> QED BY ActIs DEF Flight
<1>4. ASSUME NEW a \in Actors, SuspendAccepted(a) PROVE act'[a].pc = "waiting" /\ \A b \in Actors : b # a => act'[b] = act[b]
  <2>1. act[a] \in States
    BY DEF Types, TypeOK, States
  <2> PICK new : new = [act[a] EXCEPT !.pc = "waiting"]
    OBVIOUS
  <2>2. new.pc = "waiting" /\ act' = [act EXCEPT ![a] = new]
    BY <1>4, <2>1, PhaseIs DEF SuspendAccepted
  <2> QED BY <2>2, ActIs
<1>5. ASSUME NEW a \in Actors, Kill(a) PROVE act'[a].pc \notin Flight /\ \A b \in Actors : b # a => act'[b] = act[b]
  BY <1>5, ActIs, RestingIs DEF Kill, Flight
<1>6. \A m \in Missions : BeginStep(m) => planner = None /\ Begins(m) /\ Awake /\ UNCHANGED <<host, broken>>
  BY DEF BeginStep, Free
<1>7. \A t \in Targets : BeginForeign(t) => planner = None /\ Begins(Foreign) /\ Awake /\ UNCHANGED <<host, broken>>
  BY DEF BeginForeign, Begins, Free
<1>8. \A a \in Actors : SuspendRejected(a) \/ WaitOver(a) =>
              /\ act[a].pc \in Flight /\ planner' = None /\ ledger' = Finished /\ UNCHANGED <<host, cycles, broken>>
              /\ ~Awake => At(a, "suspending")
  BY DEF SuspendRejected, WaitOver, At, Flight
<1>9. \A a \in Actors : SuspendAccepted(a) => act[a].pc = "suspending" /\ UNCHANGED <<planner, ledger, cycles, broken>>
  BY DEF SuspendAccepted, At
<1> QED BY <1>1, <1>2, <1>3, <1>4, <1>5, <1>6, <1>7, <1>8, <1>9

LEMMA PlannerStep ==
  ASSUME WakeInv, Moved
  PROVE  PlannerInv'
<1>0. Types /\ PlannerInv
  BY DEF WakeInv
<1> USE DEF wakes, sleeps, PlannerInv, Flight, At, Awake
<1>1. ASSUME CalmStep \/ AdoptStep PROVE PlannerInv'
  <2>1. Calm /\ UNCHANGED <<planner, host>>
    BY <1>1 DEF CalmStep, AdoptStep
  <2>2. \A a \in Actors : (act'[a].pc \in Flight <=> act[a].pc \in Flight) /\ (act[a].pc = "waiting" => act'[a] = act[a])
    BY <2>1 DEF Calm
  <2> QED BY <1>0, <2>1, <2>2
<1>2. ASSUME NEW a \in Actors, planner = None, planner' = a, host = "awake", host' = host,
             act'[a].pc = "suspending", \A b \in Actors : b # a => act'[b] = act[b]
      PROVE  PlannerInv'
  BY <1>0, <1>2, Limits
<1>3. ASSUME (\E m \in Missions : BeginStep(m)) \/ (\E t \in Targets : BeginForeign(t)) PROVE PlannerInv'
  BY <1>0, <1>2, <1>3, CycleMoves, Limits DEF Begins
<1>4. ASSUME NEW a \in Actors, SuspendRejected(a) \/ WaitOver(a) PROVE PlannerInv'
  <2>1. /\ act[a].pc \in Flight /\ act'[a].pc \notin Flight /\ \A b \in Actors : b # a => act'[b] = act[b]
        /\ planner' = None /\ UNCHANGED host /\ (~Awake => act[a].pc = "suspending")
    BY <1>0, <1>4, CycleMoves
  <2>2. \A b \in Actors : act[b].pc \in Flight => b = a
    BY <1>0, <2>1
  <2>3. Awake
    BY <1>0, <2>1, <2>2
  <2> QED BY <1>0, <2>1, <2>2, <2>3, Limits
<1>5. ASSUME NEW a \in Actors, SuspendAccepted(a) PROVE PlannerInv'
  BY <1>0, <1>5, CycleMoves
<1>6. ASSUME NEW a \in Actors, Kill(a) PROVE PlannerInv'
  <2>1. Awake /\ host' = host /\ planner' = (IF planner = a THEN None ELSE planner)
    BY <1>6 DEF Kill
  <2> QED BY <1>0, <1>6, <2>1, CycleMoves, Limits
<1>7. ASSUME Tick PROVE PlannerInv'
  <2>1. \A a \in Actors : act'[a].pc = act[a].pc
    <3> SUFFICES ASSUME NEW a \in Actors PROVE act'[a].pc = act[a].pc
      OBVIOUS
    <3> PICK v : v = [act[a] EXCEPT !.arm.target = Lower(@), !.goal = Lower(@)]
      OBVIOUS
    <3>1. v.pc = act[a].pc
      BY <1>0, ActorTicks DEF Types, TypeOK, States
    <3> QED BY <1>7, <3>1 DEF Tick
  <2>2. planner' = planner /\ (host' = "awake" \/ host' = host)
    BY <1>7 DEF Tick
  <2> QED BY <1>0, <2>1, <2>2
<1>8. ASSUME UserWakes PROVE PlannerInv'
  BY <1>0, <1>8 DEF UserWakes
<1>9. ASSUME Wedge PROVE PlannerInv'
  BY <1>0, <1>9, RestingIs, Limits DEF Wedge
<1> QED BY <1>0, <1>1, <1>3, <1>4, <1>5, <1>6, <1>7, <1>8, <1>9, Steps DEF Kinds

LEMMA LedgerStep ==
  ASSUME WakeInv, Moved
  PROVE  LedgerInv'
<1>0. Types /\ CoreTypes /\ PlannerInv /\ LedgerInv /\ ledger \in Seq(Lines) /\ cycles \in Nat
  BY TypesAre DEF WakeInv, CoreTypes, Lines
<1> USE DEF wakes, sleeps, LedgerInv, Flying
<1>1. ASSUME UNCHANGED <<ledger, cycles>>, broken' \cup Flying' = broken \cup Flying, broken' \cap Flying' = {}
      PROVE  LedgerInv'
  BY <1>0, <1>1
<1>2. ASSUME UNCHANGED <<ledger, cycles, broken, planner>> PROVE LedgerInv'
  BY <1>0, <1>1, <1>2
<1>3. ASSUME NEW a \in Actors, planner = None, Begins(a), UNCHANGED broken PROVE LedgerInv'
  <2> PICK line : line = [id |-> cycles + 1, event |-> "start"]
    OBVIOUS
  <2>1. line.id = cycles + 1 /\ line.event = "start" /\ line \in Lines /\ ledger' = Append(ledger, line)
    BY <1>0, <1>3, Limits DEF Lines, Begins, CoreTypes
  <2>2. /\ Len(ledger') = Len(ledger) + 1 /\ Len(ledger) \in Nat
        /\ \A i \in 1 .. Len(ledger') : ledger'[i] = IF i = Len(ledger) + 1 THEN line ELSE ledger[i]
    BY <1>0, <2>1, AppendProperties
  <2>3. Flying = {} /\ Flying' = {cycles + 1} /\ cycles' = cycles + 1 /\ broken' = broken
    BY <1>3, Limits DEF Begins
  <2>4. cycles + 1 \notin broken /\ broken \subseteq 1 .. cycles
    BY <1>0
  <2> HIDE DEF Flying
  <2>5. \A i \in 1 .. Len(ledger) : ledger'[i] = ledger[i] /\ ledger[i].id # cycles + 1
    BY <1>0, <2>2
  <2>6. \A i \in 1 .. Len(ledger') : i \in 1 .. Len(ledger) \/ ledger'[i] = line
    BY <2>2
  <2>7. /\ broken' \cup Flying' \subseteq 1 .. cycles' /\ broken' \cap Flying' = {}
    BY <1>0, <2>3, <2>4
  <2>8. \A i \in 1 .. Len(ledger') : ledger'[i].id \in 1 .. cycles'
    BY <1>0, <2>1, <2>3, <2>5, <2>6
  <2>9. \A i \in 1 .. Len(ledger') : ledger'[i].event = "done" => ledger'[i].id \notin broken' \cup Flying'
    BY <1>0, <2>1, <2>3, <2>5, <2>6
  <2>10. ASSUME NEW i \in 1 .. Len(ledger'), ledger'[i].event = "start", ledger'[i].id \notin broken' \cup Flying'
         PROVE  \E j \in i .. Len(ledger') : ledger'[j].event = "done" /\ ledger'[j].id = ledger'[i].id
    <3>1. i \in 1 .. Len(ledger) /\ ledger'[i] = ledger[i] /\ ledger[i].id \notin broken \cup Flying
      BY <2>1, <2>3, <2>5, <2>6, <2>10
    <3>2. PICK j \in i .. Len(ledger) : ledger[j].event = "done" /\ ledger[j].id = ledger[i].id
      BY <1>0, <2>10, <3>1
    <3>3. j \in i .. Len(ledger') /\ ledger'[j] = ledger[j]
      BY <2>2, <2>5, <3>1
    <3> QED BY <3>1, <3>2, <3>3
  <2> QED BY <2>7, <2>8, <2>9, <2>10
<1>4. ASSUME NEW a \in Actors, SuspendRejected(a) \/ WaitOver(a) PROVE LedgerInv'
  <2>1. act[a].pc \in Flight /\ planner' = None /\ ledger' = Finished /\ UNCHANGED <<cycles, broken>>
    BY <1>0, <1>4, CycleMoves
  <2>2. Flying = {cycles} /\ Flying' = {} /\ cycles \in 1 .. MaxCycles
    BY <1>0, <2>1, Limits DEF PlannerInv, Flight, CoreTypes
  <2> DEFINE l == Len(ledger)
             n == Len(ledger')
             k == l + 1 - n
  <2>3. /\ n \in Nat /\ n <= l + 1 /\ l \in Nat
        /\ \A i \in 1 .. n : \/ i + k = l + 1 /\ ledger'[i] = [id |-> cycles, event |-> "done"]
                             \/ i + k \in 1 .. l /\ ledger'[i] = ledger[i + k]
    BY <1>0, <2>1, <2>2, FinishedIs
  <2> HIDE DEF Flying, k
  <2>4. broken' \cup Flying' \subseteq 1 .. cycles' /\ broken' \cap Flying' = {} /\ cycles' = cycles /\ broken' = broken
    BY <1>0, <2>1, <2>2
  <2>5. \A i \in 1 .. n : ledger'[i].id \in 1 .. cycles'
    BY <1>0, <2>2, <2>3, <2>4
  <2>6. \A i \in 1 .. n : ledger'[i].event = "done" => ledger'[i].id \notin broken' \cup Flying'
    <3> SUFFICES ASSUME NEW i \in 1 .. n, ledger'[i].event = "done" PROVE ledger'[i].id \notin broken' \cup Flying'
      OBVIOUS
    <3>1. cycles \notin broken
      BY <1>0, <2>2
    <3>2. ledger'[i].id \notin broken
      BY <1>0, <2>3, <3>1
    <3>3. Flying' = {}
      BY <2>2
    <3> QED BY <2>4, <3>2, <3>3
  <2>7. ASSUME NEW i \in 1 .. n, ledger'[i].event = "start", ledger'[i].id \notin broken' \cup Flying'
        PROVE  \E j \in i .. n : ledger'[j].event = "done" /\ ledger'[j].id = ledger'[i].id
    <3>1. i + k \in 1 .. l /\ ledger'[i] = ledger[i + k] /\ ledger[i + k].id \notin broken
      BY <2>3, <2>4, <2>7
    <3>2. CASE ledger[i + k].id = cycles
      <4>1. n \in 1 .. n /\ n \in i .. n /\ n + k = l + 1
        BY <2>3 DEF k
      <4>2. ledger'[n] = [id |-> cycles, event |-> "done"]
        BY <2>3, <4>1
      <4> QED BY <3>1, <3>2, <4>1, <4>2
    <3>3. CASE ledger[i + k].id # cycles
      <4>1. PICK j \in i + k .. l : ledger[j].event = "done" /\ ledger[j].id = ledger[i + k].id
        BY <1>0, <2>2, <2>7, <3>1, <3>3
      <4>2. j - k \in i .. n /\ j - k \in 1 .. n /\ (j - k) + k = j /\ j # l + 1
        BY <2>3, <3>1 DEF k
      <4>3. ledger'[j - k] = ledger[j]
        BY <2>3, <4>2
      <4> QED BY <3>1, <4>1, <4>2, <4>3
    <3> QED BY <3>2, <3>3
  <2> QED BY <2>4, <2>5, <2>6, <2>7
<1>5. ASSUME NEW a \in Actors, Kill(a) PROVE LedgerInv'
  <2>1. /\ UNCHANGED <<ledger, cycles>>
        /\ \/ planner = a /\ planner' = None /\ broken' = broken \cup {cycles}
           \/ planner # a /\ UNCHANGED <<planner, broken>>
    BY <1>5 DEF Kill
  <2>2. CASE planner = a /\ planner' = None /\ broken' = broken \cup {cycles}
    BY <1>0, <1>1, <2>1, <2>2, Limits
  <2> QED BY <1>2, <2>1, <2>2
<1>6. ASSUME Wedge PROVE LedgerInv'
  <2>1. planner # None
    BY <1>0, <1>6, Limits DEF PlannerInv, Wedge, At
  <2> QED BY <1>0, <1>1, <1>6, <2>1, Limits DEF Wedge
<1>7. CalmStep \/ AdoptStep \/ (\E a \in Actors : SuspendAccepted(a)) \/ Tick \/ UserWakes
        => UNCHANGED <<ledger, cycles, broken, planner>>
  BY DEF CalmStep, AdoptStep, SuspendAccepted, Tick, UserWakes
<1>8. (\E m \in Missions : BeginStep(m)) \/ (\E t \in Targets : BeginForeign(t)) => LedgerInv'
  BY <1>0, <1>3, CycleMoves, Limits
<1> QED BY <1>0, <1>2, <1>4, <1>5, <1>6, <1>7, <1>8, Steps DEF Kinds

----------------------------------------------------------------------------
(* The plan, on a host that arms all its wakes in one way *)

\* What a tick makes of the timers, the plan and the promises.
LEMMA TickMoves ==
  ASSUME Types, Tick
  PROVE  /\ rtc' = Lower(rtc) /\ rtc \in 0 .. MaxTarget /\ rtcwake' = rtcwake
         /\ plan' = Arm(plan.method, Lower(plan.target)) /\ plan'.method = plan.method /\ plan'.target = Lower(plan.target)
         /\ \A w \in timers' : \E u \in timers : u.target > 1 /\ w = Arm(u.method, u.target - 1)
         /\ \A u \in timers : u.target > 1 => Arm(u.method, u.target - 1) \in timers'
         /\ \A m \in Missions : Promised(m)' => Promised(m) /\ requests[m] > 1 /\ requests'[m] = requests[m] - 1
<1>0. CoreTypes
  BY TypesAre
<1>1. plan' = Arm(plan.method, Lower(plan.target)) /\ plan'.method = plan.method /\ plan'.target = Lower(plan.target)
  <2> PICK v : v = [plan EXCEPT !.target = Lower(@)]
    OBVIOUS
  <2>1. plan' = v
    BY DEF Tick
  <2> QED BY <1>0, <2>1, ArmTicks DEF CoreTypes
<1>2. \A u \in timers : [u EXCEPT !.target = @ - 1] = Arm(u.method, u.target - 1)
  <2> SUFFICES ASSUME NEW u \in timers PROVE [u EXCEPT !.target = @ - 1] = Arm(u.method, u.target - 1)
    OBVIOUS
  <2> PICK v : v = [u EXCEPT !.target = @ - 1]
    OBVIOUS
  <2>1. u \in [method : Units, target : Targets]
    BY <1>0 DEF CoreTypes
  <2>2. v = Arm(u.method, u.target - 1)
    BY <2>1 DEF Arm
  <2> QED BY <2>2
<1>3. \A w : w \in timers' <=> \E u \in timers : u.target > 1 /\ w = Arm(u.method, u.target - 1)
  <2>1. timers' = {[t EXCEPT !.target = @ - 1] : t \in {u \in timers : u.target > 1}}
    BY DEF Tick
  <2> QED BY <1>2, <2>1
<1>4. ASSUME NEW m \in Missions, Promised(m)' PROVE Promised(m) /\ requests[m] > 1 /\ requests'[m] = requests[m] - 1
  <2>1. requests'[m] = Lower(requests[m]) /\ requests[m] \in 0 .. MaxTarget /\ missed' = {p \in missed : requests[p] > 1}
    BY <1>0 DEF Tick, CoreTypes
  <2>2. requests'[m] # 0 /\ m \notin missed'
    BY <1>4 DEF Promised
  <2>3. requests[m] > 1 /\ requests'[m] = requests[m] - 1
    BY <2>1, <2>2, LowerIs
  <2> QED BY <2>1, <2>2, <2>3 DEF Promised
<1>5. rtc' = Lower(rtc) /\ rtc \in 0 .. MaxTarget /\ rtcwake' = rtcwake
  BY <1>0 DEF Tick, CoreTypes
<1> QED BY <1>1, <1>3, <1>4, <1>5

LEMMA PlanStep ==
  ASSUME UniformInv, Moved, Uniform, Uniform'
  PROVE  PlanInv'
<1>0. Types /\ CoreTypes /\ PlanInv /\ SleepInv
  BY TypesAre DEF UniformInv, WakeInv
<1> USE DEF wakes, sleeps
<1>1. ASSUME UNCHANGED <<rtcwake, rtc, timers, requests, plan, missed>> PROVE PlanInv'
  BY <1>0, <1>1 DEF PlanInv, Promised
<1>2. ASSUME AdoptStep PROVE PlanInv'
  <2> PICK res \in Reconcile(requests') : Adopt(requests', res)
    BY <1>2 DEF AdoptStep
  <2>1. requests' \in [Missions -> 0 .. MaxTarget] /\ rtcwake' = rtcwake
    BY <1>2 DEF AdoptStep
  <2>2. Sound(res)
    <3> PICK reqs : reqs = requests'
      OBVIOUS
    <3> QED BY <1>0, <2>1, ReconcileIs
  <2>3. rtc' = res.hw.rtc /\ timers' = res.hw.timers /\ plan' = res.plan
    BY DEF Adopt
  <2>4. \A m \in Missions : Promised(m)' => res.arm.target \in 1 .. requests'[m]
    BY DEF Promised, Adopt
  <2>5. \A m \in Missions : Promised(m)' => Armed(plan') /\ plan'.target <= requests'[m] /\ res.arm.target # 0
    <3> SUFFICES ASSUME NEW m \in Missions, Promised(m)'
                 PROVE  Armed(plan') /\ plan'.target <= requests'[m] /\ res.arm.target # 0
      OBVIOUS
    <3>1. res.arm.target # 0 /\ res.arm.target <= requests'[m]
      BY <2>1, <2>4
    <3> QED BY <2>2, <2>3, <3>1 DEF Sound
  <2>6. Fits(Hardware, plan) /\ (~rtcwake => rtc = 0) /\ (rtcwake => plan.method # "timer")
    <3>1. Hardware.timers = timers
      BY <1>0, HardwareIs DEF Types
    <3> QED BY <1>0, <3>1 DEF PlanInv, Fits
  <2>7. \A t \in timers' : t.method = "timer" => t = plan'
    BY <2>2, <2>3, <2>6 DEF Sound, Fits
  <2>8. CASE rtcwake
    <3>1. timers = {} /\ res.hw.timers = {}
      BY <2>1, <2>3, <2>8 DEF Uniform
    <3>2. plan'.method # "timer" /\ (res.arm.target # 0 => plan'.method = "rtcwake" /\ rtc' = plan'.target)
      BY <2>2, <2>3, <2>6, <2>8, <3>1 DEF Sound
    <3> QED BY <2>1, <2>5, <2>7, <2>8, <3>2 DEF PlanInv
  <2>9. CASE ~rtcwake
    <3>1. rtc' = 0
      BY <2>2, <2>3, <2>6, <2>9 DEF Sound
    <3> QED BY <2>1, <2>5, <2>7, <2>9, <3>1 DEF PlanInv
  <2> QED BY <2>8, <2>9
<1>3. ASSUME NEW t \in Targets, BeginForeign(t) PROVE PlanInv'
  <2> PICK r \in ArmRtcWake(Hardware, t, "foreign-timer") : rtc' = r.hw.rtc /\ timers' = r.hw.timers
    BY <1>3 DEF BeginForeign
  <2>1. t \in 0 .. MaxTarget /\ "foreign-timer" \in Units /\ Hardware \in HW /\ Hardware.rtc = rtc /\ Hardware.timers = timers
    BY <1>0, HardwareIs DEF Targets, Units, Types
  <2>2. /\ (~rtcwake => r.hw.rtc = rtc)
        /\ r.hw.timers = timers \/ r.hw.timers = timers \cup {Arm("foreign-timer", t)}
    BY <1>0, <2>1, ArmIs DEF CoreTypes
  <2>3. \A u \in timers' : u.method = "timer" => u \in timers
    BY <2>2 DEF Arm
  <2>4. \A m \in Missions : ~Promised(m)'
    BY <1>3 DEF BeginForeign, Promised
  <2>5. UNCHANGED <<rtcwake, plan>>
    BY <1>3 DEF BeginForeign
  <2> QED BY <1>0, <2>2, <2>3, <2>4, <2>5 DEF PlanInv
<1>4. ASSUME NEW a \in Actors, SuspendRejected(a) PROVE PlanInv'
  <2>1. act[a].arm \in Arms /\ Hardware \in HW /\ Hardware.rtc = rtc /\ Hardware.timers = timers
    BY <1>0, HardwareIs DEF CoreTypes, States, Types
  <2>2. (rtc' = rtc \/ rtc' = 0) /\ timers' \subseteq timers
    <3> PICK d : d = DisarmRtcWake(Hardware, act[a].arm)
      OBVIOUS
    <3>1. rtc' = d.rtc /\ timers' = d.timers
      BY <1>4 DEF SuspendRejected
    <3> QED BY <2>1, <3>1, DisarmIs
  <2>3. UNCHANGED <<rtcwake, requests, plan, missed>>
    BY <1>4 DEF SuspendRejected
  <2> QED BY <1>0, <2>2, <2>3 DEF PlanInv, Promised
<1>5. ASSUME Tick PROVE PlanInv'
  <2>1. plan.target \in 0 .. MaxTarget
    BY <1>0 DEF CoreTypes, Arms
  <2>2. \A m \in Missions : Promised(m)' => Armed(plan') /\ plan'.target <= requests'[m]
    <3> SUFFICES ASSUME NEW m \in Missions, Promised(m)' PROVE Armed(plan') /\ plan'.target <= requests'[m]
      OBVIOUS
    <3>1. Promised(m) /\ requests[m] > 1 /\ requests'[m] = requests[m] - 1
      BY <1>0, <1>5, TickMoves
    <3>2. plan'.method = plan.method /\ plan'.target = Lower(plan.target)
      BY <1>0, <1>5, TickMoves
    <3>3. Armed(plan) /\ plan.target <= requests[m] /\ requests[m] \in 0 .. MaxTarget
      BY <1>0, <3>1 DEF PlanInv, CoreTypes
    <3>4. Lower(plan.target) <= requests[m] - 1
      BY <2>1, <3>1, <3>3, LowerIs
    <3> QED BY <3>1, <3>2, <3>3, <3>4 DEF Armed
  <2>3. \A w \in timers' : w.method = "timer" => w = plan'
    <3> SUFFICES ASSUME NEW w \in timers', w.method = "timer" PROVE w = plan'
      OBVIOUS
    <3>1. PICK u \in timers : u.target > 1 /\ w = Arm(u.method, u.target - 1)
      BY <1>0, <1>5, TickMoves
    <3>2. u = plan
      BY <1>0, <3>1 DEF PlanInv, Arm
    <3>3. Lower(plan.target) = plan.target - 1
      BY <2>1, <3>1, <3>2, LowerIs
    <3> QED BY <1>0, <1>5, <3>1, <3>2, <3>3, TickMoves
  <2>4. ~rtcwake' => rtc' = 0
    BY <1>0, <1>5, TickMoves, LowerIs DEF PlanInv
  <2>5. rtc' # 0 /\ (\E m \in Missions : Promised(m)') => plan'.method = "rtcwake" /\ rtc' = plan'.target
    BY <1>0, <1>5, TickMoves, LowerIs DEF PlanInv
  <2>6. rtcwake' => plan'.method # "timer"
    BY <1>0, <1>5, TickMoves DEF PlanInv
  <2> QED BY <2>2, <2>3, <2>4, <2>5, <2>6 DEF PlanInv
<1>6. ASSUME Wedge PROVE PlanInv'
  <2>1. rtc' = 0 /\ timers' = {} /\ UNCHANGED <<rtcwake, requests, plan, missed>>
    BY <1>6 DEF Wedge
  <2> QED BY <1>0, <2>1 DEF PlanInv, Promised
<1>7. CalmStep \/ (\E m \in Missions : BeginStep(m)) \/ (\E a \in Actors : SuspendAccepted(a) \/ WaitOver(a) \/ Kill(a)) \/ UserWakes
        => UNCHANGED <<rtcwake, rtc, timers, requests, plan, missed>>
  BY DEF CalmStep, BeginStep, SuspendAccepted, WaitOver, Kill, UserWakes
<1> QED BY <1>0, <1>1, <1>2, <1>3, <1>4, <1>5, <1>6, <1>7, Steps DEF Kinds

----------------------------------------------------------------------------
(* Sleeping *)

\* What SleepInv says of a suspend that is about to be asked for.
Relied(a) ==
  /\ act[a].arm.target = act[a].goal /\ Holds(Hardware, act[a].arm)
  /\ \A m \in Missions : Promised(m) => act[a].goal <= requests[m]

LEMMA SleepStep ==
  ASSUME UniformInv, Moved
  PROVE  SleepInv'
<1>0. Types /\ CoreTypes /\ PlannerInv /\ PlannerInv' /\ PlanInv
  BY TypesAre, PlannerStep DEF UniformInv, WakeInv
<1>1. (\A a \in Actors : At(a, "suspending") => Relied(a)) /\ (~Awake => Covered)
  BY DEF UniformInv, SleepInv, Relied
<1> SUFFICES (\A a \in Actors : At(a, "suspending")' => Relied(a)') /\ (~Awake' => Covered')
  BY DEF SleepInv, Relied
<1> DEFINE Goal == (\A a \in Actors : At(a, "suspending")' => Relied(a)') /\ (~Awake' => Covered')
<1> USE DEF wakes, sleeps
<1>2. ASSUME planner' = None PROVE Goal
  BY <1>0, <1>2, Limits DEF PlannerInv, At
<1>3. ASSUME UNCHANGED <<rtc, timers, requests, missed>>, \A a \in Actors : At(a, "suspending")' => act'[a] = act[a],
             ~Awake' => ~Awake
      PROVE  Goal
  <2>1. \A a \in Actors : At(a, "suspending")' => At(a, "suspending") /\ Relied(a)'
    BY <1>1, <1>3 DEF At, Relied, Holds, Hardware, Promised
  <2>2. Covered => Covered'
    BY <1>3 DEF Covered, Wakers, Promised
  <2> QED BY <1>1, <1>3, <2>1, <2>2
<1>4. ASSUME CalmStep PROVE Goal
  <2>1. \A a \in Actors : At(a, "suspending")' => act'[a] = act[a]
    BY <1>4 DEF CalmStep, Calm, At, Flight
  <2> QED BY <1>3, <1>4, <2>1 DEF CalmStep, Awake
<1>5. ASSUME AdoptStep PROVE Goal
  BY <1>2, <1>5 DEF AdoptStep, Free
<1>6. ASSUME NEW a \in Actors, planner' = a, Awake', Relied(a)' PROVE Goal
  BY <1>0, <1>6 DEF PlannerInv, At
<1>7. ASSUME NEW m \in Missions, BeginStep(m) PROVE Goal
  <2>1. m \in Actors /\ act[m] \in States /\ act[m].arm.method # "foreign-timer" /\ act[m].arm \in Arms
    BY <1>0, Limits DEF CoreTypes, States
  <2> PICK new : new = [act[m] EXCEPT !.pc = "suspending"]
    OBVIOUS
  <2>2. act' = [act EXCEPT ![m] = new] /\ new.arm = act[m].arm /\ new.goal = act[m].goal
    BY <1>7, <2>1, PhaseIs DEF BeginStep
  <2>3. act'[m] = new
    BY <1>0, <2>1, <2>2, ActIs
  <2>4. /\ UNCHANGED <<rtc, timers, requests, missed>> /\ act[m].arm.target = act[m].goal
        /\ Holds(Hardware, act[m].arm) /\ planner' = m /\ Awake'
    BY <1>7 DEF BeginStep, Begins, Free, Awake
  <2>5. \A p \in Missions : Promised(p) => act[m].arm.target <= requests[p]
    <3> SUFFICES ASSUME NEW p \in Missions, Promised(p) PROVE act[m].arm.target <= requests[p]
      OBVIOUS
    <3>1. Hardware.rtc = rtc /\ Hardware.timers = timers
      BY <1>0, HardwareIs DEF Types
    <3>2. plan.target <= requests[p]
      BY <1>0 DEF PlanInv
    <3>3. CASE act[m].arm.method = "rtcwake" /\ rtc = act[m].arm.target /\ act[m].arm.target # 0
      BY <1>0, <3>2, <3>3 DEF PlanInv
    <3>4. CASE act[m].arm \in timers
      <4>1. act[m].arm.method \in Units
        BY <1>0, <3>4 DEF CoreTypes
      <4>2. act[m].arm = plan
        BY <1>0, <2>1, <3>4, <4>1 DEF PlanInv, Units
      <4> QED BY <3>2, <4>2
    <3> QED BY <2>4, <3>1, <3>3, <3>4 DEF Holds
  <2>6. Relied(m)'
    BY <2>2, <2>3, <2>4, <2>5 DEF Relied, Holds, Hardware, Promised
  <2> QED BY <1>6, <2>1, <2>4, <2>6
<1>8. ASSUME NEW t \in Targets, BeginForeign(t) PROVE Goal
  <2> PICK r \in ArmRtcWake(Hardware, t, "foreign-timer") :
         /\ r.method # "none" /\ rtc' = r.hw.rtc /\ timers' = r.hw.timers
         /\ act' = [act EXCEPT ![Foreign] = [pc |-> "suspending", arm |-> Arm(r.method, t), goal |-> t]]
    BY <1>8 DEF BeginForeign, Become
  <2>1. t \in 0 .. MaxTarget /\ t # 0 /\ "foreign-timer" \in Units /\ Hardware \in HW
    BY <1>0, HardwareIs DEF Targets, Units, Types
  <2>2. \/ r.method = "rtcwake" /\ r.hw.rtc = t
        \/ r.method = "foreign-timer" /\ Arm("foreign-timer", t) \in r.hw.timers
    BY <1>0, <2>1, ArmIs DEF CoreTypes
  <2>3. act'[Foreign].arm = Arm(r.method, t) /\ act'[Foreign].goal = t
    BY <1>0, Limits DEF CoreTypes
  <2>4. \A m \in Missions : ~Promised(m)'
    BY <1>8 DEF BeginForeign, Promised
  <2>5. Holds(Hardware, act[Foreign].arm)'
    BY <2>1, <2>2, <2>3 DEF Holds, Hardware, Arm
  <2>6. act'[Foreign].arm.target = act'[Foreign].goal
    BY <2>3 DEF Arm
  <2>7. Relied(Foreign)'
    BY <2>4, <2>5, <2>6 DEF Relied
  <2>8. planner' = Foreign /\ Awake'
    BY <1>8 DEF BeginForeign, Free, Awake
  <2> QED BY <1>6, <2>7, <2>8, Limits
<1>9. ASSUME NEW a \in Actors, SuspendRejected(a) \/ WaitOver(a) PROVE Goal
  BY <1>2, <1>9 DEF SuspendRejected, WaitOver
<1>10. ASSUME NEW a \in Actors, SuspendAccepted(a) PROVE Goal
  <2>1. /\ At(a, "suspending") /\ act'[a].pc = "waiting" /\ planner' = planner
    BY <1>0, <1>10, CycleMoves DEF At
  <2>2. planner' = a
    BY <1>0, <2>1 DEF PlannerInv, At
  <2>3. \A b \in Actors : ~At(b, "suspending")'
    BY <1>0, <2>1, <2>2 DEF PlannerInv, At
  <2>4. Relied(a) /\ UNCHANGED <<rtc, timers, requests, missed>>
    BY <1>1, <1>10, <2>1 DEF SuspendAccepted
  <2>5. Covered
    <3>1. Hardware.rtc = rtc /\ Hardware.timers = timers
      BY <1>0, HardwareIs DEF Types
    <3>2. act[a].goal \in Wakers
      BY <2>4, <3>1 DEF Relied, Holds, Wakers
    <3> QED BY <2>4, <3>2 DEF Covered, Relied
  <2>6. Covered'
    BY <2>4, <2>5 DEF Covered, Wakers, Promised
  <2> QED BY <2>3, <2>6
<1>11. ASSUME NEW a \in Actors, Kill(a) PROVE Goal
  <2>1. UNCHANGED <<rtc, timers, requests, missed, host>>
    BY <1>11 DEF Kill
  <2>2. \A b \in Actors : At(b, "suspending")' => act'[b] = act[b]
    BY <1>0, <1>11, CycleMoves DEF At, Flight
  <2> QED BY <1>3, <2>1, <2>2 DEF Awake
<1>12. ASSUME Tick PROVE Goal
  <2>1. ASSUME NEW a \in Actors, At(a, "suspending")' PROVE Relied(a)'
    <3>1. act[a] \in States
      BY <1>0 DEF CoreTypes
    <3> PICK v : v = [act[a] EXCEPT !.arm.target = Lower(@), !.goal = Lower(@)]
      OBVIOUS
    <3>2. act'[a] = v
      BY <1>12 DEF Tick
    <3>3. v.pc = act[a].pc /\ v.arm = Arm(act[a].arm.method, Lower(act[a].arm.target)) /\ v.goal = Lower(act[a].goal)
      BY <3>1, ActorTicks
    <3>4. At(a, "suspending")
      BY <2>1, <3>2, <3>3 DEF At
    <3>5. Relied(a) /\ act[a].goal > 1 /\ act[a].goal \in 0 .. MaxTarget
      BY <1>1, <1>12, <3>1, <3>4 DEF Tick, States
    <3>6. act[a].arm.target = act[a].goal /\ Lower(act[a].goal) = act[a].goal - 1
      BY <3>5, LowerIs DEF Relied
    <3>7. v.arm = Arm(act[a].arm.method, act[a].goal - 1) /\ v.goal = act[a].goal - 1
      BY <3>3, <3>6
    <3>8. Holds(Hardware', v.arm)
      <4>1. Hardware.rtc = rtc /\ Hardware.timers = timers /\ Hardware'.rtc = rtc' /\ Hardware'.timers = timers'
        BY DEF Hardware
      <4>2. v.arm.target # 0 /\ v.arm.method = act[a].arm.method /\ v.arm.target = act[a].goal - 1
        BY <3>5, <3>7 DEF Arm
      <4>3. CASE act[a].arm.method = "rtcwake" /\ rtc = act[a].arm.target
        BY <1>0, <1>12, <3>6, <4>1, <4>2, <4>3, TickMoves DEF Holds
      <4>4. CASE act[a].arm \in timers
        <5>1. v.arm \in timers'
          BY <1>0, <1>12, <3>5, <3>6, <3>7, <4>4, TickMoves
        <5> QED BY <4>1, <4>2, <5>1 DEF Holds
      <4> QED BY <3>5, <4>1, <4>3, <4>4 DEF Relied, Holds
    <3>9. ASSUME NEW m \in Missions, Promised(m)' PROVE v.goal <= requests'[m]
      <4>1. Promised(m) /\ requests'[m] = requests[m] - 1 /\ requests[m] \in 0 .. MaxTarget
        BY <1>0, <1>12, <3>9, TickMoves DEF CoreTypes
      <4>2. act[a].goal <= requests[m]
        BY <3>5, <4>1 DEF Relied
      <4> QED BY <3>5, <3>7, <4>1, <4>2
    <3>10. v.arm.target = v.goal
      BY <3>7 DEF Arm
    <3> QED BY <3>2, <3>8, <3>9, <3>10 DEF Relied
  <2>2. ASSUME ~Awake' PROVE Covered'
    <3>1. ~Awake /\ rtc # 1 /\ \A u \in timers : u.target # 1
      BY <1>12, <2>2 DEF Tick, Awake
    <3>2. PICK w \in Wakers : \A m \in Missions : Promised(m) => w <= requests[m]
      BY <1>1, <3>1 DEF Covered
    <3>3. w \in 0 .. MaxTarget /\ w > 1 /\ w - 1 # 0
      BY <1>0, <3>1, Limits DEF Wakers, CoreTypes, Targets
    <3>4. w - 1 \in Wakers'
      <4>1. CASE w = rtc
        BY <1>0, <1>12, <3>3, <4>1, TickMoves, LowerIs DEF Wakers
      <4>2. CASE \E u \in timers : w = u.target
        <5>1. PICK u \in timers : w = u.target
          BY <4>2
        <5>2. Arm(u.method, w - 1) \in timers' /\ Arm(u.method, w - 1).target = w - 1
          BY <1>0, <1>12, <3>3, <5>1, TickMoves DEF Arm
        <5> QED BY <3>3, <5>2 DEF Wakers
      <4> QED BY <4>1, <4>2 DEF Wakers
    <3>5. ASSUME NEW m \in Missions, Promised(m)' PROVE w - 1 <= requests'[m]
      <4>1. Promised(m) /\ requests'[m] = requests[m] - 1 /\ requests[m] \in 0 .. MaxTarget
        BY <1>0, <1>12, <3>5, TickMoves DEF CoreTypes
      <4> QED BY <3>2, <3>3, <4>1
    <3> QED BY <3>4, <3>5 DEF Covered
  <2> QED BY <2>1, <2>2
<1>13. ASSUME UserWakes PROVE Goal
  BY <1>3, <1>13 DEF UserWakes, Awake, At
<1>14. ASSUME Wedge PROVE Goal
  BY <1>2, <1>14 DEF Wedge
<1> HIDE DEF Goal
<1>15. Goal
  BY <1>0, <1>4, <1>5, <1>7, <1>8, <1>9, <1>10, <1>11, <1>12, <1>13, <1>14, Steps DEF Kinds
<1> QED BY <1>15 DEF Goal

----------------------------------------------------------------------------
(* Theorems *)

LEMMA InitInv == Init => UniformInv
<1> SUFFICES ASSUME Init PROVE UniformInv
  OBVIOUS
<1>1. \A a \in Actors : act[a] = Resting
  BY DEF Init
<1>2. CoreTypes
  BY <1>1, RestingIs, Limits DEF Init, CoreTypes
<1>3. WorkTypes /\ ReleaseInv
  BY DEF Init, WorkTypes, ReleaseInv
<1>4. PlannerInv /\ SleepInv
  BY <1>1, RestingIs, Limits DEF Init, PlannerInv, SleepInv, At, Awake
<1>5. LedgerInv
  BY DEF Init, LedgerInv, Flying
<1>6. PlanInv
  BY RestingIs DEF Init, PlanInv, Promised
<1> QED BY <1>2, <1>3, <1>4, <1>5, <1>6, TypesAre DEF UniformInv, WakeInv

LEMMA WakeInvariant == Spec => []WakeInv
<1>1. WakeInv /\ [Next]_vars => WakeInv'
  <2> SUFFICES ASSUME WakeInv, Moved PROVE WakeInv'
    BY DEF Moved
  <2>1. ReleaseInv'
    BY WorkStep DEF WakeInv
  <2> QED BY <2>1, TypeStep, PlannerStep, LedgerStep DEF WakeInv
<1>2. Init => WakeInv
  BY InitInv DEF UniformInv
<1> QED BY <1>1, <1>2, PTL DEF Spec

\* The ledger names exactly the cycles that a wedged resume or a kill cut off and
\* the one in flight, however often trim_ledger shortens it and whoever dies when
\* (incomplete_suspend_cycles).
THEOREM LedgerIsTruthfulHolds == Spec => []LedgerIsTruthful
<1>1. WakeInv => LedgerIsTruthful
  <2> SUFFICES ASSUME WakeInv PROVE LedgerIsTruthful
    OBVIOUS
  <2> DEFINE started == {ledger[i].id : i \in {j \in 1 .. Len(ledger) : ledger[j].event = "start"}}
             ended == {ledger[i].id : i \in {j \in 1 .. Len(ledger) : ledger[j].event = "done"}}
  <2>1. LedgerInv
    BY DEF WakeInv
  <2>2. Len(ledger) \in Nat
    BY DEF WakeInv, Types, TypeOK
  <2>3. \A c \in started : c \notin broken \cup Flying => c \in ended
    <3> SUFFICES ASSUME NEW i \in 1 .. Len(ledger), ledger[i].event = "start", ledger[i].id \notin broken \cup Flying
                 PROVE  ledger[i].id \in ended
      OBVIOUS
    <3>1. PICK j \in i .. Len(ledger) : ledger[j].event = "done" /\ ledger[j].id = ledger[i].id
      BY <2>1 DEF LedgerInv
    <3>2. j \in 1 .. Len(ledger)
      BY <2>2
    <3> QED BY <3>1, <3>2
  <2>4. ended \cap (broken \cup Flying) = {}
    BY <2>1 DEF LedgerInv
  <2> HIDE DEF started, ended
  <2>5. started \ ended = started \cap (broken \cup Flying)
    BY <2>3, <2>4
  <2> QED BY <2>5, Zenon DEF LedgerIsTruthful, Flying, started, ended
<1> QED BY <1>1, WakeInvariant, PTL

\* A controller's request does not outlive its worker, for any number of missions
\* that ask for wakes at the same time (CapacityRefreshWorker.stop).
THEOREM ReleasedIsGoneHolds == Spec => []ReleasedIsGone
<1>1. WakeInv => ReleasedIsGone
  BY DEF WakeInv, ReleaseInv, ReleasedIsGone
<1> QED BY <1>1, WakeInvariant, PTL

\* A host that arms all its wakes in one way never sleeps past a wake that
\* update_wake_request reported as armed, for any number of missions, cycles and
\* faults, whatever the other missions and the foreign suspender do meanwhile.
THEOREM PlanIsKeptHolds == Spec /\ []Uniform => []PlanIsKept
<1>1. UniformInv /\ Uniform /\ Uniform' /\ [Next]_vars => UniformInv'
  <2> SUFFICES ASSUME UniformInv, Uniform, Uniform', Moved PROVE UniformInv'
    BY DEF Moved
  <2>1. WakeInv /\ ReleaseInv'
    BY WorkStep DEF UniformInv, WakeInv
  <2> QED BY <2>1, TypeStep, PlannerStep, LedgerStep, PlanStep, SleepStep DEF UniformInv, WakeInv
<1>2. UniformInv => PlanIsKept
  <2> SUFFICES ASSUME UniformInv PROVE PlanIsKept
    OBVIOUS
  <2>1. CoreTypes /\ ReleaseInv /\ SleepInv
    BY TypesAre DEF UniformInv, WakeInv
  <2>2. Wakers \subseteq Nat /\ WakeAt = Least(Wakers)
    BY <2>1, Limits DEF CoreTypes, Wakers, Targets, WakeAt
  <2>3. ASSUME ~Awake PROVE WakeAt # 0 /\ \A m \in Missions : requests[m] # 0 /\ m \notin missed => WakeAt <= requests[m]
    <3>1. PICK w \in Wakers : \A m \in Missions : Promised(m) => w <= requests[m]
      BY <2>1, <2>3 DEF SleepInv, Covered
    <3>2. WakeAt \in Wakers /\ WakeAt <= w
      BY <2>2, LeastIs
    <3>3. WakeAt \in Nat /\ w \in Nat /\ WakeAt # 0
      BY <2>2, <3>2 DEF Wakers
    <3>4. ASSUME NEW m \in Missions, Promised(m) PROVE WakeAt <= requests[m]
      <4>1. requests[m] \in Nat /\ w <= requests[m]
        BY <2>1, <3>1, <3>4, Limits DEF CoreTypes
      <4> QED BY <3>2, <3>3, <4>1
    <3> QED BY <3>3, <3>4 DEF Promised
  <2> QED BY <2>1, <2>3 DEF PlanIsKept, SleepIsCovered, ReleasedIsGone, ReleaseInv
<1> QED BY <1>1, <1>2, InitInv, PTL DEF Spec

=============================================================================

--------------------------- MODULE RalphLoopProofs ---------------------------
(* Proofs about RalphLoop for every number of rotation entries, every setting  *)
(* of the options and every bound: an opaque entry that never failed keeps its *)
(* share of the turns, only runs that succeeded are counted, and the machine   *)
(* never waits longer than it needs to.                                        *)
EXTENDS RalphLoop, FiniteSetTheorems, WellFoundedInduction, TLAPS

-----------------------------------------------------------------------------
(* What the constants and the operators of the loop are *)

\* The constants are numbers.
LEMMA Constants ==
  /\ N \in Nat /\ N > 0 /\ MaxReset \in Nat /\ Backoff \in Nat /\ Poll \in Nat /\ Poll > 0
  /\ MinIteration \in Nat /\ MaxUnavailable \in Nat /\ Retries \in Nat
  /\ MaxDuration \in Nat /\ MinAwake \in Nat /\ MaxFaults \in Nat /\ MaxSuspends \in Nat
  /\ 0 \in Idx /\ Idx \subseteq Nat
<1>1. N \in Nat \ {0} /\ {MaxReset, Backoff, Poll, MinIteration, FastStreak, HardStreak} \subseteq Nat \ {0}
      /\ {MaxUnavailable, Retries, MaxIterations, MaxDuration} \subseteq Nat
      /\ {MaxSuspends, MinAwake, MaxFaults} \subseteq Nat
  BY RalphAssumption
<1> QED BY <1>1 DEF Idx

\* A set of natural numbers has a least element.
LEMMA Minimum ==
  ASSUME NEW S, S \subseteq Nat, S # {} PROVE \E m \in S : \A k \in S : m <= k
<1>1. PICK m \in S : \A k \in S : <<k, m>> \notin OpToRel(<, Nat)
  BY NatLessThanWellFounded, WFMin
<1>2. \A k \in S : ~(k < m)
  BY <1>1 DEF OpToRel
<1> QED BY <1>2

\* Min is the least element.
LEMMA MinIs ==
  ASSUME NEW S, S \subseteq Nat, S # {} PROVE Min(S) \in S /\ \A k \in S : Min(S) <= k
BY Minimum DEF Min

\* The lesser of two numbers.
LEMMA MinOfTwo ==
  ASSUME NEW a \in Nat, NEW b \in Nat
  PROVE Min({a, b}) \in Nat /\ Min({a, b}) <= a /\ Min({a, b}) <= b
BY MinIs, {a, b} \subseteq Nat

\* The position of an entry in the rotation is a number.
LEMMA RankIs ==
  ASSUME NEW i \in Idx, NEW cur \in Idx PROVE Rank(i, cur) \in Nat
BY Constants DEF Rank, Idx

\* The first entry of a set in rotation order is one of the set.
LEMMA FirstIs ==
  ASSUME NEW S, S \subseteq Idx, S # {}, NEW cur \in Idx PROVE First(S, cur) \in S
<1> DEFINE T == {Rank(i, cur) : i \in S}
<1>1. T \subseteq Nat /\ T # {}
  BY RankIs
<1>2. PICK m \in T : \A k \in T : m <= k
  BY <1>1, Minimum
<1>3. PICK i \in S : m = Rank(i, cur)
  OBVIOUS
<1>4. \A j \in S : Rank(i, cur) <= Rank(j, cur)
  BY <1>2, <1>3
<1> QED BY <1>4 DEF First

\* The best score of a set is that of one of the set.
LEMMA EvenBurnIs ==
  ASSUME NEW S, S \subseteq Idx, S # {}, NEW cur \in Idx, NEW score \in Scores
  PROVE EvenBurn(S, cur, score) \in S
<1> DEFINE B == IF \E i \in S : score[i] = 1 THEN {i \in S : score[i] = 1} ELSE S
<1>1. B \subseteq S /\ B # {} /\ B \subseteq Idx
  OBVIOUS
<1>2. \A i \in S : score[i] \in {0, 1}
  BY DEF Scores
<1>3. \A i \in B, j \in S : score[i] > score[j] \/ (score[i] = score[j] /\ j \in B)
  BY <1>2
<1> HIDE DEF B
<1> DEFINE T == {Rank(i, cur) : i \in B}
<1>4. T \subseteq Nat /\ T # {}
  BY <1>1, RankIs
<1>5. PICK m \in T : \A k \in T : m <= k
  BY <1>4, Minimum
<1>6. PICK i \in B : m = Rank(i, cur)
  OBVIOUS
<1>7. \A j \in B : Rank(i, cur) <= Rank(j, cur)
  BY <1>5, <1>6
<1>8. \A j \in S : score[i] > score[j] \/ (score[i] = score[j] /\ Rank(i, cur) <= Rank(j, cur))
  BY <1>3, <1>6, <1>7
<1> QED BY <1>8, <1>1, <1>6 DEF EvenBurn

\* The mixed rotation runs an entry that has completed least among the usable ones.
LEMMA MixedIs ==
  ASSUME NEW S, S \subseteq Idx, S # {}, NEW cur \in Idx, NEW score \in Scores, NEW n \in [Idx -> Nat]
  PROVE /\ MixedCapacityFair(S, n, cur, score) \in S
        /\ \A j \in S : n[MixedCapacityFair(S, n, cur, score)] <= n[j]
<1> DEFINE L == {i \in S : \A j \in S : n[i] <= n[j]}
<1> DEFINE T == {n[i] : i \in S}
<1>1. T \subseteq Nat /\ T # {}
  OBVIOUS
<1>2. PICK m \in T : \A k \in T : m <= k
  BY <1>1, Minimum
<1>3. L \subseteq S /\ L \subseteq Idx /\ L # {}
  BY <1>2
<1>4. CASE Cardinality(L \ Opaque) >= 2
  <2>1. MixedCapacityFair(S, n, cur, score) = EvenBurn(L \ Opaque, cur, score)
    BY <1>4 DEF MixedCapacityFair
  <2>2. CASE L \ Opaque = {}
    BY <2>2, <1>4, FS_EmptySet
  <2>3. CASE L \ Opaque # {}
    BY <2>1, <2>3, <1>3, EvenBurnIs
  <2> QED BY <2>2, <2>3
<1>5. CASE ~(Cardinality(L \ Opaque) >= 2)
  <2>1. MixedCapacityFair(S, n, cur, score) = First(L, cur)
    BY <1>5 DEF MixedCapacityFair
  <2> QED BY <2>1, <1>3, FirstIs
<1> QED BY <1>4, <1>5

-----------------------------------------------------------------------------
(* What the rotation reads and selects *)

\* The timers of the entries.
Timers == block \in [Idx -> Nat] /\ reset \in [Idx -> Nat]

\* How long an entry has to wait: its block, a poll, or its spent window.
WaitOf(i) == IF cfg.routes /\ block[i] > 0 THEN block[i] ELSE IF i \in dark THEN Poll ELSE reset[i]

\* The decision about an entry.
LEMMA DecisionIs ==
  ASSUME Timers, NEW i \in Idx
  PROVE /\ Decision(i).wait = WaitOf(i) /\ Decision(i).wait \in Nat
        /\ Decision(i).usable \in BOOLEAN
        /\ block[i] = 0 /\ reset[i] = 0 /\ i \notin dark => Decision(i).usable
<1>1. block[i] \in Nat /\ reset[i] \in Nat /\ Poll \in Nat
  BY Constants DEF Timers
<1>2. CASE LocallyBlocked(i)
  <2>1. BlockDecision(i).wait = block[i] /\ BlockDecision(i).usable \in BOOLEAN
    BY DEF BlockDecision
  <2>2. Decision(i) = BlockDecision(i) /\ WaitOf(i) = block[i] /\ block[i] > 0
    BY <1>2 DEF Decision, WaitOf, LocallyBlocked
  <2> QED BY <1>1, <2>1, <2>2
<1>3. CASE ~LocallyBlocked(i) /\ i \in dark
  <2>1. CapacityDecision(i) = [usable |-> FALSE, wait |-> Poll, reason |-> "inconclusive-usage"]
    BY <1>3 DEF CapacityDecision
  <2>2. Decision(i) = CapacityDecision(i) /\ WaitOf(i) = Poll
    BY <1>3 DEF Decision, WaitOf, LocallyBlocked
  <2> QED BY <1>1, <1>3, <2>1, <2>2
<1>4. CASE ~LocallyBlocked(i) /\ i \notin dark /\ reset[i] > 0
  <2>1. CapacityDecision(i) = [usable |-> FALSE, wait |-> reset[i], reason |-> "rate-limited"]
    BY <1>4 DEF CapacityDecision
  <2>2. Decision(i) = CapacityDecision(i) /\ WaitOf(i) = reset[i]
    BY <1>4 DEF Decision, WaitOf, LocallyBlocked
  <2> QED BY <1>1, <1>4, <2>1, <2>2
<1>5. CASE ~LocallyBlocked(i) /\ i \notin dark /\ ~(reset[i] > 0)
  <2>1. CapacityDecision(i) = [usable |-> TRUE, wait |-> 0, reason |-> "usable"]
    BY <1>5 DEF CapacityDecision
  <2>2. Decision(i) = CapacityDecision(i) /\ WaitOf(i) = reset[i]
    BY <1>5 DEF Decision, WaitOf, LocallyBlocked
  <2> QED BY <1>1, <1>5, <2>1, <2>2
<1> QED BY <1>2, <1>3, <1>4, <1>5

\* The wait of the rotation is no longer than that of any entry that has to wait.
LEMMA SoonestIs ==
  ASSUME Timers
  PROVE /\ SoonestWaitUntil \in Nat
        /\ \A i \in Idx : Decision(i).wait > 0 => SoonestWaitUntil <= Decision(i).wait
<1> DEFINE W == {Decision(i).wait : i \in Idx} \ {0}
<1>1. \A i \in Idx : Decision(i).wait \in Nat
  BY DecisionIs
<1>2. W \subseteq Nat
  BY <1>1
<1>3. SoonestWaitUntil = IF W = {} THEN Poll ELSE Min(W)
  BY DEF SoonestWaitUntil
<1>4. \A i \in Idx : Decision(i).wait > 0 => Decision(i).wait \in W
  BY <1>1
<1> HIDE DEF W
<1>5. CASE W = {}
  BY <1>3, <1>4, <1>5, Constants
<1>6. CASE W # {}
  BY <1>2, <1>3, <1>4, <1>6, MinIs
<1> QED BY <1>5, <1>6

\* The entry whose recovery is awaited is one of those asked about.
LEMMA SoonestBlockedIs ==
  ASSUME Timers, NEW S, S \subseteq Idx, S # {}
  PROVE SoonestBlocked(S).limited = TRUE /\ SoonestBlocked(S).index \in S
<1> DEFINE T == {Decision(i).wait : i \in S}
<1>1. \A i \in S : Decision(i).wait \in Nat
  BY DecisionIs
<1>2. PICK t \in T : \A k \in T : t <= k
  <2>1. T \subseteq Nat /\ T # {}
    BY <1>1
  <2> HIDE DEF T
  <2> QED BY <2>1, Minimum
<1> DEFINE B == {i \in S : Decision(i).wait = t}
<1>3. B \subseteq Nat /\ B # {}
  BY <1>2, Constants
<1>4. PICK i \in B : \A j \in B : i <= j
  BY <1>3, Minimum
<1> DEFINE Best(k) == \A j \in S : \/ Decision(k).wait < Decision(j).wait
                                   \/ Decision(k).wait = Decision(j).wait /\ k <= j
<1>5. i \in S /\ Best(i)
  <2>1. \A j \in S : Decision(j).wait \in Nat /\ t <= Decision(j).wait
    BY <1>1, <1>2
  <2>2. t \in Nat /\ i \in S /\ Decision(i).wait = t
    BY <1>1, <1>2, <1>4
  <2>3. \A j \in S : Decision(j).wait = t => i <= j
    BY <1>4
  <2> QED BY <2>1, <2>2, <2>3
<1>6. SoonestBlocked(S).limited = TRUE /\ SoonestBlocked(S).index = CHOOSE k \in S : Best(k)
  BY DEF SoonestBlocked
<1> HIDE DEF Best
<1>7. (CHOOSE k \in S : Best(k)) \in S
  BY <1>5
<1> QED BY <1>6, <1>7

\* Among usable entries one of them is run; a measurable one only if no usable
\* entry has completed less, when an opaque one is usable too.
LEMMA ReadyIs ==
  ASSUME cfg.evenBurn \in BOOLEAN,
         NEW S, S \subseteq Idx, S # {}, NEW cur \in Idx, NEW score \in Scores, NEW n \in [Idx -> Nat]
  PROVE LET r == ReadySelection(S, n, cur, score) IN
        /\ r \in S
        /\ cfg.evenBurn /\ r \notin Opaque /\ S \cap Opaque # {} => \A j \in S : n[r] <= n[j]
<1>1. CASE cfg.evenBurn /\ S \ Opaque # {} /\ S \cap Opaque # {}
  BY <1>1, MixedIs DEF ReadySelection
<1>2. CASE cfg.evenBurn /\ S \cap Opaque = {}
  BY <1>2, EvenBurnIs DEF ReadySelection
<1>3. CASE ~cfg.evenBurn
  BY <1>3, FirstIs DEF ReadySelection
<1>4. CASE cfg.evenBurn /\ S \ Opaque = {} /\ S \cap Opaque # {}
  <2>1. ReadySelection(S, n, cur, score) = First(S, cur)
    BY <1>4 DEF ReadySelection
  <2> QED BY <2>1, <1>4, FirstIs
<1> QED BY <1>1, <1>2, <1>3, <1>4

\* A selection waits only if nothing it may choose is usable, and else is fair.
LEMMA SelectionIs ==
  ASSUME Timers, cfg.evenBurn \in BOOLEAN, cfg.routes \in BOOLEAN,
         NEW skip, skip \subseteq Idx, NEW cur \in Idx, NEW score \in Scores, NEW n \in [Idx -> Nat]
  PROVE LET c == Selection(skip, n, cur, score)
            usable == {i \in Idx \ skip : Decision(i).usable}
        IN /\ c.index \in Idx \cup {-1}
           /\ c.limited => usable = {} /\ c.index \in Idx
           /\ usable # {} => /\ c.index \in usable
                             /\ cfg.evenBurn /\ c.index \notin Opaque /\ usable \cap Opaque # {} =>
                                  \A j \in usable : n[c.index] <= n[j]
<1> DEFINE A == Idx \ skip
<1> DEFINE U == {i \in A : Decision(i).usable}
<1> DEFINE B == {i \in A : Decision(i).reason \in BlockedReasons}
<1>1. U \subseteq Idx /\ B \subseteq Idx /\ A \subseteq Idx
  OBVIOUS
<1>2. CASE U # {}
  <2>1. Selection(skip, n, cur, score) = Run(ReadySelection(U, n, cur, score))
    BY <1>2 DEF Selection
  <2>2. ReadySelection(U, n, cur, score) \in U
    BY <1>1, <1>2, ReadyIs
  <2>3. cfg.evenBurn /\ ReadySelection(U, n, cur, score) \notin Opaque /\ U \cap Opaque # {} =>
          \A j \in U : n[ReadySelection(U, n, cur, score)] <= n[j]
    BY <1>1, <1>2, ReadyIs
  <2>4. Selection(skip, n, cur, score).index = ReadySelection(U, n, cur, score)
        /\ ~Selection(skip, n, cur, score).limited
    BY <2>1 DEF Run
  <2> QED BY <2>2, <2>3, <2>4
<1>3. CASE U = {} /\ cfg.routes
  <2>1. Selection(skip, n, cur, score) = RouteFallback(A, B, cur)
    BY <1>3 DEF Selection
  <2>2. CASE B # {}
    BY <2>1, <2>2, <1>1, <1>3, SoonestBlockedIs DEF RouteFallback
  <2>3. CASE B = {} /\ A # {}
    <3>1. RouteFallback(A, B, cur) = Run(First(A, cur))
      BY <2>3 DEF RouteFallback
    <3>2. First(A, cur) \in A
      BY <2>3, <1>1, FirstIs
    <3> QED BY <3>1, <3>2, <2>1, <1>3 DEF Run
  <2>4. CASE B = {} /\ A = {}
    <3>1. RouteFallback(A, B, cur) = Run(-1)
      BY <2>4 DEF RouteFallback
    <3> QED BY <3>1, <2>1, <1>3 DEF Run
  <2> QED BY <2>2, <2>3, <2>4
<1>4. CASE U = {} /\ ~cfg.routes
  <2>1. Selection(skip, n, cur, score) = ProviderFallback(A, B, cur)
    BY <1>4 DEF Selection
  <2>2. CASE A \ B # {}
    <3>1. ProviderFallback(A, B, cur) = Run(First(A \ B, cur))
      BY <2>2 DEF ProviderFallback
    <3>2. First(A \ B, cur) \in A \ B
      BY <2>2, <1>1, FirstIs
    <3> QED BY <3>1, <3>2, <2>1, <1>4 DEF Run
  <2>3. CASE A \ B = {} /\ B # {}
    BY <2>1, <2>3, <1>1, <1>4, SoonestBlockedIs DEF ProviderFallback
  <2>4. CASE A \ B = {} /\ B = {}
    <3>1. ProviderFallback(A, B, cur) = Run(-1)
      BY <2>4 DEF ProviderFallback
    <3> QED BY <3>1, <2>1, <1>4 DEF Run
  <2> QED BY <2>2, <2>3, <2>4
<1> QED BY <1>2, <1>3, <1>4

-----------------------------------------------------------------------------
(* The inductive invariant *)

\* The locations at which an entry is selected: from its selection until its
\* iteration is counted.
Chosen == {"save", "launch", "usable", "doze", "run", "retry", "exit"}

\* State is well typed, and the selected entry is one of the rotation.
Typed ==
    /\ TypeOK
    /\ Opaque \cap Flaky = {}
    /\ pc \in Chosen \cup {"commit"} => sel \in Idx

\* An opaque entry that never failed is usable and never set aside, so it is
\* neither waited for nor rotated away from; a crash forgets which they are.
SteadyIsUsable ==
    /\ \A o \in steady : block[o] = 0 /\ reset[o] = 0 /\ o \notin skipped
    /\ pc \in {"doze", "retry"} => sel \notin steady
    /\ pc = "exit" /\ status \in {1, 75, 143} => sel \notin steady
    /\ pc = "down" => steady = {}

\* A measurable entry that was selected has completed no more than they have.
SelectionIsFair ==
    pc \in Chosen /\ cfg.evenBurn /\ sel \notin Opaque => \A o \in steady : counts[sel] <= counts[o]

\* A clean exit is a run that has not been counted yet.
ExitIsUncounted == pc = "exit" /\ status = 0 => counts[sel] + 1 <= done[sel]

\* The wait is not longer than that of an entry that has to wait, from the
\* moment it is computed until it ends.
WaitIsShort ==
    pc \in {"blocked", "wait"} \/ (pc = "save" /\ status = 1) =>
        \A i \in Idx \ Flaky : Decision(i).wait > 0 => left <= Decision(i).wait

RalphInv ==
    Typed /\ SteadyIsUsable /\ SelectionIsFair /\ ExitIsUncounted /\ RotationIsFair /\ WaitIsShort

-----------------------------------------------------------------------------
(* Time *)

\* Numbers stay numbers as time passes, and a timer that has run out stays so.
LEMMA ElapseIs ==
  ASSUME Timers, NEW d \in Nat, Elapse(d)
  PROVE /\ Timers'
        /\ \A i \in Idx : /\ reset[i] = 0 => reset'[i] = 0
                          /\ block[i] = 0 => block'[i] = 0
<1>1. \A i \in Idx : reset[i] \in Nat /\ block[i] \in Nat
  BY DEF Timers
<1> QED BY <1>1 DEF Elapse, Less, Timers

\* What a tick leaves of the budget and adds to the time awake.
LEMMA TickIs ==
  ASSUME TypeOK, Tick
  PROVE /\ Timers'
        /\ \A i \in Idx : (reset[i] = 0 => reset'[i] = 0) /\ (block[i] = 0 => block'[i] = 0)
        /\ budget' \in 0 .. MaxDuration
        /\ sleep' \in [suspends : Nat, awake : 0 .. MinAwake, disabled : BOOLEAN]
<1>1. Timers /\ Elapse(1)
  BY DEF TypeOK, Timers, Tick
<1>2. budget \in 0 .. MaxDuration /\ sleep \in [suspends : Nat, awake : 0 .. MinAwake, disabled : BOOLEAN]
  BY DEF TypeOK
<1>3. budget' \in 0 .. MaxDuration
  BY <1>2, Constants DEF Tick, Less
<1>4. Min({MinAwake, sleep.awake + 1}) \in 0 .. MinAwake
  BY <1>2, Constants, MinOfTwo
<1>5. sleep' \in [suspends : Nat, awake : 0 .. MinAwake, disabled : BOOLEAN]
  BY <1>2, <1>4 DEF Tick
<1> QED BY <1>1, <1>3, <1>5, ElapseIs

\* The clock stands still or ticks.
LEMMA NoTimeIs ==
  ASSUME TypeOK, NoTime
  PROVE /\ Timers'
        /\ \A i \in Idx : (reset[i] = 0 => reset'[i] = 0) /\ (block[i] = 0 => block'[i] = 0)
        /\ budget' \in 0 .. MaxDuration
        /\ sleep' \in [suspends : Nat, awake : 0 .. MinAwake, disabled : BOOLEAN]
BY DEF TypeOK, Timers, NoTime

\* A wait cut to the time budget.
LEMMA CappedIs ==
  ASSUME TypeOK, NEW t \in Nat PROVE Capped(t) \in Nat /\ Capped(t) <= t
<1>1. budget \in Nat
  BY Constants DEF TypeOK
<1> QED BY <1>1, MinOfTwo DEF Capped

\* Requests of the operator are bounded.
LEMMA InterruptedIs ==
  ASSUME TypeOK, Interrupted PROVE faults' \in 0 .. MaxFaults
<1>1. faults \in 0 .. MaxFaults /\ faults < MaxFaults /\ faults' = faults + 1
  BY DEF TypeOK, Interrupted
<1> QED BY <1>1, Constants

-----------------------------------------------------------------------------
(* Every step keeps the state well typed *)

\* Every step keeps the types.
LEMMA TypedStep == Typed /\ [Next]_vars => Typed'
<1> SUFFICES ASSUME Typed, [Next]_vars PROVE Typed'
  OBVIOUS
<1>0. TypeOK /\ Opaque \cap Flaky = {} /\ (pc \in Chosen \cup {"commit"} => sel \in Idx)
  BY DEF Typed
<1>c. Timers /\ 0 \in Idx /\ Idx \subseteq Nat
  BY <1>0, Constants DEF TypeOK, Timers
<1> USE DEF loopVars, runVars, envVars
<1>1. CASE Restart
  BY <1>0, <1>1, <1>c DEF Restart, Typed, TypeOK, PCs, Chosen, Opaque, CurrentIndexFromState, CompletedCountsFromState, Readable
<1>2. CASE TimedOut \/ WaitTimedOut
  <2>1. /\ pc' = "ended" /\ status' \in {0, 75}
        /\ UNCHANGED <<loopVars, left, since, attempt, ran, envVars>>
    BY <1>2 DEF TimedOut, WaitTimedOut, StopTimedOut
  <2> QED BY <1>0, <1>c, <2>1 DEF Typed, TypeOK, PCs, Chosen, Opaque
<1>4. CASE SaveState
  BY <1>0, <1>4, <1>c DEF SaveState, StateFile, Typed, TypeOK, PCs, Chosen, Opaque
<1>6. CASE \E b \in BOOLEAN : WaitAwake(b)
  <2>1. Capped(left) \in Nat
    BY <1>0, CappedIs DEF TypeOK
  <2> QED BY <1>0, <1>6, <1>c, <2>1 DEF WaitAwake, Typed, TypeOK, PCs, Chosen, Opaque
<1>7. CASE WaitUntilEpoch
  <2>1. Timers' /\ budget' \in 0 .. MaxDuration
        /\ sleep' \in [suspends : Nat, awake : 0 .. MinAwake, disabled : BOOLEAN]
    BY <1>0, <1>7, TickIs, NoTimeIs DEF WaitUntilEpoch
  <2>2. left' \in {left - 1, 0} /\ (left' = left - 1 => left > 0)
        /\ pc' \in {"wait", "top"} /\ skipped' \in {skipped, {}} /\ sel' \in {sel, 0}
    <3>1. CASE left > 0
      BY <1>7, <3>1 DEF WaitUntilEpoch
    <3>2. CASE ~(left > 0)
      BY <1>0, <1>7, <3>2 DEF WaitUntilEpoch, Resume, TypeOK
    <3> QED BY <3>1, <3>2
  <2>3. left \in Nat
    BY <1>0 DEF TypeOK
  <2>4. left' \in Nat
    BY <2>2, <2>3
  <2> QED BY <1>0, <1>c, <1>7, <2>1, <2>2, <2>4 DEF WaitUntilEpoch, Typed, TypeOK, PCs, Chosen, Opaque, Timers
<1>8. CASE Launch
  BY <1>0, <1>8, <1>c, Constants DEF Launch, Interrupted, Typed, TypeOK, PCs, Chosen, Opaque
<1>9. CASE WaitUntilUsable
  <2>1. sel \in Idx
    BY <1>0, <1>9 DEF WaitUntilUsable, Chosen
  <2>2. Decision(sel).wait \in Nat
    BY <2>1, <1>c, DecisionIs
  <2>3. /\ pc' \in {"run", "doze"} /\ left' \in {left, Decision(sel).wait} /\ since' \in {since, 0, -1}
        /\ attempt' \in {attempt, 1} /\ UNCHANGED <<loopVars, ran, status, envVars>>
    BY <1>9 DEF WaitUntilUsable
  <2> HIDE DEF Decision
  <2> QED BY <1>0, <2>1, <2>2, <2>3 DEF Typed, TypeOK, PCs, Chosen, Opaque
<1>10. CASE SleepInterruptibly
  <2>1. Timers' /\ budget' \in 0 .. MaxDuration
        /\ sleep' \in [suspends : Nat, awake : 0 .. MinAwake, disabled : BOOLEAN]
    BY <1>0, <1>10, TickIs, NoTimeIs DEF SleepInterruptibly
  <2>2. since + 1 \in Nat => Min({MaxUnavailable, since + 1}) \in Nat
    BY Constants, MinOfTwo
  <2>3. left' \in Nat /\ since' \in Nat \cup {-1} /\ attempt' \in Nat /\ pc' \in {"doze", "retry", "usable", "run"}
    BY <1>0, <1>10, <2>2 DEF SleepInterruptibly, TypeOK
  <2>4. sel \in Idx
    BY <1>0, <1>10 DEF SleepInterruptibly, Chosen
  <2> QED BY <1>0, <1>10, <2>1, <2>3, <2>4 DEF SleepInterruptibly, Typed, TypeOK, PCs, Chosen, Opaque, Timers
<1>11. ASSUME NEW outcome \in Outcomes, NEW spent \in BOOLEAN, SubmitOnce(outcome, spent) PROVE Typed'
  <2>1. sel \in Idx
    BY <1>0, <1>11 DEF SubmitOnce, Chosen
  <2>2. reset' \in [Idx -> Nat]
    BY <1>0, <1>11, <2>1, Constants DEF SubmitOnce, Spend, TypeOK
  <2>3. block' \in [Idx -> Nat]
    BY <1>0, <1>11, <2>1, Constants DEF SubmitOnce, TypeOK
  <2>4. done' \in [Idx -> Nat]
    BY <1>0, <1>11, <2>1 DEF SubmitOnce, TypeOK
  <2>5. steady' \subseteq Opaque
    BY <1>0, <1>11 DEF SubmitOnce, TypeOK
  <2>6. pc' \in {"retry", "exit"} /\ left' \in {left, 1}
    BY <1>11 DEF SubmitOnce
  <2>7. status' \in {0, 1, 75, 76, 78, 143}
    BY <1>0, <1>11 DEF SubmitOnce, Outcomes, TypeOK
  <2>8. UNCHANGED <<loopVars, since, attempt, ran, dark, faults>>
    BY <1>11 DEF SubmitOnce
  <2> QED BY <1>0, <2>1, <2>2, <2>3, <2>4, <2>5, <2>6, <2>7, <2>8 DEF Typed, TypeOK, PCs, Chosen, Opaque
<1>12. CASE Succeeded
  BY <1>0, <1>12, <1>c DEF Succeeded, Torn, Typed, TypeOK, PCs, Chosen, Opaque
<1>13. CASE Commit
  <2>1. sel \in Idx
    BY <1>0, <1>13 DEF Commit
  <2>2. Timers' /\ budget' \in 0 .. MaxDuration
        /\ sleep' \in [suspends : Nat, awake : 0 .. MinAwake, disabled : BOOLEAN]
    BY <1>0, <1>13, TickIs, NoTimeIs DEF Commit
  <2>3. /\ idx' \in {idx, sel} /\ skipped' \in {skipped, {}} /\ pc' \in {"top", "ended"} /\ left' = 0
        /\ status' \in {status, 0, 75}
    BY <1>13 DEF Commit, Exit
  <2>4. streak' \in [fast : Nat, hard : Nat]
    BY <1>0, <1>13 DEF Commit, TypeOK
  <2>5. saved' \in [spec : 0 .. 2, index : Idx, counts : [Idx -> Nat]]
    BY <1>0, <1>13, <2>1 DEF Commit, TypeOK, StateFile
  <2>6. /\ since' = -1 /\ attempt' = 0 /\ ran' = 0 /\ sel' = 0
        /\ UNCHANGED <<cfg, counts, completed, dark, done, steady, faults>>
    BY <1>13 DEF Commit, Iterated
  <2> QED BY <1>0, <1>c, <2>1, <2>2, <2>3, <2>4, <2>5, <2>6 DEF Typed, TypeOK, PCs, Chosen, Opaque, Timers
<1>14. CASE NotLaunched
  <2>1. /\ pc' \in {"top", "ended"} /\ left' = 0 /\ status' \in {status, 0} /\ sel' = 0
        /\ since' = -1 /\ attempt' = 0 /\ ran' = 0
        /\ UNCHANGED <<idx, skipped, cfg, counts, completed, streak, budget, sleep, saved, envVars>>
    BY <1>14 DEF NotLaunched, Exit, Iterated
  <2> QED BY <1>0, <1>c, <2>1 DEF Typed, TypeOK, PCs, Chosen, Opaque
<1>15. CASE RotateAway
  <2>1. sel \in Idx /\ NextIndex(sel) \in Idx
    BY <1>0, <1>15, Constants DEF RotateAway, Chosen, NextIndex, Idx
  <2>2. SoonestWaitUntil \in Nat
    BY <1>c, SoonestIs
  <2>3. /\ pc' \in {"ended", "blocked", "top"} /\ left' \in {0, SoonestWaitUntil}
        /\ idx' \in {idx, NextIndex(sel)} /\ skipped' \in {skipped, skipped \cup {sel}}
        /\ status' \in {status, 0}
        /\ streak' \in {streak, [streak EXCEPT !.hard = @ + 1]}
        /\ since' = -1 /\ attempt' = 0 /\ ran' = 0 /\ sel' = 0
        /\ UNCHANGED <<cfg, counts, completed, budget, sleep, saved, envVars>>
    BY <1>15 DEF RotateAway, Exit, SuspendUntilAvailable, Iterated
  <2>4. streak' \in [fast : Nat, hard : Nat]
    BY <1>0, <2>3 DEF TypeOK
  <2> HIDE DEF SoonestWaitUntil, NextIndex
  <2> QED BY <1>0, <1>c, <2>1, <2>2, <2>3, <2>4 DEF Typed, TypeOK, PCs, Chosen, Opaque
<1>16. CASE Crash
  BY <1>0, <1>16, <1>c, Constants DEF Crash, NoStreak, NewSuspendState, Typed, TypeOK, PCs, Chosen, Opaque
<1>17. CASE BridgeStop
  <2>1. faults' \in 0 .. MaxFaults
    BY <1>0, <1>17, InterruptedIs DEF BridgeStop
  <2> QED BY <1>0, <1>17, <1>c, <2>1 DEF BridgeStop, Typed, TypeOK, PCs, Chosen, Opaque
<1>18. ASSUME NEW reload \in BOOLEAN, NEW score \in Scores, Select(reload, score) PROVE Typed'
  <2> DEFINE cur == IF reload THEN 0 ELSE idx
  <2> DEFINE skip == IF reload THEN {} ELSE skipped
  <2> DEFINE n == IF reload THEN [i \in Idx |-> 0] ELSE counts
  <2> DEFINE choice == Selection(skip, n, cur, score)
  <2>1. cur \in Idx /\ skip \subseteq Idx /\ n \in [Idx -> Nat]
    BY <1>0, <1>c DEF TypeOK
  <2>2. /\ idx' = cur /\ skipped' = skip /\ counts' = n /\ sel' = choice.index
        /\ left' = SoonestWaitUntil
        /\ pc' = (IF choice.index = -1 THEN "blocked" ELSE "save")
        /\ saved' \in {saved, Torn}
        /\ status' \in {0, 1}
        /\ UNCHANGED <<completed, streak, since, attempt, ran, reset, block, dark, done, budget, sleep>>
    BY <1>18 DEF Select
  <2>3. choice.index \in Idx \cup {-1}
    <3>1. cfg.evenBurn \in BOOLEAN /\ cfg.routes \in BOOLEAN
      BY <1>0 DEF TypeOK
    <3> QED BY <1>c, <2>1, <3>1, SelectionIs
  <2>4. cfg' \in [routes : BOOLEAN, evenBurn : BOOLEAN, bridged : BOOLEAN,
                  duration : 0 .. MaxDuration, spec : {1, 2}, opaque : SUBSET Idx]
        /\ cfg'.opaque = cfg.opaque /\ steady' \subseteq cfg.opaque /\ faults' \in 0 .. MaxFaults
    <3>1. CASE reload
      <4>1. 3 - cfg.spec \in {1, 2}
        BY <1>0 DEF TypeOK
      <4>2. cfg' = [cfg EXCEPT !.spec = 3 - @] /\ steady' = {} /\ faults' = faults + 1 /\ faults < MaxFaults
        BY <1>18, <3>1 DEF Select, ReloadRotation, Interrupted
      <4> QED BY <1>0, <4>1, <4>2, Constants DEF TypeOK
    <3>2. CASE ~reload
      BY <1>18, <1>0, <3>2 DEF Select, TypeOK, Opaque
    <3> QED BY <3>1, <3>2
  <2>5. SoonestWaitUntil \in Nat
    BY <1>c, SoonestIs
  <2>6. Torn \in [spec : 0 .. 2, index : Idx, counts : [Idx -> Nat]]
    BY <1>c DEF Torn
  <2> HIDE DEF choice, cur, skip, n
  <2> QED BY <1>0, <2>1, <2>2, <2>3, <2>4, <2>5, <2>6 DEF Typed, TypeOK, PCs, Chosen, Opaque
<1>19. CASE WaitInterrupted
  <2>1. faults' \in 0 .. MaxFaults
    BY <1>0, <1>19, InterruptedIs DEF WaitInterrupted
  <2> QED BY <1>0, <1>19, <1>c, <2>1 DEF WaitInterrupted, Resume, Typed, TypeOK, PCs, Chosen, Opaque
<1>20. ASSUME NEW d \in 1 .. MaxReset + 1, Suspend(d) PROVE Typed'
  <2>1. Timers'
    BY <1>c, <1>20, ElapseIs DEF Suspend
  <2>2. sleep' \in [suspends : Nat, awake : 0 .. MinAwake, disabled : BOOLEAN]
    BY <1>0, <1>20, Constants DEF Suspend, TypeOK
  <2>3. pc' = "top" /\ skipped' = {} /\ left' = 0 /\ sel' = 0
        /\ UNCHANGED <<cfg, idx, counts, completed, streak, budget, saved>>
        /\ UNCHANGED <<since, attempt, ran, status, dark, done, steady, faults>>
    BY <1>20 DEF Suspend, Resume
  <2> QED BY <1>0, <1>c, <2>1, <2>2, <2>3 DEF Typed, TypeOK, PCs, Chosen, Opaque, Timers
<1>21. CASE SleepInterrupted
  <2>1. faults' \in 0 .. MaxFaults
    BY <1>0, <1>21, InterruptedIs DEF SleepInterrupted
  <2> QED BY <1>0, <1>21, <1>c, <2>1 DEF SleepInterrupted, Typed, TypeOK, PCs, Chosen, Opaque
<1>22. CASE LaunchRefused
  BY <1>0, <1>22 DEF LaunchRefused, Typed, TypeOK, PCs, Chosen, Opaque
<1>23. CASE RunTick
  <2>1. Timers' /\ budget' \in 0 .. MaxDuration
        /\ sleep' \in [suspends : Nat, awake : 0 .. MinAwake, disabled : BOOLEAN]
    BY <1>0, <1>23, TickIs DEF RunTick
  <2> QED BY <1>0, <1>23, <2>1 DEF RunTick, Typed, TypeOK, PCs, Chosen, Opaque, Timers
<1>24. ASSUME NEW i \in Flaky, Flicker(i) PROVE Typed'
  BY <1>0, <1>24 DEF Flicker, Typed, TypeOK, PCs, Chosen, Opaque
<1>25. CASE UNCHANGED vars
  BY <1>0, <1>25 DEF vars, Typed, TypeOK, PCs, Chosen, Opaque
<1> HIDE DEF loopVars, runVars, envVars
<1> QED
  BY <1>1, <1>2, <1>4, <1>6, <1>7, <1>8, <1>9, <1>10, <1>11, <1>12, <1>13, <1>14, <1>15,
     <1>16, <1>17, <1>18, <1>19, <1>20, <1>21, <1>22, <1>23, <1>24, <1>25 DEF Next, Step

-----------------------------------------------------------------------------
(* Every step keeps the steady entries usable *)

\* A steady entry is one of the rotation, and usable.
LEMMA SteadyIs ==
  ASSUME Typed, SteadyIsUsable, NEW o \in steady
  PROVE o \in Idx /\ o \in Opaque /\ o \notin skipped /\ Decision(o).usable
<1>1. Timers /\ o \in Opaque /\ o \in Idx /\ o \notin dark
  BY DEF Typed, TypeOK, Timers, Opaque
<1>2. block[o] = 0 /\ reset[o] = 0 /\ o \notin skipped
  BY DEF SteadyIsUsable
<1> QED BY <1>1, <1>2, DecisionIs

\* Timers that have run out stay so.
Expired == \A i \in Idx : (reset[i] = 0 => reset'[i] = 0) /\ (block[i] = 0 => block'[i] = 0)

\* A step that lets time pass and sets no steady entry aside keeps them usable.
LEMMA SteadyStays ==
  ASSUME Typed, SteadyIsUsable, Expired, steady' \subseteq steady, steady' \cap skipped' = {},
         pc' \in {"doze", "retry"} => sel' \notin steady',
         pc' = "exit" /\ status' \in {1, 75, 143} => sel' \notin steady',
         pc' = "down" => steady' = {}
  PROVE SteadyIsUsable'
<1>1. steady \subseteq Idx
  BY DEF Typed, TypeOK, Opaque
<1> QED BY <1>1 DEF SteadyIsUsable, Expired

\* Every step keeps the steady entry usable.
LEMMA SteadyStep == Typed /\ SteadyIsUsable /\ [Next]_vars => SteadyIsUsable'
<1> SUFFICES ASSUME Typed, SteadyIsUsable, [Next]_vars PROVE SteadyIsUsable'
  OBVIOUS
<1>0. TypeOK /\ steady \cap skipped = {} /\ steady \subseteq Idx
  BY SteadyIs DEF Typed, TypeOK, Opaque
<1>a. pc \in {"doze", "retry"} => sel \notin steady
  BY DEF SteadyIsUsable
<1>b. pc = "exit" /\ status \in {1, 75, 143} => sel \notin steady
  BY DEF SteadyIsUsable
<1>c. pc = "down" => steady = {}
  BY DEF SteadyIsUsable
<1>d. reset' = reset /\ block' = block => Expired
  BY DEF Expired
<1>e. Tick \/ NoTime => Expired
  BY <1>0, TickIs, NoTimeIs DEF Expired
<1> USE DEF loopVars, runVars, envVars
<1>1. CASE Restart
  BY <1>0, <1>1, <1>d, SteadyStays DEF Restart
<1>2. CASE TimedOut \/ WaitTimedOut
  BY <1>0, <1>2, <1>d, SteadyStays DEF TimedOut, WaitTimedOut, StopTimedOut
<1>4. CASE SaveState
  <2>1. pc' \in {"blocked", "launch"} /\ steady' = steady /\ skipped' = skipped /\ reset' = reset /\ block' = block
    BY <1>4 DEF SaveState
  <2> QED BY <1>0, <2>1, <1>d, SteadyStays
<1>6. CASE \E b \in BOOLEAN : WaitAwake(b)
  BY <1>0, <1>6, <1>d, SteadyStays DEF WaitAwake
<1>7. CASE WaitUntilEpoch
  <2>1. pc' \in {"wait", "top"} /\ steady' = steady /\ skipped' \in {skipped, {}} /\ Expired
    BY <1>7, <1>e DEF WaitUntilEpoch, Resume
  <2> QED BY <1>0, <2>1, SteadyStays
<1>8. CASE Launch
  BY <1>0, <1>8, <1>d, SteadyStays DEF Launch
<1>9. CASE WaitUntilUsable
  <2>1. sel \in steady => Decision(sel).usable
    BY SteadyIs
  <2>2. steady' = steady /\ skipped' = skipped /\ sel' = sel /\ reset' = reset /\ block' = block
        /\ pc' = (IF Decision(sel).usable THEN "run" ELSE pc') /\ pc' \in {"run", "doze"}
    BY <1>9 DEF WaitUntilUsable
  <2> HIDE DEF Decision
  <2>3. pc' = "doze" => sel' \notin steady'
    BY <2>1, <2>2
  <2> QED BY <1>0, <2>2, <2>3, <1>d, SteadyStays
<1>10. CASE SleepInterruptibly
  <2>1. /\ pc \in {"doze", "retry"} /\ pc' \in {pc, "usable", "run"}
        /\ steady' = steady /\ skipped' = skipped /\ sel' = sel /\ Expired
    BY <1>10, <1>e DEF SleepInterruptibly
  <2> QED BY <1>0, <1>a, <2>1, SteadyStays
<1>11. ASSUME NEW outcome \in Outcomes, NEW spent \in BOOLEAN, SubmitOnce(outcome, spent) PROVE SteadyIsUsable'
  <2>1. sel \in Idx
    BY <1>11 DEF SubmitOnce, Typed, Chosen
  <2>2. /\ steady' = (IF outcome = "ok" THEN steady ELSE steady \ {sel}) /\ skipped' = skipped /\ sel' = sel
        /\ pc' \in {"retry", "exit"}
    BY <1>11 DEF SubmitOnce
  <2>3. \A o \in steady' : reset'[o] = 0
    <3>1. \A o \in steady : reset[o] = 0 /\ o \in Opaque /\ o \in Idx
      BY DEF SteadyIsUsable, Typed, TypeOK, Opaque
    <3>2. reset' = (IF spent /\ sel \notin Opaque THEN [reset EXCEPT ![sel] = MaxReset] ELSE reset)
      BY <1>11 DEF SubmitOnce, Spend
    <3>3. reset \in [Idx -> Nat]
      BY <1>0 DEF TypeOK
    <3> QED BY <2>1, <2>2, <3>1, <3>2, <3>3
  <2>4. \A o \in steady' : block'[o] = 0
    <3>1. \A o \in steady : block[o] = 0 /\ o \in Idx
      BY DEF SteadyIsUsable, Typed, TypeOK, Opaque
    <3>2. block \in [Idx -> Nat]
      BY <1>0 DEF TypeOK
    <3>3. CASE outcome = "ok"
      <4>1. block' \in {block, [block EXCEPT ![sel] = 0]}
        BY <1>11, <3>3 DEF SubmitOnce
      <4> QED BY <2>1, <2>2, <3>1, <3>2, <4>1
    <3>4. CASE outcome # "ok"
      <4>1. block' \in {block, [block EXCEPT ![sel] = Backoff]}
        BY <1>11, <3>4 DEF SubmitOnce
      <4> QED BY <2>1, <2>2, <3>1, <3>2, <3>4, <4>1
    <3> QED BY <3>3, <3>4
  <2>5. pc' = "retry" \/ (pc' = "exit" /\ status' \in {1, 75, 143}) => outcome # "ok"
    BY <1>11 DEF SubmitOnce, Outcomes
  <2>6. outcome # "ok" => sel' \notin steady'
    BY <2>2
  <2> QED BY <1>0, <2>2, <2>3, <2>4, <2>5, <2>6 DEF SteadyIsUsable
<1>12. CASE Succeeded
  BY <1>0, <1>12, <1>d, SteadyStays DEF Succeeded
<1>13. CASE Commit
  <2>1. pc' \in {"top", "ended"} /\ steady' = steady /\ skipped' \in {skipped, {}} /\ Expired
    BY <1>13, <1>e DEF Commit, Exit
  <2> QED BY <1>0, <2>1, SteadyStays
<1>14. CASE NotLaunched
  <2>1. pc' \in {"top", "ended"} /\ steady' = steady /\ skipped' = skipped /\ reset' = reset /\ block' = block
    BY <1>14 DEF NotLaunched, Exit
  <2> QED BY <1>0, <2>1, <1>d, SteadyStays
<1>15. CASE RotateAway
  <2>1. pc' \in {"ended", "blocked", "top"} /\ steady' = steady
        /\ skipped' \in {skipped, skipped \cup {sel}} /\ reset' = reset /\ block' = block
    BY <1>15 DEF RotateAway, Exit, SuspendUntilAvailable
  <2>2. sel \notin steady
    BY <1>15, <1>b DEF RotateAway
  <2> QED BY <1>0, <2>1, <2>2, <1>d, SteadyStays
<1>16. CASE Crash
  BY <1>16 DEF Crash, SteadyIsUsable
<1>17. CASE BridgeStop
  BY <1>0, <1>17, <1>d, SteadyStays DEF BridgeStop
<1>18. ASSUME NEW reload \in BOOLEAN, NEW score \in Scores, Select(reload, score) PROVE SteadyIsUsable'
  <2>1. /\ pc' \in {"blocked", "save"} /\ skipped' = (IF reload THEN {} ELSE skipped)
        /\ steady' = (IF reload THEN {} ELSE steady) /\ reset' = reset /\ block' = block
    BY <1>18 DEF Select, ReloadRotation
  <2> QED BY <1>0, <2>1, <1>d, SteadyStays
<1>19. CASE WaitInterrupted
  BY <1>0, <1>19, <1>d, SteadyStays DEF WaitInterrupted, Resume
<1>20. ASSUME NEW d \in 1 .. MaxReset + 1, Suspend(d) PROVE SteadyIsUsable'
  <2>1. d \in Nat /\ Timers /\ Elapse(d)
    BY <1>0, <1>20, Constants DEF Suspend, TypeOK, Timers
  <2>2. Expired
    BY <2>1, ElapseIs DEF Expired
  <2>3. pc' = "top" /\ steady' = steady /\ skipped' = {}
    BY <1>20 DEF Suspend, Resume
  <2> QED BY <2>2, <2>3, SteadyStays
<1>21. CASE SleepInterrupted
  BY <1>0, <1>21, <1>a, <1>d, SteadyStays DEF SleepInterrupted
<1>22. CASE LaunchRefused
  BY <1>0, <1>22, <1>d, SteadyStays DEF LaunchRefused
<1>23. CASE RunTick
  BY <1>0, <1>23, <1>e, SteadyStays DEF RunTick
<1>24. ASSUME NEW i \in Flaky, Flicker(i) PROVE SteadyIsUsable'
  BY <1>24 DEF Flicker, SteadyIsUsable
<1>25. CASE UNCHANGED vars
  BY <1>25 DEF vars, SteadyIsUsable
<1> HIDE DEF loopVars, runVars, envVars
<1> QED
  BY <1>1, <1>2, <1>4, <1>6, <1>7, <1>8, <1>9, <1>10, <1>11, <1>12, <1>13, <1>14, <1>15,
     <1>16, <1>17, <1>18, <1>19, <1>20, <1>21, <1>22, <1>23, <1>24, <1>25 DEF Next, Step

-----------------------------------------------------------------------------
(* Every step keeps the rotation fair and its counts true *)

Fairness == SelectionIsFair /\ ExitIsUncounted /\ RotationIsFair

\* A step that selects and counts nothing.
LEMMA FairnessStays ==
  ASSUME Fairness, cfg' = cfg, counts' = counts, done' = done, saved' = saved, steady' \subseteq steady,
         pc' \in Chosen => pc \in Chosen /\ sel' = sel,
         ~(pc' = "exit" /\ status' = 0)
  PROVE Fairness'
<1>1. SelectionIsFair'
  BY DEF Fairness, SelectionIsFair, Opaque
<1>2. ExitIsUncounted'
  BY DEF ExitIsUncounted
<1>3. RotationIsFair'
  BY DEF Fairness, RotationIsFair, Opaque
<1> QED BY <1>1, <1>2, <1>3 DEF Fairness

\* Every step keeps the selection fair.
LEMMA FairnessStep == Typed /\ SteadyIsUsable /\ Fairness /\ [Next]_vars => Fairness'
<1> SUFFICES ASSUME Typed, SteadyIsUsable, Fairness, [Next]_vars PROVE Fairness'
  OBVIOUS
<1>0. TypeOK /\ steady \subseteq Opaque /\ Opaque \subseteq Idx
  BY DEF Typed, TypeOK, Opaque
<1>a. /\ counts \in [Idx -> Nat] /\ done \in [Idx -> Nat]
      /\ saved \in [spec : 0 .. 2, index : Idx, counts : [Idx -> Nat]]
  BY <1>0 DEF TypeOK
<1>b. (\A i \in Idx : counts[i] <= done[i]) /\ (\A i \in Idx : saved.counts[i] <= done[i])
  BY DEF Fairness, RotationIsFair
<1>t. \A i \in Idx : Torn.counts[i] = 0
  BY DEF Torn
<1> USE DEF loopVars, runVars, envVars
<1>1. CASE Restart
  <2>1. steady' = {} /\ pc' = "top" /\ done' = done /\ saved' = saved
        /\ counts' = CompletedCountsFromState(saved)
    BY <1>1 DEF Restart, SteadyIsUsable
  <2>2. \A i \in Idx : counts'[i] <= done[i]
    BY <2>1, <1>a, <1>b DEF CompletedCountsFromState
  <2>3. SelectionIsFair' /\ ExitIsUncounted'
    BY <2>1 DEF SelectionIsFair, ExitIsUncounted, Chosen
  <2> QED BY <2>1, <2>2, <2>3, <1>b DEF Fairness, RotationIsFair
<1>2. CASE TimedOut \/ WaitTimedOut
  BY <1>2, FairnessStays DEF TimedOut, WaitTimedOut, StopTimedOut, Chosen
<1>4. CASE SaveState
  <2>1. /\ pc = "save" /\ pc' \in {"blocked", "launch"} /\ sel' = sel /\ counts' = counts /\ done' = done
        /\ steady' = steady /\ cfg' = cfg /\ saved'.counts = counts
    BY <1>4 DEF SaveState, StateFile
  <2>2. SelectionIsFair' /\ ExitIsUncounted'
    BY <2>1 DEF Fairness, SelectionIsFair, ExitIsUncounted, Chosen, Opaque
  <2>3. RotationIsFair'
    BY <2>1, <1>b DEF Fairness, RotationIsFair, Opaque
  <2> QED BY <2>2, <2>3 DEF Fairness
<1>6. CASE \E b \in BOOLEAN : WaitAwake(b)
  BY <1>6, FairnessStays DEF WaitAwake, Chosen
<1>7. CASE WaitUntilEpoch
  <2>1. /\ pc' \in {"wait", "top"} /\ steady' = steady /\ cfg' = cfg /\ counts' = counts /\ done' = done
        /\ saved' = saved
    BY <1>7 DEF WaitUntilEpoch, Resume
  <2> QED BY <2>1, FairnessStays DEF Chosen
<1>8. CASE Launch
  <2>1. /\ pc = "launch" /\ pc' \in {"usable", "top"} /\ steady' = steady /\ cfg' = cfg
        /\ counts' = counts /\ done' = done /\ saved' = saved /\ (pc' = "usable" => sel' = sel)
    BY <1>8 DEF Launch
  <2> QED BY <2>1, FairnessStays DEF Chosen
<1>9. CASE WaitUntilUsable
  <2>1. /\ pc = "usable" /\ pc' \in {"run", "doze"} /\ steady' = steady /\ cfg' = cfg
        /\ counts' = counts /\ done' = done /\ saved' = saved /\ sel' = sel
    BY <1>9 DEF WaitUntilUsable
  <2> QED BY <2>1, FairnessStays DEF Chosen
<1>10. CASE SleepInterruptibly
  <2>1. /\ pc \in {"doze", "retry"} /\ pc' \in {pc, "usable", "run"} /\ steady' = steady /\ cfg' = cfg
        /\ counts' = counts /\ done' = done /\ saved' = saved /\ sel' = sel
    BY <1>10 DEF SleepInterruptibly
  <2> QED BY <2>1, FairnessStays DEF Chosen
<1>11. ASSUME NEW outcome \in Outcomes, NEW spent \in BOOLEAN, SubmitOnce(outcome, spent) PROVE Fairness'
  <2>1. /\ pc = "run" /\ pc' \in {"retry", "exit"} /\ steady' \subseteq steady /\ cfg' = cfg
        /\ counts' = counts /\ saved' = saved /\ sel' = sel
        /\ done' = (IF outcome = "ok" THEN [done EXCEPT ![sel] = @ + 1] ELSE done)
    BY <1>11 DEF SubmitOnce
  <2>2. CASE outcome = "ok"
    <3>1. sel \in Idx
      BY <2>1 DEF Typed, Chosen
    <3>2. done'[sel] = done[sel] + 1 /\ \A i \in Idx : done[i] <= done'[i] /\ done'[i] \in Nat
      BY <2>1, <2>2, <3>1, <1>a
    <3>3. ExitIsUncounted'
      BY <2>1, <3>1, <3>2, <1>a, <1>b DEF ExitIsUncounted
    <3>4. SelectionIsFair'
      BY <2>1 DEF Fairness, SelectionIsFair, Opaque, Chosen
    <3>5. \A i \in Idx : counts[i] <= done'[i] /\ saved.counts[i] <= done'[i]
      BY <3>2, <1>a, <1>b
    <3>6. RotationIsFair'
      BY <2>1, <3>5 DEF Fairness, RotationIsFair, Opaque
    <3> QED BY <3>3, <3>4, <3>6 DEF Fairness
  <2>3. CASE outcome # "ok"
    <3>1. pc' = "exit" => status' # 0
      BY <1>11, <2>3 DEF SubmitOnce, Outcomes
    <3> QED BY <2>1, <2>3, <3>1, FairnessStays DEF Chosen
  <2> QED BY <2>2, <2>3
<1>12. CASE Succeeded
  <2>1. /\ pc = "exit" /\ status = 0 /\ pc' = "commit" /\ steady' = steady /\ cfg' = cfg /\ done' = done
        /\ saved' = Torn /\ counts' = [counts EXCEPT ![sel] = @ + 1]
    BY <1>12 DEF Succeeded
  <2>2. sel \in Idx
    BY <2>1 DEF Typed, Chosen
  <2>3. counts'[sel] = counts[sel] + 1 /\ \A i \in Idx : i # sel => counts'[i] = counts[i]
    BY <2>1, <2>2, <1>a
  <2>4. SelectionIsFair' /\ ExitIsUncounted'
    BY <2>1 DEF SelectionIsFair, ExitIsUncounted, Chosen
  <2>5. \A i \in Idx : counts'[i] <= done'[i]
    BY <2>1, <2>2, <2>3, <1>b DEF Fairness, ExitIsUncounted
  <2>6. \A i \in Idx : saved'.counts[i] <= done'[i]
    BY <2>1, <1>a, <1>t
  <2>7. ASSUME cfg.evenBurn, NEW o \in steady, NEW j \in Idx \ Opaque PROVE counts'[j] <= counts'[o] + 1
    <3>1. o \in Idx /\ j \in Idx /\ o # j
      BY <1>0, <2>7
    <3>2. counts[j] \in Nat /\ counts[o] \in Nat /\ counts[sel] \in Nat
      BY <3>1, <2>2, <1>a
    <3>3. counts[j] <= counts[o] + 1
      BY <2>7, <3>1 DEF Fairness, RotationIsFair
    <3>4. sel \notin Opaque => counts[sel] <= counts[o]
      BY <2>1, <2>7 DEF Fairness, SelectionIsFair, Chosen
    <3> QED BY <2>3, <2>7, <3>1, <3>2, <3>3, <3>4
  <2>8. RotationIsFair'
    BY <2>1, <2>5, <2>6, <2>7 DEF RotationIsFair, Opaque
  <2> QED BY <2>4, <2>8 DEF Fairness
<1>13. CASE Commit
  <2>1. /\ pc' \in {"top", "ended"} /\ steady' = steady /\ cfg' = cfg /\ counts' = counts /\ done' = done
        /\ saved'.counts = counts
    BY <1>13 DEF Commit, Exit, StateFile
  <2>2. SelectionIsFair' /\ ExitIsUncounted'
    BY <2>1 DEF SelectionIsFair, ExitIsUncounted, Chosen
  <2>3. RotationIsFair'
    BY <2>1, <1>b DEF Fairness, RotationIsFair, Opaque
  <2> QED BY <2>2, <2>3 DEF Fairness
<1>14. CASE NotLaunched
  <2>1. /\ pc' \in {"top", "ended"} /\ steady' = steady /\ cfg' = cfg /\ counts' = counts /\ done' = done
        /\ saved' = saved
    BY <1>14 DEF NotLaunched, Exit
  <2> QED BY <2>1, FairnessStays DEF Chosen
<1>15. CASE RotateAway
  <2>1. /\ pc' \in {"ended", "blocked", "top"} /\ steady' = steady /\ cfg' = cfg /\ counts' = counts
        /\ done' = done /\ saved' = saved
    BY <1>15 DEF RotateAway, Exit, SuspendUntilAvailable
  <2> QED BY <2>1, FairnessStays DEF Chosen
<1>16. CASE Crash
  <2>1. pc' = "down" /\ steady' = {} /\ done' = done /\ saved' = saved /\ \A i \in Idx : counts'[i] = 0
    BY <1>16 DEF Crash
  <2>2. SelectionIsFair' /\ ExitIsUncounted'
    BY <2>1 DEF SelectionIsFair, ExitIsUncounted, Chosen
  <2>3. \A i \in Idx : counts'[i] <= done'[i]
    BY <2>1, <1>a
  <2> QED BY <2>1, <2>2, <2>3, <1>b DEF Fairness, RotationIsFair
<1>17. CASE BridgeStop
  BY <1>17, FairnessStays DEF BridgeStop, Chosen
<1>18. ASSUME NEW reload \in BOOLEAN, NEW score \in Scores, Select(reload, score) PROVE Fairness'
  <2> DEFINE cur == IF reload THEN 0 ELSE idx
  <2> DEFINE skip == IF reload THEN {} ELSE skipped
  <2> DEFINE n == IF reload THEN [i \in Idx |-> 0] ELSE counts
  <2> DEFINE choice == Selection(skip, n, cur, score)
  <2> DEFINE usable == {i \in Idx \ skip : Decision(i).usable}
  <2>1. /\ counts' = n /\ sel' = choice.index /\ pc' \in {"blocked", "save"} /\ done' = done
        /\ saved' \in {saved, Torn} /\ steady' = (IF reload THEN {} ELSE steady)
        /\ (~reload => cfg' = cfg)
    BY <1>18 DEF Select, ReloadRotation
  <2>2. \A i \in Idx : n[i] <= done[i]
    BY <1>a, <1>b
  <2>3. \A i \in Idx : saved'.counts[i] <= done[i]
    BY <2>1, <1>a, <1>b, <1>t
  <2>4. ExitIsUncounted'
    BY <2>1 DEF ExitIsUncounted
  <2>5. CASE reload
    <3>1. SelectionIsFair'
      BY <2>1, <2>5 DEF SelectionIsFair
    <3> QED BY <2>1, <2>2, <2>3, <2>4, <2>5, <3>1 DEF Fairness, RotationIsFair
  <2>6. CASE ~reload
    <3>1. cur \in Idx /\ skip \subseteq Idx /\ n \in [Idx -> Nat] /\ Timers
          /\ cfg.evenBurn \in BOOLEAN /\ cfg.routes \in BOOLEAN
      BY <1>0, <2>6 DEF TypeOK, Timers
    <3>2. usable # {} /\ cfg.evenBurn /\ choice.index \notin Opaque /\ usable \cap Opaque # {} =>
            \A j \in usable : n[choice.index] <= n[j]
      BY <3>1, SelectionIs
    <3>3. steady \subseteq usable
      BY <1>0, <2>6, SteadyIs
    <3> HIDE DEF choice, usable
    <3>4. cfg.evenBurn /\ sel' \notin Opaque => \A o \in steady : n[sel'] <= n[o]
      BY <1>0, <2>1, <3>2, <3>3
    <3>5. SelectionIsFair'
      BY <2>1, <2>6, <3>4 DEF SelectionIsFair, Opaque
    <3>6. RotationIsFair'
      BY <2>1, <2>2, <2>3, <2>6 DEF Fairness, RotationIsFair, Opaque
    <3> QED BY <2>4, <3>5, <3>6 DEF Fairness
  <2> QED BY <2>5, <2>6
<1>19. CASE WaitInterrupted
  BY <1>19, FairnessStays DEF WaitInterrupted, Resume, Chosen
<1>20. CASE \E d \in 1 .. MaxReset + 1 : Suspend(d)
  BY <1>20, FairnessStays DEF Suspend, Resume, Chosen
<1>21. CASE SleepInterrupted
  BY <1>21, FairnessStays DEF SleepInterrupted, Chosen
<1>22. CASE LaunchRefused
  BY <1>22, FairnessStays DEF LaunchRefused, Chosen
<1>23. CASE RunTick
  BY <1>23, FairnessStays DEF RunTick, Chosen
<1>24. CASE \E i \in Flaky : Flicker(i)
  BY <1>24 DEF Flicker, Fairness, SelectionIsFair, ExitIsUncounted, RotationIsFair, Opaque
<1>25. CASE UNCHANGED vars
  BY <1>25 DEF vars, Fairness, SelectionIsFair, ExitIsUncounted, RotationIsFair, Opaque
<1> HIDE DEF loopVars, runVars, envVars
<1> QED
  BY <1>1, <1>2, <1>4, <1>6, <1>7, <1>8, <1>9, <1>10, <1>11, <1>12, <1>13, <1>14, <1>15,
     <1>16, <1>17, <1>18, <1>19, <1>20, <1>21, <1>22, <1>23, <1>24, <1>25 DEF Next, Step

-----------------------------------------------------------------------------
(* The wait of the whole rotation *)

\* What the entries have to wait, before and after a step.
LEMMA WaitIs == Timers => \A i \in Idx : Decision(i).wait = WaitOf(i)
BY DecisionIs

\* The wait of an entry after a step is computed from the state after it.
LEMMA NextWaitIs == Timers' => \A i \in Idx : Decision(i).wait' = WaitOf(i)'
<1>1. (Timers => \A i \in Idx : Decision(i).wait = WaitOf(i))'
  BY WaitIs, PTL
<1> QED BY <1>1

\* The wait is not longer than that of an entry that has to wait.
Short == \A i \in Idx \ Flaky : WaitOf(i) > 0 => left <= WaitOf(i)
Waiting == pc \in {"blocked", "wait"} \/ (pc = "save" /\ status = 1)

\* The invariant on waits, in terms of the timers.
LEMMA ShortIs == Timers => (WaitIsShort <=> (Waiting => Short))
BY WaitIs DEF WaitIsShort, Waiting, Short

\* Every step keeps the wait in progress short.
LEMMA WaitStep == Typed /\ WaitIsShort /\ [Next]_vars => WaitIsShort'
<1> SUFFICES ASSUME Typed, WaitIsShort, [Next]_vars PROVE WaitIsShort'
  OBVIOUS
<1>0. TypeOK /\ Timers /\ left \in Nat
  BY DEF Typed, TypeOK, Timers
<1>1. Timers'
  <2>1. Typed'
    BY TypedStep
  <2> QED BY <2>1 DEF Typed, TypeOK, Timers
<1>2. Waiting => Short
  BY <1>0, ShortIs
<1>3. WaitIsShort' <=> (Waiting' => Short')
  <2>1. (Timers => (WaitIsShort <=> (Waiting => Short)))'
    BY ShortIs, PTL
  <2> QED BY <1>1, <2>1
<1>4. \A i \in Idx : reset[i] \in Nat /\ block[i] \in Nat
  BY <1>0 DEF Timers
<1>5. \A i \in Idx \ Flaky : i \notin dark
  BY <1>0 DEF TypeOK
<1>6. Short /\ left' = left /\ cfg' = cfg /\ reset' = reset /\ block' = block /\ dark' = dark => Short'
  BY DEF Short, WaitOf
<1> SUFFICES ASSUME Waiting' PROVE Short'
  BY <1>3
<1> USE DEF loopVars, runVars, envVars
<1>7. CASE SaveState
  <2>1. Short
    BY <1>2, <1>7 DEF SaveState, Waiting
  <2> QED BY <1>6, <1>7, <2>1 DEF SaveState
<1>8. CASE \E b \in BOOLEAN : WaitAwake(b)
  <2>1. Short /\ left' = Capped(left) /\ cfg' = cfg /\ reset' = reset /\ block' = block /\ dark' = dark
    BY <1>2, <1>8 DEF WaitAwake, Waiting
  <2>2. left' \in Nat /\ left' <= left
    BY <1>0, <2>1, CappedIs
  <2>3. \A i \in Idx \ Flaky : WaitOf(i)' = WaitOf(i) /\ WaitOf(i) \in Nat
    BY <2>1, <1>4, <1>5 DEF WaitOf
  <2> QED BY <1>0, <2>1, <2>2, <2>3 DEF Short
<1>9. CASE WaitUntilEpoch
  <2>1. Short
    BY <1>2, <1>9 DEF WaitUntilEpoch, Waiting
  <2>2. left > 0 /\ Tick /\ left' = left - 1 /\ cfg' = cfg /\ dark' = dark
    BY <1>9 DEF WaitUntilEpoch, Resume, Waiting
  <2>3. \A i \in Idx : reset'[i] = Less(reset[i], 1) /\ block'[i] = Less(block[i], 1)
    BY <2>2 DEF Tick, Elapse
  <2>4. ASSUME NEW i \in Idx \ Flaky, WaitOf(i)' > 0 PROVE left' <= WaitOf(i)'
    <3>1. WaitOf(i) > 0 => left <= WaitOf(i)
      BY <2>1 DEF Short
    <3>2. i \notin dark /\ i \notin dark'
      BY <1>5, <2>2
    <3>3. reset'[i] = Less(reset[i], 1) /\ block'[i] = Less(block[i], 1) /\ reset[i] \in Nat /\ block[i] \in Nat
      BY <1>4, <2>3
    <3>4. CASE cfg.routes
      BY <1>0, <2>2, <2>4, <3>1, <3>2, <3>3, <3>4 DEF WaitOf, Less
    <3>5. CASE ~cfg.routes
      BY <1>0, <2>2, <2>4, <3>1, <3>2, <3>3, <3>5 DEF WaitOf, Less
    <3> QED BY <3>4, <3>5
  <2> QED BY <2>4 DEF Short
<1>10. CASE RotateAway
  <2>1. left' = SoonestWaitUntil /\ cfg' = cfg /\ reset' = reset /\ block' = block /\ dark' = dark
    BY <1>10 DEF RotateAway, Exit, SuspendUntilAvailable, Waiting
  <2>2. \A i \in Idx : WaitOf(i) > 0 => left' <= WaitOf(i)
    BY <1>0, <2>1, SoonestIs, WaitIs
  <2>3. \A i \in Idx : WaitOf(i)' = WaitOf(i)
    BY <2>1 DEF WaitOf
  <2> QED BY <2>2, <2>3 DEF Short
<1>11. ASSUME NEW reload \in BOOLEAN, NEW score \in Scores, Select(reload, score) PROVE Short'
  <2>1. left' = SoonestWaitUntil /\ reset' = reset /\ block' = block /\ dark' = dark
    BY <1>11 DEF Select
  <2>2. \A i \in Idx : WaitOf(i) > 0 => left' <= WaitOf(i)
    BY <1>0, <2>1, SoonestIs, WaitIs
  <2>3. cfg'.routes = cfg.routes
    <3>1. cfg' \in {cfg, [cfg EXCEPT !.spec = 3 - @]}
      BY <1>11 DEF Select, ReloadRotation
    <3> QED BY <1>0, <3>1 DEF TypeOK
  <2>4. \A i \in Idx : WaitOf(i)' = WaitOf(i)
    BY <2>1, <2>3 DEF WaitOf
  <2> QED BY <2>2, <2>4 DEF Short
<1>12. CASE Restart \/ TimedOut \/ WaitTimedOut \/ Launch \/ WaitUntilUsable
  BY <1>12 DEF Restart, TimedOut, WaitTimedOut, StopTimedOut, Launch, WaitUntilUsable, Waiting
<1>13. CASE SleepInterruptibly
  BY <1>13 DEF SleepInterruptibly, Waiting
<1>14. ASSUME NEW outcome \in Outcomes, NEW spent \in BOOLEAN, SubmitOnce(outcome, spent) PROVE Short'
  <2>1. pc' \in {"retry", "exit"}
    BY <1>14 DEF SubmitOnce
  <2> QED BY <2>1 DEF Waiting
<1>15. CASE Succeeded \/ NotLaunched \/ Crash \/ BridgeStop
  BY <1>15 DEF Succeeded, NotLaunched, Exit, Crash, BridgeStop, Waiting
<1>16. CASE Commit
  <2>1. pc' \in {"top", "ended"}
    BY <1>16 DEF Commit, Exit
  <2> QED BY <2>1 DEF Waiting
<1>17. CASE WaitInterrupted \/ SleepInterrupted \/ LaunchRefused
  BY <1>17 DEF WaitInterrupted, Resume, SleepInterrupted, LaunchRefused, Waiting
<1>18. CASE \E d \in 1 .. MaxReset + 1 : Suspend(d)
  BY <1>18 DEF Suspend, Resume, Waiting
<1>19. CASE RunTick
  BY <1>19 DEF RunTick, Waiting
<1>20. CASE \E i \in Flaky : Flicker(i)
  BY <1>20 DEF Flicker, Waiting
<1>21. CASE UNCHANGED vars
  <2>1. Short
    BY <1>2, <1>21 DEF vars, Waiting
  <2> QED BY <1>6, <1>21, <2>1 DEF vars
<1> HIDE DEF loopVars, runVars, envVars
<1> QED
  BY <1>7, <1>8, <1>9, <1>10, <1>11, <1>12, <1>13, <1>14, <1>15, <1>16, <1>17, <1>18, <1>19, <1>20, <1>21
  DEF Next, Step

-----------------------------------------------------------------------------
(* The theorems *)

\* A run begins with full counts, a rotation whose opaque entries are all
\* usable, and nothing to wait for.
LEMMA RalphBegins == Init => Typed /\ SteadyIsUsable /\ Fairness /\ WaitIsShort
<1> SUFFICES ASSUME Init PROVE Typed /\ SteadyIsUsable /\ Fairness /\ WaitIsShort
  OBVIOUS
<1>1. /\ pc = "top" /\ steady = Opaque /\ skipped = {} /\ dark = {}
      /\ counts = [i \in Idx |-> 0] /\ done = [i \in Idx |-> 0] /\ block = [i \in Idx |-> 0]
      /\ saved = Torn
  BY DEF Init
<1>2. cfg \in [routes : BOOLEAN, evenBurn : BOOLEAN, bridged : BOOLEAN,
               duration : 0 .. MaxDuration, spec : {1}, opaque : SUBSET (Idx \ Flaky)]
  BY RalphAssumption DEF Init
<1>3. reset \in [Idx -> Nat] /\ \A i \in Opaque : reset[i] = 0
  BY Constants DEF Init
<1>4. Opaque \subseteq Idx /\ Opaque \cap Flaky = {}
  BY <1>2 DEF Opaque
<1>5. TypeOK
  <2>1. cfg \in [routes : BOOLEAN, evenBurn : BOOLEAN, bridged : BOOLEAN,
                 duration : 0 .. MaxDuration, spec : {1, 2}, opaque : SUBSET Idx]
    BY <1>2
  <2>2. cfg.duration \in 0 .. MaxDuration
    BY <1>2
  <2> QED BY <1>1, <1>3, <1>4, <2>1, <2>2, Constants
          DEF Init, TypeOK, PCs, NoStreak, NewSuspendState, Torn, Opaque
<1>6. Typed
  BY <1>1, <1>4, <1>5 DEF Typed, Chosen
<1>7. SteadyIsUsable
  BY <1>1, <1>3, <1>4 DEF SteadyIsUsable
<1>8. Fairness
  <2>1. \A i \in Idx : counts[i] = 0 /\ done[i] = 0 /\ saved.counts[i] = 0
    BY <1>1 DEF Torn
  <2> QED BY <1>1, <1>4, <2>1 DEF Fairness, SelectionIsFair, ExitIsUncounted, RotationIsFair, Chosen
<1>9. WaitIsShort
  BY <1>1 DEF WaitIsShort
<1> QED BY <1>6, <1>7, <1>8, <1>9

\* The inductive invariant: the state is well typed, steady entries stay usable,
\* what is selected is fair, and a wait is short.
THEOREM RalphInvHolds == Spec => []RalphInv
<1>1. RalphInv <=> Typed /\ SteadyIsUsable /\ Fairness /\ WaitIsShort
  BY DEF RalphInv, Fairness
<1>2. Typed /\ SteadyIsUsable /\ Fairness /\ WaitIsShort /\ [Next]_vars
        => (Typed /\ SteadyIsUsable /\ Fairness /\ WaitIsShort)'
  BY TypedStep, SteadyStep, FairnessStep, WaitStep
<1> QED BY <1>1, <1>2, RalphBegins, PTL DEF Spec

\* RotationIsFair holds for every rotation, every mix of measurable and opaque
\* entries, every reader that fails, and every bound: an opaque entry that never
\* fails keeps its share, and only runs that succeeded are counted, in memory
\* and in the state file.
THEOREM RotationIsFairHolds == Spec => []RotationIsFair
<1>1. RalphInv => RotationIsFair
  BY DEF RalphInv
<1> QED BY <1>1, RalphInvHolds, PTL

\* WaitsAreNeeded holds for the same: the machine waits only while nothing that
\* is not set aside can run, and never past the first recovery.
THEOREM WaitsAreNeededHolds == Spec => WaitsAreNeeded
<1> DEFINE Needed ==
      /\ pc = "wait" => \A i \in Idx \ Flaky : Decision(i).wait > 0 => left <= Decision(i).wait
      /\ pc = "top" /\ pc' = "save" /\ status' = 1 => \A i \in Idx \ skipped' : ~Decision(i).usable
<1>1. RalphInv /\ [Next]_vars => [Needed]_vars
  <2> SUFFICES ASSUME RalphInv, [Next]_vars PROVE Needed
    OBVIOUS
  <2>0. Typed /\ WaitIsShort /\ TypeOK /\ Timers /\ cfg.evenBurn \in BOOLEAN /\ cfg.routes \in BOOLEAN
    BY DEF RalphInv, Typed, TypeOK, Timers
  <2>1. pc = "wait" => \A i \in Idx \ Flaky : Decision(i).wait > 0 => left <= Decision(i).wait
    BY <2>0 DEF WaitIsShort
  <2>2. ASSUME pc = "top", pc' = "save", status' = 1 PROVE \A i \in Idx \ skipped' : ~Decision(i).usable
    <3>1. PICK reload \in BOOLEAN, score \in Scores : Select(reload, score)
      <4>1. ~(Restart \/ TimedOut \/ SaveState \/ WaitTimedOut \/ Launch \/ WaitUntilUsable \/ Succeeded
              \/ NotLaunched \/ RotateAway \/ Crash \/ BridgeStop \/ WaitInterrupted \/ SleepInterrupted
              \/ LaunchRefused \/ RunTick)
        BY <2>2 DEF Restart, TimedOut, StopTimedOut, SaveState, WaitTimedOut, Launch, WaitUntilUsable, Succeeded,
                    NotLaunched, RotateAway, Crash, BridgeStop, WaitInterrupted, SleepInterrupted,
                    LaunchRefused, RunTick
      <4>2. ~(WaitUntilEpoch \/ SleepInterruptibly \/ Commit \/ UNCHANGED vars)
        BY <2>2 DEF WaitUntilEpoch, SleepInterruptibly, Commit, vars
      <4>3. ~(\E b \in BOOLEAN : WaitAwake(b)) /\ ~(\E d \in 1 .. MaxReset + 1 : Suspend(d))
            /\ ~(\E i \in Flaky : Flicker(i))
        BY <2>2 DEF WaitAwake, Suspend, Flicker
      <4>4. ~\E outcome \in Outcomes, spent \in BOOLEAN : SubmitOnce(outcome, spent)
        BY <2>2 DEF SubmitOnce
      <4> QED BY <4>1, <4>2, <4>3, <4>4 DEF Next, Step
    <3> DEFINE cur == IF reload THEN 0 ELSE idx
    <3> DEFINE skip == IF reload THEN {} ELSE skipped
    <3> DEFINE n == IF reload THEN [i \in Idx |-> 0] ELSE counts
    <3> DEFINE choice == Selection(skip, n, cur, score)
    <3>2. cur \in Idx /\ skip \subseteq Idx /\ n \in [Idx -> Nat]
      BY <2>0, Constants DEF TypeOK
    <3>3. skipped' = skip /\ status' = (IF choice.limited THEN 1 ELSE 0)
      BY <3>1 DEF Select
    <3>4. choice.limited
      BY <2>2, <3>3
    <3>5. choice.limited => {i \in Idx \ skip : Decision(i).usable} = {}
      BY <2>0, <3>2, SelectionIs
    <3> HIDE DEF choice, skip
    <3> QED BY <3>3, <3>4, <3>5
  <2> QED BY <2>1, <2>2
<1>2. Spec => [][Needed]_vars
  BY <1>1, RalphInvHolds, PTL DEF Spec
<1> QED BY <1>2 DEF WaitsAreNeeded
=============================================================================

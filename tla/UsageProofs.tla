----------------------------- MODULE UsageProofs -----------------------------
(* Proofs about what is read and shown of usage, for every instance.           *)
(*  1. UsageReads, for every set of readers and every choice of ages, delays   *)
(*     and budgets: the token survives, the provider is spared, and what a     *)
(*     reader is shown is as young as promised.                                *)
(*  2. UsageTable, for everything the providers' readers may return: the       *)
(*     decision on a launch is sound, the last table is the one of what was    *)
(*     read, and a console does not understate the age of its data.            *)
(*  3. UsageService, for any clients, cases and durations: what a client shows *)
(*     is of its own environment, whole, and no older than an interval.        *)
EXTENDS UsageReads, UsageTable, UsageService, FiniteSetTheorems, WellFoundedInduction, TLAPS

-----------------------------------------------------------------------------
(* 1. UsageReads *)

-----------------------------------------------------------------------------
(* The inductive invariant *)

\* Where a reader is while it has claude-usage-api.lock.
Held == {"fetch", "backoff", "token", "save"}

\* The lock file has one holder, who found no cooldown and no sample it could use.
LockInv ==
  /\ \A r \in Readers : rd[r].pc \in Held <=> flock = r
  /\ \A r \in Readers : rd[r].pc \in Held =>
        /\ provider = "claude" /\ signedIn /\ cooldown = 0
        /\ cache.kind = "sample" => cache.age > MaxAge
  /\ \A r \in Readers : sharedLock = r => rd[r].pc \notin {"idle", "queue"}

\* A new token is issued once, and one that waits to be saved is the current one.
TokenInv ==
  /\ expired => token = 0
  /\ \A r \in Readers : At(r, "save") => rd[r].token = token /\ ~expired

\* A shared sample was no older than RateLimitAge when it was stored.
AgeInv ==
  /\ shared.res.active => shared.res.age <= shared.age + RateLimitAge
  /\ \A r \in Readers : sharedLock = r /\ At(r, "return") /\ rd[r].res.active => rd[r].res.age <= RateLimitAge

\* TokenIsKept by itself is not inductive: it does not say that the token a
\* reader is about to save is the current one.
UsageInv == TypeOK /\ LockInv /\ TokenInv /\ AgeInv /\ TokenIsKept

Moved == Next \/ UNCHANGED vars

LEMMA Limits ==
  /\ MaxAge \in Nat \ {0} /\ RateLimitAge \in Nat \ {0} /\ SharedAge \in Nat \ {0} /\ Cooldown \in Nat \ {0}
  /\ Attempts \in Nat \ {0} /\ MaxDelay \in Nat /\ Recoveries \in Nat /\ LockWait \in Nat
  /\ RetryAfters \subseteq Nat /\ MaxAge <= RateLimitAge /\ AgeCap \in Nat /\ RateLimitAge + 1 <= AgeCap
  /\ None \notin Readers
BY UsageAssumption DEF AgeCap

-----------------------------------------------------------------------------
(* How a read ends *)

States == [pc : {"idle", "queue", "api", "fetch", "backoff", "token", "save", "again", "return"},
           tries : 0 .. Recoveries, net : 0 .. Attempts, honoured : BOOLEAN, wait : Nat, token : {0, 1},
           renewed : BOOLEAN, res : Results]

\* A reader between two parts of its work.
Idler(pc, tries, wait, res) ==
  [pc |-> pc, tries |-> tries, net |-> 0, honoured |-> FALSE, wait |-> wait, token |-> 0, renewed |-> FALSE,
   res |-> res]

LEMMA IdlerIs ==
  ASSUME NEW pc \in {"idle", "queue", "api", "again", "return"}, NEW tries \in 0 .. Recoveries, NEW wait \in Nat,
         NEW res \in Results
  PROVE  /\ Idler(pc, tries, wait, res) \in States /\ Idler(pc, tries, wait, res).pc = pc
         /\ Idler(pc, tries, wait, res).res = res
<1>1. 0 \in 0 .. Attempts
  BY Limits
<1> QED BY <1>1 DEF Idler, States

\* What a reader may be given at this moment.
Limit == IF cooldown > 0 THEN RateLimitAge ELSE MaxAge
Young(s) == s \in Results /\ (s.active => s.age <= Limit')

\* The reader goes on from outside the lock.
Leaves(r) ==
  \E new \in States :
    /\ rd' = [rd EXCEPT ![r] = new] /\ new.pc \in {"again", "return"} /\ Young(new.res)
    /\ flock' = Release(flock, r) /\ sharedLock' = sharedLock

\* What the disk offers is young, and every early return hands that on.
LEMMA ReturnLeaves ==
  ASSUME TypeOK, cooldown' \in Nat, NEW r \in Readers, NEW s, Young(s), ApiReturns(r, s)
  PROVE  Leaves(r)
<1>1. ASSUME NEW t, Young(t), Finish(r, t) PROVE
        \E new \in States : rd' = [rd EXCEPT ![r] = new] /\ new.pc \in {"again", "return"} /\ Young(new.res)
  <2>1. Young(Freshen(t)) /\ Young(Absent)
    BY <1>1, Limits DEF Young, Freshen, Results, Samples, Sample, Absent, Marker, Limit
  <2>2. rd[r].tries \in 0 .. Recoveries
    BY DEF TypeOK
  <2>3. CASE IsStale(t) /\ signedIn /\ rd[r].tries > 0
    <3> DEFINE next == [IdleReader EXCEPT !.pc = "again", !.tries = rd[r].tries - 1, !.wait = 1]
    <3>4. Set(r, next)
      BY <1>1, <2>3 DEF Finish
    <3> HIDE DEF next
    <3> PICK new : new = next
      OBVIOUS
    <3>0. new = Idler("again", rd[r].tries - 1, 1, Absent)
      BY DEF IdleReader, Idler, next
    <3>3. rd[r].tries - 1 \in 0 .. Recoveries
      BY <2>2, <2>3, Limits
    <3>1. new \in States /\ new.pc = "again" /\ new.res = Absent
      BY <2>1, <3>0, <3>3, IdlerIs DEF Young
    <3>2. Set(r, new)
      BY <3>4
    <3> QED BY <2>1, <3>1, <3>2 DEF Set
  <2>4. CASE ~(IsStale(t) /\ signedIn /\ rd[r].tries > 0)
    <3> PICK new : new = [IdleReader EXCEPT !.pc = "return", !.res = Freshen(t)]
      OBVIOUS
    <3>0. new = Idler("return", 0, 0, Freshen(t))
      BY DEF IdleReader, Idler
    <3>1. new \in States /\ new.pc = "return" /\ new.res = Freshen(t)
      BY <2>1, <3>0, IdlerIs, Limits DEF Young
    <3>2. Set(r, new)
      BY <1>1, <2>4 DEF Finish
    <3> QED BY <2>1, <3>1, <3>2 DEF Set
  <2> QED BY <2>3, <2>4
<1>2. ASSUME NEW record \in LocalRecords PROVE Young(StaleIfLocalSnapshot(record))
  <2>1. Young(Absent) /\ Young(Marker("stale-usage"))
    BY DEF Young, Results, Absent, Marker
  <2>5. \A a \in {0, MaxAge + 1}, b \in BOOLEAN : Sample(a, b) \in Samples
    BY Limits DEF Sample, Samples
  <2>6. Young(Sample(0, TRUE)) /\ Young(Sample(0, FALSE)) /\ Young(Sample(MaxAge + 1, FALSE))
    <3>1. Limit' \in Nat
      BY Limits DEF Limit
    <3>2. Sample(0, TRUE).age <= Limit' /\ Sample(0, FALSE).age <= Limit' /\ ~Sample(MaxAge + 1, FALSE).active
      BY <3>1 DEF Sample
    <3>3. Sample(0, TRUE) \in Samples /\ Sample(0, FALSE) \in Samples /\ Sample(MaxAge + 1, FALSE) \in Samples
      BY <2>5
    <3> QED BY <3>2, <3>3 DEF Young, Results
  <2>7. MaxAge + 1 > MaxAge
    BY Limits
  <2>2. record = Absent \/ \E a \in {0, MaxAge + 1}, b \in BOOLEAN : record = Sample(a, b) /\ ((b /\ a > MaxAge) \/ Young(record))
    BY <2>6, <2>7 DEF LocalRecords
  <2>3. CASE record = Absent
    BY <2>1, <2>3 DEF StaleIfLocalSnapshot, Absent
  <2>4. CASE \E a \in {0, MaxAge + 1}, b \in BOOLEAN : record = Sample(a, b) /\ ((b /\ a > MaxAge) \/ Young(record))
    BY <2>1, <2>4 DEF StaleIfLocalSnapshot, RequiresFreshSource, Sample
  <2> QED BY <2>2, <2>3, <2>4
<1>3. PICK t : Young(t) /\ Finish(r, t)
  BY <1>2 DEF ApiReturns
<1>4. PICK new \in States : rd' = [rd EXCEPT ![r] = new] /\ new.pc \in {"again", "return"} /\ Young(new.res)
  BY <1>1, <1>3
<1>5. flock' = Release(flock, r) /\ sharedLock' = sharedLock
  BY DEF ApiReturns
<1> QED BY <1>4, <1>5 DEF Leaves

LEMMA CacheIsYoung ==
  ASSUME TypeOK, cooldown' \in Nat
  PROVE  /\ Young(ReadUsageCache(MaxAge, FALSE)) /\ Young(ReadUsageCache(MaxAge, TRUE))
         /\ Young(Sample(0, TRUE)) /\ Young(Sample(0, FALSE)) /\ Young(Marker("rate-limited"))
         /\ Young(Marker("unavailable")) /\ Young(Absent)
         /\ cooldown' > 0 => Young(ReadUsageCache(RateLimitAge, TRUE))
         /\ ~IsStale(StaleIfLocalSnapshot(cache)) => Young(cache)
<1>1. cache \in {Absent} \cup Samples
  BY DEF TypeOK
<1> QED BY <1>1, Limits DEF ReadUsageCache, RequiresFreshSource, Young, Results, Samples, Sample, Absent, Marker,
           Limit, IsStale, StaleIfLocalSnapshot

\* The last resorts.
LEMMA FallbackLeaves ==
  ASSUME TypeOK, cooldown' \in Nat, NEW r \in Readers
  PROVE  /\ CacheOrNothing(r) => Leaves(r)
         /\ RateLimitFallback(r) /\ cooldown' > 0 => Leaves(r)
BY ReturnLeaves, CacheIsYoung DEF CacheOrNothing, RateLimitFallback

-----------------------------------------------------------------------------
(* The kinds of steps *)

Becomes(r, new) == new \in States /\ rd' = [rd EXCEPT ![r] = new]
quiet == <<provider, signedIn, lost>>

\* A read ends, with or without an answer of the provider.
LeaveStep(r) ==
  /\ Leaves(r) /\ UNCHANGED <<quiet, stored, shared, service>>
  /\ rd[r].pc \in {"api", "fetch", "token"} /\ cooldown' \in Nat
  /\ cache' \in {cache, Sample(0, TRUE), Sample(0, FALSE)}
  /\ UNCHANGED <<cache, cooldown>> \/ At(r, "fetch") \/ provider = "codex"

\* The holder of the lock file goes on; twice it moves a token.
HeldStep(r) ==
  /\ rd[r].pc \in Held /\ UNCHANGED <<quiet, cache, cooldown, shared, locks>>
  /\ \E new : /\ Becomes(r, new) /\ new.pc \in Held
              /\ \/ rd[r].pc # "save" /\ new.pc # "save" /\ UNCHANGED <<stored, service>>
                 \/ /\ rd[r].pc # "save" /\ rd[r].token = token /\ expired /\ new.pc = "save" /\ new.token = token'
                    /\ token' = token + 1 /\ expired' = FALSE /\ UNCHANGED stored
                 \/ rd[r].pc = "save" /\ new.pc # "save" /\ stored' = rd[r].token /\ UNCHANGED service

\* A reader takes the lock file.
TakeStep(r) ==
  /\ At(r, "api") /\ provider = "claude" /\ signedIn /\ flock = None /\ cooldown = 0
  /\ cache.kind = "sample" => cache.age > MaxAge
  /\ \E new : Becomes(r, new) /\ new.pc = "fetch"
  /\ flock' = r /\ UNCHANGED <<quiet, files, service, sharedLock>>

\* Outside the lock file: the shared snapshot is read, locked or stored.
OpenStep(r) ==
  /\ rd[r].pc \notin Held /\ UNCHANGED <<quiet, cache, cooldown, stored, service, flock>>
  /\ \E new :
        /\ Becomes(r, new) /\ new.pc \notin Held
        /\ \/ /\ rd[r].pc \in {"idle", "queue", "again"} /\ UNCHANGED <<sharedLock, shared>>
              /\ new.pc \in {"idle", "queue"} => rd[r].pc \in {"idle", "queue"}
              /\ new.pc = "return" => rd[r].pc \in {"idle", "queue"} /\ SharedFresh /\ new.res = shared.res
           \/ sharedLock = None /\ sharedLock' = r /\ new.pc = "api" /\ UNCHANGED shared
           \/ /\ At(r, "return") /\ new.pc = "idle" /\ sharedLock' = Release(sharedLock, r)
              /\ shared' = IF sharedLock = r THEN [age |-> 0, res |-> rd[r].res] ELSE shared

LEMMA States1 == ASSUME TypeOK, NEW r \in Readers PROVE rd[r] \in States
BY DEF TypeOK, States

LEMMA Tries1 == (Attempts <= 1) \in BOOLEAN
BY Limits

\* What the updates of a reader leave.
LEMMA StartsFetch ==
  ASSUME NEW s \in States, NEW h \in BOOLEAN, NEW k \in {0, 1}, NEW v,
         v = [s EXCEPT !.pc = "fetch", !.net = Attempts, !.wait = 0, !.honoured = h, !.token = k]
  PROVE  v \in States /\ v.pc = "fetch"
<1>1. v = [pc |-> "fetch", tries |-> s.tries, net |-> Attempts, honoured |-> h, wait |-> 0, token |-> k,
           renewed |-> s.renewed, res |-> s.res]
  BY DEF States
<1> QED BY <1>1, Limits DEF States

LEMMA FetchesAgain ==
  ASSUME NEW s \in States, NEW h \in BOOLEAN, NEW v,
         v = [s EXCEPT !.pc = "fetch", !.renewed = TRUE, !.net = Attempts, !.honoured = h]
  PROVE  v \in States /\ v.pc = "fetch"
<1>1. v = [pc |-> "fetch", tries |-> s.tries, net |-> Attempts, honoured |-> h, wait |-> s.wait, token |-> s.token,
           renewed |-> TRUE, res |-> s.res]
  BY DEF States
<1>2. Attempts \in 0 .. Attempts /\ s.wait \in Nat /\ s.token \in {0, 1} /\ s.tries \in 0 .. Recoveries /\ s.res \in Results
  BY Limits DEF States
<1> QED BY <1>1, <1>2 DEF States

LEMMA BacksOff ==
  ASSUME NEW s \in States, NEW w \in Nat, NEW v, v = [s EXCEPT !.pc = "backoff", !.honoured = TRUE, !.wait = w]
  PROVE  v \in States /\ v.pc = "backoff"
<1>1. v = [pc |-> "backoff", tries |-> s.tries, net |-> s.net, honoured |-> TRUE, wait |-> w, token |-> s.token,
           renewed |-> s.renewed, res |-> s.res]
  BY DEF States
<1> QED BY <1>1 DEF States

LEMMA TriesNet ==
  ASSUME NEW s \in States, s.net > 1, NEW v, v = [s EXCEPT !.net = @ - 1]
  PROVE  v \in States /\ v.pc = s.pc
<1>1. v = [pc |-> s.pc, tries |-> s.tries, net |-> s.net - 1, honoured |-> s.honoured, wait |-> s.wait,
           token |-> s.token, renewed |-> s.renewed, res |-> s.res]
  BY DEF States
<1>2. s.net - 1 \in 0 .. Attempts
  BY Limits DEF States
<1> QED BY <1>1, <1>2 DEF States

LEMMA GetsToken ==
  ASSUME NEW s \in States, NEW k \in {0, 1}, NEW v, v = [s EXCEPT !.pc = "save", !.token = k]
  PROVE  v \in States /\ v.pc = "save" /\ v.token = k
<1>1. v = [pc |-> "save", tries |-> s.tries, net |-> s.net, honoured |-> s.honoured, wait |-> s.wait,
           token |-> k, renewed |-> s.renewed, res |-> s.res]
  BY DEF States
<1> QED BY <1>1 DEF States

LEMMA Waits ==
  ASSUME NEW s \in States, NEW pc \in {"api", "fetch", "token"}, NEW v, v = [s EXCEPT !.pc = pc]
  PROVE  v \in States /\ v.pc = pc
<1>1. v = [pc |-> pc, tries |-> s.tries, net |-> s.net, honoured |-> s.honoured, wait |-> s.wait,
           token |-> s.token, renewed |-> s.renewed, res |-> s.res]
  BY DEF States
<1> QED BY <1>1 DEF States

LEMMA TakesTurn ==
  ASSUME NEW s \in States, NEW v, v = [s EXCEPT !.pc = "api", !.wait = 0]
  PROVE  v \in States /\ v.pc = "api"
<1>1. v = [pc |-> "api", tries |-> s.tries, net |-> s.net, honoured |-> s.honoured, wait |-> 0,
           token |-> s.token, renewed |-> s.renewed, res |-> s.res]
  BY DEF States
<1> QED BY <1>1 DEF States

LEMMA ReadLeaves ==
  ASSUME TypeOK, NEW r \in Readers
  PROVE  /\ ReadClaudeApi(r) => LeaveStep(r) \/ TakeStep(r)
         /\ \A active \in BOOLEAN : /\ FetchAnswered(r, active) => LeaveStep(r)
                                    /\ ReadCodexApi(r, active) => LeaveStep(r)
         /\ FetchRefused(r) => LeaveStep(r)
         /\ TokenRefused(r) => LeaveStep(r)
<1>1. cooldown \in Nat
  BY DEF TypeOK
<1> USE DEF files, service, quiet, At
<1>2. ASSUME ReadClaudeApi(r) PROVE LeaveStep(r) \/ TakeStep(r)
  <2>1. cooldown' = cooldown /\ UNCHANGED <<quiet, stored, shared, service, cache>>
    BY <1>2 DEF ReadClaudeApi
  <2> DEFINE fresh == ReadUsageCache(MaxAge, TRUE)
  <2>2. CASE CacheOrNothing(r) \/ ApiReturns(r, fresh) \/ (cooldown > 0 /\ RateLimitFallback(r))
    <3>1. cooldown' \in Nat /\ (cooldown > 0 => cooldown' > 0)
      BY <1>1, <2>1
    <3>2. Young(fresh)
      BY <3>1, CacheIsYoung
    <3> HIDE DEF fresh
    <3>3. Leaves(r)
      <4>1. CASE CacheOrNothing(r)
        BY <3>1, <4>1, FallbackLeaves
      <4>2. CASE ApiReturns(r, fresh)
        BY <3>1, <3>2, <4>2, ReturnLeaves
      <4>3. CASE cooldown > 0 /\ RateLimitFallback(r)
        BY <3>1, <4>3, FallbackLeaves
      <4> QED BY <2>2, <4>1, <4>2, <4>3
    <3>4. rd[r].pc = "api"
      BY <1>2 DEF ReadClaudeApi
    <3> QED BY <2>1, <3>1, <3>3, <3>4 DEF LeaveStep
  <2>3. CASE /\ signedIn /\ fresh.kind = "none" /\ cooldown = 0 /\ flock' = r /\ UNCHANGED sharedLock
             /\ Set(r, [rd[r] EXCEPT !.pc = "fetch", !.net = Attempts, !.wait = 0,
                                     !.honoured = (Attempts <= 1), !.token = stored])
    <3> DEFINE new == [rd[r] EXCEPT !.pc = "fetch", !.net = Attempts, !.wait = 0,
                                    !.honoured = (Attempts <= 1), !.token = stored]
    <3>4. stored \in {0, 1}
      BY DEF TypeOK
    <3>6. rd[r] \in States
      BY States1
    <3>1. new \in States /\ new.pc = "fetch"
      <4>1. \A h \in BOOLEAN : \A v : v = [rd[r] EXCEPT !.pc = "fetch", !.net = Attempts, !.wait = 0, !.honoured = h,
                                                  !.token = stored] => v \in States /\ v.pc = "fetch"
        BY <3>4, <3>6, StartsFetch
      <4> QED BY <4>1, Tries1, Zenon
    <3>2. cache.kind = "sample" => cache.age > MaxAge
      BY <2>3 DEF ReadUsageCache, TypeOK, Samples, Absent
    <3>5. Set(r, new)
      BY <2>3, Zenon
    <3> HIDE DEF new
    <3>3. Becomes(r, new)
      BY <3>1, <3>5 DEF Becomes, Set
    <3> QED BY <1>2, <2>1, <2>3, <3>1, <3>2, <3>3 DEF TakeStep, ReadClaudeApi
  <2> QED BY <1>2, <2>2, <2>3 DEF ReadClaudeApi
<1>3. ASSUME NEW active \in BOOLEAN, FetchAnswered(r, active) PROVE LeaveStep(r)
  BY <1>3, ReturnLeaves, CacheIsYoung DEF FetchAnswered, LeaveStep
<1>4. ASSUME NEW active \in BOOLEAN, ReadCodexApi(r, active) PROVE LeaveStep(r)
  <2>1. (Young(Marker("unavailable")) /\ Young(cache')) \/ UNCHANGED cache
    BY <1>1, <1>4, CacheIsYoung DEF ReadCodexApi
  <2> QED BY <1>1, <1>4, ReturnLeaves, CacheIsYoung DEF ReadCodexApi, LeaveStep
<1>5. ASSUME FetchRefused(r) \/ TokenRefused(r) PROVE LeaveStep(r)
  BY <1>1, <1>5, FallbackLeaves DEF FetchRefused, TokenRefused, LeaveStep
<1> QED BY <1>2, <1>3, <1>4, <1>5

LEMMA FetchMoves ==
  ASSUME TypeOK, TokenInv, NEW r \in Readers
  PROVE  /\ \A w \in RetryAfters : FetchRateLimited(r, w) => LeaveStep(r) \/ HeldStep(r)
         /\ FetchUnauthorized(r) => LeaveStep(r) \/ HeldStep(r)
         /\ FetchFailed(r) => LeaveStep(r) \/ HeldStep(r)
         /\ BackoffOver(r) => HeldStep(r)
         /\ TokenIssued(r) => HeldStep(r)
         /\ SaveToken(r) => HeldStep(r)
<1> USE DEF files, service, locks, quiet, At
<1>1. cooldown \in Nat /\ rd[r] \in States
  BY States1 DEF TypeOK
<1>2. ASSUME NEW w \in RetryAfters, FetchRateLimited(r, w) PROVE LeaveStep(r) \/ HeldStep(r)
  <2> DEFINE wait == IF w <= 0 THEN Cooldown ELSE w
  <2>1. wait \in Nat
    BY Limits
  <2>2. CASE rd[r].honoured \/ wait > MaxDelay
    <3>1. /\ cooldown' = IF wait > Cooldown THEN wait ELSE Cooldown
          /\ RateLimitFallback(r) /\ UNCHANGED <<quiet, cache, stored, shared, service>> /\ rd[r].pc = "fetch"
      BY <1>2, <2>2 DEF FetchRateLimited
    <3>2. cooldown' \in Nat /\ cooldown' > 0
      BY <2>1, <3>1, Limits
    <3> QED BY <3>1, <3>2, FallbackLeaves DEF LeaveStep
  <2>3. CASE ~(rd[r].honoured \/ wait > MaxDelay)
    <3> PICK new : new = [rd[r] EXCEPT !.pc = "backoff", !.honoured = TRUE, !.wait = wait]
      OBVIOUS
    <3>1. new \in States /\ new.pc = "backoff"
      BY <1>1, <2>1, BacksOff
    <3>2. Set(r, new) /\ UNCHANGED <<quiet, files, service, locks>> /\ rd[r].pc = "fetch"
      BY <1>2, <2>3 DEF FetchRateLimited
    <3> QED BY <3>1, <3>2 DEF HeldStep, Becomes, Set, Held
  <2> QED BY <2>2, <2>3
<1>3. ASSUME FetchUnauthorized(r) PROVE LeaveStep(r) \/ HeldStep(r)
  <2>1. CASE rd[r].renewed
    BY <1>1, <1>3, <2>1, FallbackLeaves DEF FetchUnauthorized, LeaveStep
  <2>2. CASE ~rd[r].renewed
    <3> PICK new : new = [rd[r] EXCEPT !.pc = "token"]
      OBVIOUS
    <3>1. new \in States /\ new.pc = "token"
      BY <1>1, Waits
    <3>2. Set(r, new) /\ UNCHANGED <<quiet, files, service, locks>> /\ rd[r].pc = "fetch"
      BY <1>3, <2>2 DEF FetchUnauthorized, Goto
    <3> QED BY <3>1, <3>2 DEF HeldStep, Becomes, Set, Held
  <2> QED BY <2>1, <2>2
<1>4. ASSUME FetchFailed(r) PROVE LeaveStep(r) \/ HeldStep(r)
  <2>1. CASE ~(rd[r].net > 1)
    BY <1>1, <1>4, <2>1, FallbackLeaves DEF FetchFailed, LeaveStep
  <2>2. CASE rd[r].net > 1
    <3> PICK new : new = [rd[r] EXCEPT !.net = @ - 1]
      OBVIOUS
    <3>1. new \in States /\ new.pc = rd[r].pc
      BY <1>1, <2>2, TriesNet
    <3>2. Set(r, new) /\ UNCHANGED <<quiet, files, service, locks>> /\ rd[r].pc = "fetch"
      BY <1>4, <2>2 DEF FetchFailed
    <3> QED BY <3>1, <3>2 DEF HeldStep, Becomes, Set, Held
  <2> QED BY <2>1, <2>2
<1>5. ASSUME BackoffOver(r) PROVE HeldStep(r)
  <2> PICK new : new = [rd[r] EXCEPT !.pc = "fetch"]
    OBVIOUS
  <2>1. new \in States /\ new.pc = "fetch"
    BY <1>1, Waits
  <2>2. Set(r, new) /\ UNCHANGED <<quiet, files, service, locks>> /\ rd[r].pc = "backoff"
    BY <1>5 DEF BackoffOver, Goto
  <2> QED BY <2>1, <2>2 DEF HeldStep, Becomes, Set, Held
<1>6. ASSUME TokenIssued(r) PROVE HeldStep(r)
  <2> PICK new : new = [rd[r] EXCEPT !.pc = "save", !.token = token + 1]
    OBVIOUS
  <2>1. token + 1 \in {0, 1}
    BY <1>6 DEF TokenIssued, TokenInv
  <2>2. new \in States /\ new.pc = "save" /\ new.token = token + 1
    BY <1>1, <2>1, GetsToken
  <2>3. /\ Set(r, new) /\ UNCHANGED <<quiet, files, locks>> /\ rd[r].pc = "token" /\ rd[r].token = token /\ expired
        /\ token' = token + 1 /\ expired' = FALSE
    BY <1>6 DEF TokenIssued
  <2> QED BY <2>2, <2>3 DEF HeldStep, Becomes, Set, Held
<1>7. ASSUME SaveToken(r) PROVE HeldStep(r)
  <2> DEFINE new == [rd[r] EXCEPT !.pc = "fetch", !.renewed = TRUE, !.net = Attempts, !.honoured = (Attempts <= 1)]
  <2>1. new \in States /\ new.pc = "fetch"
    <3>1. \A h \in BOOLEAN : \A v : v = [rd[r] EXCEPT !.pc = "fetch", !.renewed = TRUE, !.net = Attempts, !.honoured = h]
                               => v \in States /\ v.pc = "fetch"
      BY <1>1, FetchesAgain
    <3> QED BY <3>1, Tries1, Zenon
  <2>2. Set(r, new)
    BY <1>7 DEF SaveToken
  <2>3. /\ UNCHANGED <<quiet, cache, cooldown, shared, locks, service>> /\ rd[r].pc = "save" /\ stored' = rd[r].token
    BY <1>7 DEF SaveToken
  <2> HIDE DEF new
  <2> QED BY <2>1, <2>2, <2>3 DEF HeldStep, Becomes, Set, Held
<1> QED BY <1>2, <1>3, <1>4, <1>5, <1>6, <1>7

LEMMA OpenMoves ==
  ASSUME TypeOK, NEW r \in Readers
  PROVE  StartLive(r) \/ StartShared(r) \/ LockSharedSnapshot(r) \/ ReadWithoutLock(r) \/ Return(r) \/ ReadAgain(r)
           => OpenStep(r)
<1> USE DEF files, service, locks, quiet, At
<1>1. rd[r] \in States /\ shared.res \in Results /\ Absent \in Results
  BY States1 DEF TypeOK, Results
<1>2. ASSUME StartLive(r) PROVE OpenStep(r)
  <2> PICK new : new = [IdleReader EXCEPT !.pc = "api", !.tries = Recoveries]
    OBVIOUS
  <2>1. new = Idler("api", Recoveries, 0, Absent)
    BY DEF IdleReader, Idler
  <2>2. new \in States /\ new.pc = "api"
    BY <1>1, <2>1, IdlerIs, Limits
  <2>3. Set(r, new) /\ rd[r].pc = "idle" /\ UNCHANGED <<quiet, files, service, locks>>
    BY <1>2 DEF StartLive
  <2> QED BY <2>2, <2>3 DEF OpenStep, Becomes, Set, Held
<1>3. ASSUME NEW new, new = [IdleReader EXCEPT !.pc = "return", !.res = shared.res], Set(r, new), SharedFresh,
             rd[r].pc \in {"idle", "queue"}, UNCHANGED <<quiet, files, service, locks>>
      PROVE  OpenStep(r)
  <2>0. new = Idler("return", 0, 0, shared.res)
    BY <1>3 DEF IdleReader, Idler
  <2>1. new \in States /\ new.pc = "return" /\ new.res = shared.res
    BY <1>1, <2>0, IdlerIs, Limits
  <2>2. Becomes(r, new)
    BY <1>3, <2>1 DEF Becomes, Set
  <2> QED BY <1>3, <2>1, <2>2 DEF OpenStep, Held
<1>4. ASSUME StartShared(r) PROVE OpenStep(r)
  <2>1. CASE SharedFresh /\ Serve(r)
    BY <1>3, <1>4, <2>1 DEF StartShared, Serve
  <2>2. CASE ~SharedFresh
    <3> PICK new : new = [IdleReader EXCEPT !.pc = "queue", !.tries = Recoveries, !.wait = LockWait]
      OBVIOUS
    <3>1. new = Idler("queue", Recoveries, LockWait, Absent)
      BY DEF IdleReader, Idler
    <3>2. new \in States /\ new.pc = "queue"
      BY <1>1, <3>1, IdlerIs, Limits
    <3>3. Set(r, new) /\ rd[r].pc = "idle" /\ UNCHANGED <<quiet, files, service, locks>>
      BY <1>4, <2>2 DEF StartShared
    <3> QED BY <3>2, <3>3 DEF OpenStep, Becomes, Set, Held
  <2> QED BY <1>4, <2>1, <2>2 DEF StartShared
<1>5. ASSUME LockSharedSnapshot(r) PROVE OpenStep(r)
  <2>1. CASE SharedFresh /\ Serve(r) /\ UNCHANGED sharedLock
    BY <1>3, <1>5, <2>1 DEF LockSharedSnapshot, Serve
  <2>2. CASE ~SharedFresh
    <3> PICK new : new = [rd[r] EXCEPT !.pc = "api", !.wait = 0]
      OBVIOUS
    <3>1. new \in States /\ new.pc = "api"
      BY <1>1, TakesTurn
    <3>2. /\ Set(r, new) /\ rd[r].pc = "queue" /\ sharedLock = None /\ sharedLock' = r
          /\ UNCHANGED <<quiet, files, service, flock>>
      BY <1>5, <2>2 DEF LockSharedSnapshot
    <3> QED BY <3>1, <3>2 DEF OpenStep, Becomes, Set, Held
  <2> QED BY <1>5, <2>1, <2>2 DEF LockSharedSnapshot
<1>6. ASSUME ReadWithoutLock(r) \/ ReadAgain(r) PROVE OpenStep(r)
  <2> PICK new : new = [rd[r] EXCEPT !.pc = "api"]
    OBVIOUS
  <2>1. new \in States /\ new.pc = "api"
    BY <1>1, Waits
  <2>2. Set(r, new) /\ rd[r].pc \in {"queue", "again"} /\ UNCHANGED <<quiet, files, service, locks>>
    BY <1>6 DEF ReadWithoutLock, ReadAgain, Goto
  <2> QED BY <2>1, <2>2 DEF OpenStep, Becomes, Set, Held
<1>7. ASSUME Return(r) PROVE OpenStep(r)
  <2>1. IdleReader \in States /\ IdleReader.pc = "idle"
    BY Limits DEF IdleReader, States, Results
  <2>2. Set(r, IdleReader)
    BY <1>7 DEF Return
  <2> QED BY <1>7, <2>1, <2>2 DEF Return, OpenStep, Becomes, Set, Held
<1> QED BY <1>2, <1>4, <1>5, <1>6, <1>7

LEMMA Steps ==
  ASSUME TypeOK, TokenInv, Moved
  PROVE  \/ \E r \in Readers : LeaveStep(r) \/ HeldStep(r) \/ TakeStep(r) \/ OpenStep(r) \/ Crash(r)
         \/ CliRenews \/ (\E renewed \in BOOLEAN : Tick(renewed)) \/ UNCHANGED vars
BY ReadLeaves, FetchMoves, OpenMoves DEF Moved, Next, Step

-----------------------------------------------------------------------------
(* Type correctness *)

\* The types hold at the start.
LEMMA InitInv == Init => UsageInv
<1> SUFFICES ASSUME Init PROVE UsageInv
  OBVIOUS
<1>1. IdleReader \in States /\ IdleReader.pc = "idle"
  BY Limits DEF IdleReader, States, Results
<1>2. TypeOK
  <2>1. rd \in [Readers -> States]
    BY <1>1 DEF Init
  <2>2. SharedAge \in 0 .. SharedAge /\ Absent \in Results
    BY Limits DEF Results
  <2>3. shared \in [age : 0 .. SharedAge, res : Results]
    BY <2>2 DEF Init, NothingShared
  <2> HIDE DEF Absent
  <2> QED BY <2>1, <2>3 DEF Init, TypeOK, States
<1>3. \A r \in Readers : rd[r] = IdleReader
  BY DEF Init
<1> QED BY <1>1, <1>2, <1>3, Limits DEF Init, UsageInv, LockInv, TokenInv, AgeInv, TokenIsKept, Held, At, NothingShared, Absent

LEMMA AgedIs ==
  ASSUME NEW s \in Results, NEW cap \in 0 .. AgeCap, NEW renewed \in BOOLEAN
  PROVE  /\ Aged(s, cap, renewed) \in Results /\ (s \in {Absent} \cup Samples => Aged(s, cap, renewed) \in {Absent} \cup Samples)
         /\ Aged(s, cap, renewed).kind = s.kind
         /\ Aged(s, cap, renewed).active => s.active
         /\ Aged(s, cap, renewed).active => Aged(s, cap, renewed).age <= s.age + 1
         /\ s.kind = "sample" /\ s.age < cap => Aged(s, cap, renewed).age = s.age + 1
         /\ s.kind = "sample" /\ s.age >= cap => Aged(s, cap, renewed).age = cap
<1>0. cap \in Nat /\ cap <= AgeCap /\ AgeCap \in Nat
  BY Limits
<1>1. CASE s.kind # "sample"
  BY <1>1, Limits DEF Aged, Results, Samples, Marker, Absent
<1>2. CASE s.kind = "sample"
  <2>1. s \in Samples
    BY <1>2 DEF Results, Marker, Absent
  <2> PICK n : n = Aged(s, cap, renewed)
    OBVIOUS
  <2>2. n = [kind |-> "sample", age |-> IF s.age < cap THEN s.age + 1 ELSE cap, active |-> s.active /\ ~renewed]
    BY <1>2, <2>1 DEF Aged, Samples
  <2>3. s.age \in 0 .. AgeCap /\ s.active \in BOOLEAN
    BY <2>1 DEF Samples
  <2> QED BY <1>0, <2>1, <2>2, <2>3 DEF Results, Samples
<1> QED BY <1>1, <1>2

LEMMA TypeStep ==
  ASSUME UsageInv, Moved
  PROVE  TypeOK'
<1> USE DEF UsageInv, files, service, locks, quiet
<1>1. ASSUME NEW r \in Readers, LeaveStep(r) PROVE TypeOK'
  <2>1. cache' \in {Absent} \cup Samples
    <3>1. Sample(0, TRUE) \in Samples /\ Sample(0, FALSE) \in Samples
      BY Limits DEF Samples, Sample
    <3> QED BY <1>1, <3>1 DEF LeaveStep, TypeOK
  <2>2. PICK new \in States : rd' = [rd EXCEPT ![r] = new]
    BY <1>1 DEF LeaveStep, Leaves
  <2> QED BY <1>1, <2>1, <2>2 DEF LeaveStep, Leaves, Release, TypeOK, States
<1>2. ASSUME NEW r \in Readers, HeldStep(r) PROVE TypeOK'
  <2>1. PICK new \in States : rd' = [rd EXCEPT ![r] = new]
    BY <1>2 DEF HeldStep, Becomes
  <2>2. {stored', token'} \subseteq {0, 1} /\ expired' \in BOOLEAN
    <3>1. stored \in {0, 1} /\ token \in {0, 1} /\ expired \in BOOLEAN /\ rd[r].token \in {0, 1}
      BY DEF TypeOK
    <3>2. stored' \in {0, 1} /\ token' \in {0, 1} /\ expired' \in BOOLEAN
      <4>1. stored' = stored \/ stored' = rd[r].token
        BY <1>2 DEF HeldStep
      <4>2. (token' = token /\ expired' = expired) \/ (expired /\ token' = token + 1 /\ expired' = FALSE)
        BY <1>2 DEF HeldStep
      <4>3. token' \in {0, 1} /\ expired' \in BOOLEAN
        <5>1. token' = token \/ (token = 0 /\ token' = token + 1)
          BY <4>2 DEF TokenInv
        <5>2. token' \in {0, 1}
          BY <3>1, <5>1
        <5>3. expired' \in BOOLEAN
          BY <3>1, <4>2, Zenon
        <5> QED BY <5>2, <5>3
      <4> QED BY <3>1, <4>1, <4>3
    <3> QED BY <3>2
  <2> QED BY <1>2, <2>1, <2>2 DEF HeldStep, TypeOK, States
<1>3. ASSUME NEW r \in Readers, TakeStep(r) PROVE TypeOK'
  <2>1. PICK new \in States : rd' = [rd EXCEPT ![r] = new]
    BY <1>3 DEF TakeStep, Becomes
  <2> QED BY <1>3, <2>1 DEF TakeStep, TypeOK, States
<1>4. ASSUME NEW r \in Readers, OpenStep(r) PROVE TypeOK'
  <2>1. PICK new \in States : rd' = [rd EXCEPT ![r] = new]
    BY <1>4 DEF OpenStep, Becomes
  <2>2. shared' \in [age : 0 .. SharedAge, res : Results] /\ sharedLock' \in Readers \cup {None}
    BY <1>4, Limits DEF OpenStep, TypeOK, Release
  <2> QED BY <1>4, <2>1, <2>2 DEF OpenStep, TypeOK, States
<1>5. ASSUME NEW r \in Readers, Crash(r) PROVE TypeOK'
  <2>1. IdleReader \in States
    BY Limits DEF IdleReader, States, Results
  <2>2. rd' = [rd EXCEPT ![r] = IdleReader]
    BY <1>5 DEF Crash, Set
  <2> QED BY <1>5, <2>1, <2>2 DEF Crash, TypeOK, States, Release
<1>6. ASSUME CliRenews PROVE TypeOK'
  <2>1. token' = 1 /\ stored' = 1 /\ expired' = FALSE
    BY <1>6 DEF CliRenews, TokenInv
  <2> QED BY <1>6, <2>1 DEF CliRenews, TypeOK
<1>7. ASSUME NEW renewed \in BOOLEAN, Tick(renewed) PROVE TypeOK'
  <2>1. cache' \in {Absent} \cup Samples
    <3>1. RateLimitAge + 1 \in 0 .. AgeCap /\ cache \in Results /\ cache \in {Absent} \cup Samples
      BY Limits DEF TypeOK, Results
    <3>2. Aged(cache, RateLimitAge + 1, renewed) \in {Absent} \cup Samples
      BY <3>1, AgedIs
    <3> QED BY <1>7, <3>2 DEF Tick
  <2>2. cooldown' \in Nat
    BY <1>7 DEF Tick, TypeOK, Lower
  <2>3. shared' \in [age : 0 .. SharedAge, res : Results]
    <3>1. NothingShared \in [age : 0 .. SharedAge, res : Results]
      BY Limits DEF NothingShared, Results
    <3>2. Aged(shared.res, AgeCap, FALSE) \in Results
      <4>1. AgeCap \in 0 .. AgeCap /\ shared.res \in Results
        BY Limits DEF TypeOK
      <4> QED BY <4>1, AgedIs
    <3>3. shared.age + 1 < SharedAge => shared.age + 1 \in 0 .. SharedAge
      BY Limits DEF TypeOK
    <3> HIDE DEF NothingShared
    <3>4. [age |-> shared.age + 1, res |-> Aged(shared.res, AgeCap, FALSE)] \in [age : 0 .. SharedAge, res : Results]
          \/ ~(shared.age + 1 < SharedAge)
      BY <3>2, <3>3
    <3> QED BY <1>7, <3>1, <3>4 DEF Tick
  <2>4. \A r \in Readers : rd'[r] \in States
    <3> SUFFICES ASSUME NEW r \in Readers PROVE rd'[r] \in States
      OBVIOUS
    <3> PICK v : v = [rd[r] EXCEPT !.wait = Lower(@)]
      OBVIOUS
    <3>1. v = [pc |-> rd[r].pc, tries |-> rd[r].tries, net |-> rd[r].net, honoured |-> rd[r].honoured,
               wait |-> Lower(rd[r].wait), token |-> rd[r].token, renewed |-> rd[r].renewed, res |-> rd[r].res]
      BY States1 DEF States
    <3>2. Lower(rd[r].wait) \in Nat
      BY States1 DEF States, Lower
    <3>3. v \in States
      BY <3>1, <3>2, States1 DEF States
    <3> QED BY <1>7, <3>3 DEF Tick
  <2>5. rd' \in [Readers -> States]
    BY <1>7, <2>4 DEF Tick
  <2> QED BY <1>7, <2>1, <2>2, <2>3, <2>5 DEF Tick, TypeOK, States
<1>8. ASSUME UNCHANGED vars PROVE TypeOK'
  BY <1>8 DEF vars, TypeOK
<1> QED BY <1>1, <1>2, <1>3, <1>4, <1>5, <1>6, <1>7, <1>8, Steps

-----------------------------------------------------------------------------
(* The conjuncts that relate the readers *)

\* A step of one reader leaves the others as they are.
LEMMA OneReader ==
  ASSUME TypeOK, NEW r \in Readers, NEW new, rd' = [rd EXCEPT ![r] = new]
  PROVE  rd'[r] = new /\ \A q \in Readers : q # r => rd'[q] = rd[q]
BY DEF TypeOK

\* The lock file has one holder, and what he found when he took it stays true.
LEMMA LockStep ==
  ASSUME UsageInv, Moved
  PROVE  LockInv'
<1> USE DEF UsageInv, files, service, locks, quiet
<1>1. ASSUME NEW r \in Readers, LeaveStep(r) PROVE LockInv'
  <2> PICK new \in States : rd' = [rd EXCEPT ![r] = new] /\ new.pc \in {"again", "return"}
    BY <1>1 DEF LeaveStep, Leaves
  <2>1. rd'[r] = new /\ \A q \in Readers : q # r => rd'[q] = rd[q]
    BY OneReader
  <2>2. flock' = Release(flock, r) /\ sharedLock' = sharedLock
    BY <1>1 DEF LeaveStep, Leaves
  <2>3. \A q \in Readers : q # r /\ rd[q].pc \in Held => UNCHANGED <<cache, cooldown>>
    BY <1>1, Limits DEF LeaveStep, LockInv, Held, At
  <2>4. UNCHANGED <<provider, signedIn>>
    BY <1>1 DEF LeaveStep
  <2>5. \A q \in Readers : rd'[q].pc \in Held <=> flock' = q
    BY <2>1, <2>2, Limits DEF LockInv, Held, Release
  <2>6. \A q \in Readers : sharedLock' = q => rd'[q].pc \notin {"idle", "queue"}
    BY <2>1, <2>2 DEF LockInv
  <2>7. \A q \in Readers : rd'[q].pc \in Held => q # r /\ rd[q].pc \in Held
    BY <2>1 DEF Held
  <2> QED BY <2>3, <2>4, <2>5, <2>6, <2>7 DEF LockInv
<1>2. ASSUME NEW r \in Readers, HeldStep(r) PROVE LockInv'
  <2> PICK new \in States : rd' = [rd EXCEPT ![r] = new] /\ new.pc \in Held
    BY <1>2 DEF HeldStep, Becomes
  <2>1. rd'[r] = new /\ \A q \in Readers : q # r => rd'[q] = rd[q]
    BY OneReader
  <2>2. rd[r].pc \in Held /\ UNCHANGED <<provider, signedIn, cache, cooldown, flock, sharedLock>>
    BY <1>2 DEF HeldStep
  <2> QED BY <2>1, <2>2 DEF LockInv, Held
<1>3. ASSUME NEW r \in Readers, TakeStep(r) PROVE LockInv'
  <2> PICK new \in States : rd' = [rd EXCEPT ![r] = new] /\ new.pc = "fetch"
    BY <1>3 DEF TakeStep, Becomes
  <2>1. rd'[r] = new /\ \A q \in Readers : q # r => rd'[q] = rd[q]
    BY OneReader
  <2>2. /\ UNCHANGED <<provider, signedIn, cache, cooldown, sharedLock>> /\ flock = None /\ flock' = r
        /\ provider = "claude" /\ signedIn /\ cooldown = 0 /\ (cache.kind = "sample" => cache.age > MaxAge)
    BY <1>3 DEF TakeStep
  <2>3. \A q \in Readers : rd[q].pc \notin Held
    BY <2>2, Limits DEF LockInv
  <2> QED BY <2>1, <2>2, <2>3 DEF LockInv, Held
<1>4. ASSUME NEW r \in Readers, OpenStep(r) PROVE LockInv'
  <2> PICK new : /\ new \in States /\ rd' = [rd EXCEPT ![r] = new] /\ new.pc \notin Held
                 /\ \/ sharedLock' = sharedLock /\ (new.pc \in {"idle", "queue"} => rd[r].pc \in {"idle", "queue"})
                    \/ sharedLock' = r /\ new.pc = "api"
                    \/ sharedLock' = Release(sharedLock, r)
    BY <1>4 DEF OpenStep, Becomes
  <2>1. rd'[r] = new /\ \A q \in Readers : q # r => rd'[q] = rd[q]
    BY OneReader
  <2>2. rd[r].pc \notin Held /\ UNCHANGED <<provider, signedIn, cache, cooldown, flock>>
    BY <1>4 DEF OpenStep
  <2>3. \A q \in Readers : sharedLock' = q => rd'[q].pc \notin {"idle", "queue"}
    BY <2>1, Limits DEF LockInv, Release
  <2>4. \A q \in Readers : rd'[q].pc \in Held <=> rd[q].pc \in Held
    BY <2>1, <2>2
  <2> QED BY <2>2, <2>3, <2>4 DEF LockInv
<1>5. ASSUME NEW r \in Readers, Crash(r) PROVE LockInv'
  <2>1. rd'[r] = IdleReader /\ \A q \in Readers : q # r => rd'[q] = rd[q]
    BY <1>5, OneReader DEF Crash, Set
  <2>2. IdleReader.pc = "idle" /\ "idle" \notin Held
    BY DEF IdleReader, Held
  <2>3. /\ flock' = Release(flock, r) /\ sharedLock' = Release(sharedLock, r)
        /\ UNCHANGED <<provider, signedIn, cooldown>> /\ (cache' = cache \/ cache' = Absent)
    BY <1>5 DEF Crash
  <2>4. Absent.kind # "sample"
    BY DEF Absent
  <2> HIDE DEF IdleReader, Absent
  <2>5. \A q \in Readers : rd'[q].pc \in Held <=> flock' = q
    BY <2>1, <2>2, <2>3, Limits DEF LockInv, Release
  <2>6. \A q \in Readers : sharedLock' = q => rd'[q].pc \notin {"idle", "queue"}
    BY <2>1, <2>3, Limits DEF LockInv, Release
  <2>7. \A q \in Readers : rd'[q].pc \in Held => rd[q].pc \in Held
    BY <2>1, <2>2
  <2> QED BY <2>3, <2>4, <2>5, <2>6, <2>7 DEF LockInv
<1>6. ASSUME CliRenews PROVE LockInv'
  BY <1>6 DEF CliRenews, LockInv
<1>7. ASSUME NEW renewed \in BOOLEAN, Tick(renewed) PROVE LockInv'
  <2>1. \A q \in Readers : rd'[q].pc = rd[q].pc
    BY <1>7 DEF Tick, TypeOK
  <2>2. UNCHANGED <<provider, signedIn, flock, sharedLock>> /\ (cooldown = 0 => cooldown' = 0)
    BY <1>7 DEF Tick, Lower
  <2>3. (cache.kind = "sample" => cache.age > MaxAge) => (cache'.kind = "sample" => cache'.age > MaxAge)
    <3>1. RateLimitAge + 1 \in 0 .. AgeCap /\ RateLimitAge + 1 > MaxAge /\ cache \in Results /\ cache \in {Absent} \cup Samples
      BY Limits DEF TypeOK, Results
    <3>2. cache' = Aged(cache, RateLimitAge + 1, renewed)
      BY <1>7 DEF Tick
    <3>3. cache'.kind = cache.kind
      BY <3>1, <3>2, AgedIs
    <3>4. cache.kind = "sample" => cache.age \in 0 .. AgeCap
      BY <3>1 DEF Samples, Absent
    <3>5. cache.kind = "sample" => cache'.age = cache.age + 1 \/ cache'.age = RateLimitAge + 1
      BY <3>1, <3>2, <3>4, AgedIs, Limits
    <3> QED BY <3>1, <3>3, <3>4, <3>5, Limits
  <2> QED BY <2>1, <2>2, <2>3 DEF LockInv
<1>8. ASSUME UNCHANGED vars PROVE LockInv'
  BY <1>8 DEF vars, LockInv
<1> QED BY <1>1, <1>2, <1>3, <1>4, <1>5, <1>6, <1>7, <1>8, Steps

\* A token is issued to the holder of the lock file only, and he saves it next.
LEMMA TokenStep ==
  ASSUME UsageInv, Moved
  PROVE  TokenInv' /\ TokenIsKept'
<1> USE DEF UsageInv, files, service, locks, quiet, At
<1>1. ASSUME NEW r \in Readers, LeaveStep(r) PROVE TokenInv' /\ TokenIsKept'
  <2> PICK new \in States : rd' = [rd EXCEPT ![r] = new] /\ new.pc \in {"again", "return"}
    BY <1>1 DEF LeaveStep, Leaves
  <2>1. rd'[r] = new /\ \A q \in Readers : q # r => rd'[q] = rd[q]
    BY OneReader
  <2>2. UNCHANGED <<stored, token, expired, lost>> /\ rd[r].pc # "save"
    BY <1>1 DEF LeaveStep
  <2> QED BY <2>1, <2>2 DEF TokenInv, TokenIsKept
<1>2. ASSUME NEW r \in Readers, HeldStep(r) PROVE TokenInv' /\ TokenIsKept'
  <2>1. \A q \in Readers : q # r => rd[q].pc \notin Held
    BY <1>2 DEF HeldStep, LockInv
  <2>2. "save" \in Held
    BY DEF Held
  <2> PICK new : /\ new \in States /\ rd' = [rd EXCEPT ![r] = new]
                 /\ \/ rd[r].pc # "save" /\ new.pc # "save" /\ UNCHANGED <<stored, service>>
                    \/ /\ rd[r].pc # "save" /\ rd[r].token = token /\ expired /\ new.pc = "save" /\ new.token = token'
                       /\ token' = token + 1 /\ expired' = FALSE /\ UNCHANGED stored
                    \/ rd[r].pc = "save" /\ new.pc # "save" /\ stored' = rd[r].token /\ UNCHANGED service
    BY <1>2 DEF HeldStep, Becomes
  <2>3. rd'[r] = new /\ \A q \in Readers : q # r => rd'[q] = rd[q]
    BY OneReader
  <2>4. lost' = lost
    BY <1>2 DEF HeldStep
  <2>5. \A q \in Readers : q # r => rd'[q].pc # "save"
    BY <2>1, <2>2, <2>3
  <2>6. CASE rd[r].pc # "save" /\ new.pc # "save" /\ UNCHANGED <<stored, service>>
    BY <2>1, <2>2, <2>3, <2>4, <2>5, <2>6 DEF TokenInv, TokenIsKept
  <2>7. CASE /\ new.pc = "save" /\ new.token = token' /\ token' = token + 1 /\ expired' = FALSE
    BY <2>3, <2>4, <2>5, <2>7 DEF TokenInv, TokenIsKept
  <2>8. CASE rd[r].pc = "save" /\ new.pc # "save" /\ stored' = rd[r].token /\ UNCHANGED service
    BY <2>3, <2>4, <2>5, <2>8 DEF TokenInv, TokenIsKept
  <2> QED BY <2>6, <2>7, <2>8
<1>3. ASSUME NEW r \in Readers, TakeStep(r) PROVE TokenInv' /\ TokenIsKept'
  <2> PICK new \in States : rd' = [rd EXCEPT ![r] = new] /\ new.pc = "fetch"
    BY <1>3 DEF TakeStep, Becomes
  <2>1. rd'[r] = new /\ \A q \in Readers : q # r => rd'[q] = rd[q]
    BY OneReader
  <2>2. UNCHANGED <<stored, token, expired, lost>> /\ rd[r].pc # "save"
    BY <1>3 DEF TakeStep
  <2> QED BY <2>1, <2>2 DEF TokenInv, TokenIsKept
<1>4. ASSUME NEW r \in Readers, OpenStep(r) PROVE TokenInv' /\ TokenIsKept'
  <2> PICK new \in States : rd' = [rd EXCEPT ![r] = new] /\ new.pc \notin Held
    BY <1>4 DEF OpenStep, Becomes
  <2>1. rd'[r] = new /\ \A q \in Readers : q # r => rd'[q] = rd[q]
    BY OneReader
  <2>2. UNCHANGED <<stored, token, expired, lost>> /\ rd[r].pc \notin Held /\ "save" \in Held
    BY <1>4 DEF OpenStep, Held
  <2> QED BY <2>1, <2>2 DEF TokenInv, TokenIsKept
<1>5. ASSUME NEW r \in Readers, Crash(r) PROVE TokenInv' /\ TokenIsKept'
  <2>1. rd'[r] = IdleReader /\ \A q \in Readers : q # r => rd'[q] = rd[q]
    BY <1>5, OneReader DEF Crash, Set
  <2>2. IdleReader.pc = "idle"
    BY DEF IdleReader
  <2>3. UNCHANGED <<stored, token, expired>> /\ (lost' <=> lost \/ rd[r].pc = "save")
    BY <1>5 DEF Crash
  <2> QED BY <2>1, <2>2, <2>3 DEF TokenInv, TokenIsKept
<1>6. ASSUME CliRenews PROVE TokenInv' /\ TokenIsKept'
  <2>1. \A q \in Readers : rd[q].pc # "save"
    BY <1>6 DEF CliRenews, TokenInv
  <2>2. stored' = token' /\ expired' = FALSE /\ rd' = rd
    BY <1>6 DEF CliRenews
  <2> QED BY <2>1, <2>2 DEF TokenInv, TokenIsKept
<1>7. ASSUME NEW renewed \in BOOLEAN, Tick(renewed) PROVE TokenInv' /\ TokenIsKept'
  <2>1. \A q \in Readers : rd'[q].pc = rd[q].pc /\ rd'[q].token = rd[q].token
    BY <1>7 DEF Tick, TypeOK
  <2>2. UNCHANGED <<stored, token, expired, lost>>
    BY <1>7 DEF Tick
  <2> QED BY <2>1, <2>2 DEF TokenInv, TokenIsKept
<1>8. ASSUME UNCHANGED vars PROVE TokenInv' /\ TokenIsKept'
  BY <1>8 DEF vars, TokenInv, TokenIsKept
<1> QED BY <1>1, <1>2, <1>3, <1>4, <1>5, <1>6, <1>7, <1>8, Steps

LEMMA AgeStep ==
  ASSUME UsageInv, Moved
  PROVE  AgeInv'
<1> USE DEF UsageInv, files, service, locks, quiet, At
<1>1. ASSUME NEW r \in Readers, LeaveStep(r) PROVE AgeInv'
  <2> PICK new \in States : rd' = [rd EXCEPT ![r] = new] /\ Young(new.res)
    BY <1>1 DEF LeaveStep, Leaves
  <2>1. rd'[r] = new /\ \A q \in Readers : q # r => rd'[q] = rd[q]
    BY OneReader
  <2>2. UNCHANGED <<shared, sharedLock>>
    BY <1>1 DEF LeaveStep, Leaves
  <2>3. new.res.active => new.res.age <= RateLimitAge
    <3>1. Limit' \in {MaxAge, RateLimitAge}
      BY DEF Limit
    <3>2. new.res.active => new.res.age \in Nat
      BY DEF States, Results, Samples, Absent, Marker
    <3> QED BY <3>1, <3>2, Limits DEF Young
  <2> QED BY <2>1, <2>2, <2>3 DEF AgeInv
<1>2. ASSUME NEW r \in Readers, HeldStep(r) \/ TakeStep(r) PROVE AgeInv'
  <2> PICK new \in States : rd' = [rd EXCEPT ![r] = new] /\ new.pc \in Held
    BY <1>2 DEF HeldStep, TakeStep, Becomes, Held
  <2>1. rd'[r] = new /\ \A q \in Readers : q # r => rd'[q] = rd[q]
    BY OneReader
  <2>2. UNCHANGED <<shared, sharedLock>>
    BY <1>2 DEF HeldStep, TakeStep
  <2>3. new.pc # "return"
    BY DEF Held
  <2> QED BY <2>1, <2>2, <2>3 DEF AgeInv
<1>3. ASSUME NEW r \in Readers, OpenStep(r) PROVE AgeInv'
  <2> PICK new : /\ new \in States /\ rd' = [rd EXCEPT ![r] = new]
                 /\ \/ /\ rd[r].pc \in {"idle", "queue", "again"} /\ UNCHANGED <<sharedLock, shared>>
                       /\ new.pc = "return" => rd[r].pc \in {"idle", "queue"}
                    \/ sharedLock' = r /\ new.pc = "api" /\ UNCHANGED shared
                    \/ /\ At(r, "return") /\ new.pc = "idle" /\ sharedLock' = Release(sharedLock, r)
                       /\ shared' = IF sharedLock = r THEN [age |-> 0, res |-> rd[r].res] ELSE shared
    BY <1>3 DEF OpenStep, Becomes
  <2>1. rd'[r] = new /\ \A q \in Readers : q # r => rd'[q] = rd[q]
    BY OneReader
  <2>2. CASE /\ rd[r].pc \in {"idle", "queue", "again"} /\ UNCHANGED <<sharedLock, shared>>
             /\ new.pc = "return" => rd[r].pc \in {"idle", "queue"}
    BY <2>1, <2>2 DEF AgeInv, LockInv
  <2>3. CASE sharedLock' = r /\ new.pc = "api" /\ UNCHANGED shared
    BY <2>1, <2>3 DEF AgeInv
  <2>4. CASE /\ At(r, "return") /\ new.pc = "idle" /\ sharedLock' = Release(sharedLock, r)
             /\ shared' = IF sharedLock = r THEN [age |-> 0, res |-> rd[r].res] ELSE shared
    <3>1. shared'.res.active => shared'.res.age <= shared'.age + RateLimitAge
      BY <2>4, Limits DEF AgeInv
    <3>2. \A q \in Readers : sharedLock' = q => q # r /\ sharedLock = q
      BY <2>4, Limits DEF Release
    <3> QED BY <2>1, <3>1, <3>2 DEF AgeInv
  <2> QED BY <2>2, <2>3, <2>4
<1>4. ASSUME NEW r \in Readers, Crash(r) PROVE AgeInv'
  <2>1. rd'[r] = IdleReader /\ \A q \in Readers : q # r => rd'[q] = rd[q]
    BY <1>4, OneReader DEF Crash, Set
  <2>2. IdleReader.pc = "idle"
    BY DEF IdleReader
  <2>3. UNCHANGED shared /\ \A q \in Readers : sharedLock' = q => sharedLock = q
    BY <1>4, Limits DEF Crash, Release
  <2> QED BY <2>1, <2>2, <2>3 DEF AgeInv
<1>5. ASSUME CliRenews PROVE AgeInv'
  BY <1>5 DEF CliRenews, AgeInv
<1>6. ASSUME NEW renewed \in BOOLEAN, Tick(renewed) PROVE AgeInv'
  <2>1. \A q \in Readers : rd'[q].pc = rd[q].pc /\ rd'[q].res = rd[q].res
    BY <1>6 DEF Tick, TypeOK
  <2>2. shared'.res.active => shared'.res.age <= shared'.age + RateLimitAge
    <3>1. CASE shared.age + 1 < SharedAge
      <4> DEFINE new == Aged(shared.res, AgeCap, FALSE)
      <4>1. AgeCap \in 0 .. AgeCap /\ shared.res \in Results /\ shared.age \in Nat
        BY Limits DEF TypeOK
      <4>2. new \in Results /\ (new.active => shared.res.active) /\ (new.active => new.age <= shared.res.age + 1)
        BY <4>1, AgedIs
      <4> HIDE DEF new
      <4>3. shared.res.age \in Nat /\ new.age \in Nat
        BY <4>1, <4>2, Limits DEF Results, Samples, Absent, Marker
      <4>4. new.active => new.age <= shared.age + 1 + RateLimitAge
        BY <4>1, <4>2, <4>3, Limits DEF AgeInv
      <4>5. shared'.age = shared.age + 1 /\ shared'.res = new
        BY <1>6, <3>1 DEF Tick, new
      <4> QED BY <4>4, <4>5
    <3>2. CASE ~(shared.age + 1 < SharedAge)
      <4>1. shared' = NothingShared
        BY <1>6, <3>2 DEF Tick
      <4> QED BY <4>1 DEF NothingShared, Absent
    <3> QED BY <3>1, <3>2
  <2>3. UNCHANGED sharedLock
    BY <1>6 DEF Tick
  <2> QED BY <2>1, <2>2, <2>3 DEF AgeInv
<1>7. ASSUME UNCHANGED vars PROVE AgeInv'
  BY <1>7 DEF vars, AgeInv
<1> QED BY <1>1, <1>2, <1>3, <1>4, <1>5, <1>6, <1>7, Steps

LEMMA UsageInvariant == Spec => []UsageInv
<1>1. UsageInv /\ [Next]_vars => UsageInv'
  BY TypeStep, LockStep, TokenStep, AgeStep DEF UsageInv, Moved
<1> QED BY <1>1, InitInv, PTL DEF Spec

-----------------------------------------------------------------------------
(* Theorems *)

\* Whatever the readers, the CLI and the token service do and whenever a reader
\* dies, the token on disk is the one the service accepts, unless a reader died
\* between the answer and the file (_refresh_claude_oauth_access_token).
THEOREM TokenIsKeptHolds == Spec => []TokenIsKept
BY UsageInvariant, PTL DEF UsageInv

LEMMA Spares ==
  ASSUME UsageInv, Moved, NEW r \in Readers, At(r, "fetch")
  PROVE  /\ cooldown = 0
         /\ rd'[r].pc = "return" /\ cache'.age = 0 /\ cache # cache' /\ cache.kind = "sample" => cache.age > MaxAge
BY DEF UsageInv, LockInv, Held, At

\* No request leaves the machine during a cooldown and none replaces a sample that
\* was still fresh, for any number of readers (read_claude_api under its lock).
THEOREM ProviderIsSparedHolds == Spec => ProviderIsSpared
<1>1. UsageInv /\ [Next]_vars =>
        [\A r \in Readers : At(r, "fetch") =>
          /\ cooldown = 0
          /\ rd'[r].pc = "return" /\ cache'.age = 0 /\ cache # cache' /\ cache.kind = "sample" => cache.age > MaxAge]_vars
  BY Spares DEF Moved
<1> QED BY <1>1, UsageInvariant, PTL DEF Spec, ProviderIsSpared

\* The step in which a reader gets its result.
LEMMA ResultIsYoung ==
  ASSUME UsageInv, Moved, NEW q \in Readers, ~At(q, "return"), rd'[q].pc = "return",
         RequiresFreshSource(rd'[q].res)
  PROVE  \/ rd'[q].res.age <= (IF cooldown' > 0 THEN RateLimitAge ELSE MaxAge)
         \/ rd[q].pc \in {"idle", "queue"} /\ rd'[q].res.age < RateLimitAge + SharedAge
<1> USE DEF UsageInv, At, RequiresFreshSource
<1>1. ASSUME NEW r \in Readers, LeaveStep(r) PROVE rd'[q].res.age <= (IF cooldown' > 0 THEN RateLimitAge ELSE MaxAge)
  <2> PICK new \in States : rd' = [rd EXCEPT ![r] = new] /\ Young(new.res)
    BY <1>1 DEF LeaveStep, Leaves
  <2>1. rd'[r] = new /\ (q # r => rd'[q] = rd[q])
    BY OneReader
  <2> QED BY <2>1, Limits DEF Young, Limit
<1>2. ASSUME NEW r \in Readers, HeldStep(r) \/ TakeStep(r) PROVE FALSE
  <2> PICK new \in States : rd' = [rd EXCEPT ![r] = new] /\ new.pc \in Held
    BY <1>2 DEF HeldStep, TakeStep, Becomes, Held
  <2>1. rd'[r] = new /\ (q # r => rd'[q] = rd[q])
    BY OneReader
  <2> QED BY <2>1 DEF Held
<1>3. ASSUME NEW r \in Readers, OpenStep(r) PROVE rd[q].pc \in {"idle", "queue"} /\ rd'[q].res.age < RateLimitAge + SharedAge
  <2> PICK new : /\ new \in States /\ rd' = [rd EXCEPT ![r] = new]
                 /\ new.pc = "return" => rd[r].pc \in {"idle", "queue"} /\ SharedFresh /\ new.res = shared.res
    BY <1>3 DEF OpenStep, Becomes
  <2>1. rd'[r] = new /\ (q # r => rd'[q] = rd[q])
    BY OneReader
  <2>2. q = r /\ rd[r].pc \in {"idle", "queue"} /\ SharedFresh /\ rd'[q].res = shared.res
    BY <2>1
  <2>3. shared.res.age <= shared.age + RateLimitAge /\ shared.age \in Nat
    BY <2>2 DEF AgeInv, TypeOK
  <2>4. shared.res.age \in Nat
    BY DEF TypeOK, Results, Samples, Absent, Marker
  <2> QED BY <2>2, <2>3, <2>4, Limits DEF SharedFresh
<1>4. ASSUME NEW r \in Readers, Crash(r) PROVE FALSE
  <2>1. rd'[r] = IdleReader /\ (q # r => rd'[q] = rd[q])
    BY <1>4, OneReader DEF Crash, Set
  <2> QED BY <2>1 DEF IdleReader
<1>5. ASSUME CliRenews \/ (\E renewed \in BOOLEAN : Tick(renewed)) \/ UNCHANGED vars PROVE FALSE
  <2>1. CASE CliRenews \/ UNCHANGED vars
    BY <2>1 DEF CliRenews, vars
  <2>2. CASE \E renewed \in BOOLEAN : Tick(renewed)
    <3>1. rd'[q].pc = rd[q].pc
      BY <2>2 DEF Tick, TypeOK
    <3> QED BY <3>1
  <2> QED BY <1>5, <2>1, <2>2
<1> QED BY <1>1, <1>2, <1>3, <1>4, <1>5, Steps

\* A reader is never shown a running window older than the readers promise, for
\* every choice of the ages, however the snapshot was shared and whoever waited for
\* the lock (shared_usage_snapshot, read_usage_cache).
THEOREM AgeIsBoundedHolds == Spec => AgeIsBounded
<1>1. UsageInv /\ [Next]_vars =>
        [\A r \in Readers :
          ~At(r, "return") /\ rd'[r].pc = "return" /\ RequiresFreshSource(rd'[r].res) =>
              \/ rd'[r].res.age <= (IF cooldown' > 0 THEN RateLimitAge ELSE MaxAge)
              \/ rd[r].pc \in {"idle", "queue"} /\ rd'[r].res.age < RateLimitAge + SharedAge]_vars
  BY ResultIsYoung DEF Moved
<1> QED BY <1>1, UsageInvariant, PTL DEF Spec, AgeIsBounded

-----------------------------------------------------------------------------
(* 2. UsageTable *)

-----------------------------------------------------------------------------
(* Snapshots *)

\* A reset time that a source reports, or none.
Times == Nat \cup {NoNum}

\* A scope has the fields of CapacityScope and a reset time.
GoodScope(s) ==
  s \in [name : {s.name}, kind : {s.kind}, rem : {s.rem}, amount : {s.amount}, cur : {s.cur}, reset : Times,
         spent : {s.spent}, model : {s.model}]
GoodScopes(S) == IsFiniteSet(S) /\ \A s \in S : GoodScope(s)

\* A snapshot has finitely many such scopes.
GoodSnapshot(snap) ==
  /\ snap \in [available : BOOLEAN, reason : {snap.reason}, scopes : {snap.scopes}, models : {snap.models}]
  /\ GoodScopes(snap.scopes) /\ \A s \in snap.models : GoodScope(s)

\* The constants are numbers.
LEMMA CapacityConstants ==
  /\ Resets \subseteq Nat /\ MonthEnd \in Nat /\ Poll \in Nat /\ Poll > 0
  /\ MonthEnd \in Times /\ Resets \subseteq Times /\ NoNum \in Times /\ \A t \in Times : t \in Int
BY CapacityAssumption DEF Times, NoNum

\* The constructors make scopes.
LEMMA ScopeIs ==
  /\ \A name, kind : GoodScope(Scope(name, kind))
  /\ \A name, rem : \A t \in Times : GoodScope(Window(name, rem, t))
  /\ \A name, rem, m : \A t \in Times : GoodScope([Window(name, rem, t) EXCEPT !.model = m])
  /\ \A amount, cur : GoodScope(BalanceScope(amount, cur)) /\ GoodScope(SpendScope(amount, cur))
  /\ \A amount, cur : GoodScope([BalanceScope(amount, cur) EXCEPT !.spent = TRUE])
  /\ \A total, spent, cur : GoodScope(BudgetScope(total, spent, cur))
  /\ \A name : GoodScope(UnknownScope(name))
<1>0. NoNum \in Times /\ MonthEnd \in Times
  BY CapacityConstants
<1>1. \A name, kind : GoodScope(Scope(name, kind))
  BY <1>0 DEF GoodScope, Scope
<1>2. ASSUME NEW name, NEW rem, NEW t \in Times, NEW m
      PROVE  GoodScope(Window(name, rem, t)) /\ GoodScope([Window(name, rem, t) EXCEPT !.model = m])
  BY <1>0 DEF GoodScope, Scope, Window
<1>3. ASSUME NEW amount, NEW cur
      PROVE  GoodScope(BalanceScope(amount, cur)) /\ GoodScope([BalanceScope(amount, cur) EXCEPT !.spent = TRUE])
  BY <1>0 DEF GoodScope, Scope, BalanceScope
<1>4. \A amount, cur : GoodScope(SpendScope(amount, cur))
  BY <1>0 DEF GoodScope, Scope, SpendScope, BalanceScope
<1>5. ASSUME NEW total, NEW spent, NEW cur PROVE GoodScope(BudgetScope(total, spent, cur))
  BY <1>0 DEF GoodScope, Scope, BudgetScope
<1> QED BY <1>1, <1>2, <1>3, <1>4, <1>5 DEF UnknownScope

\* Sets of scopes: none, one, and the scopes of two sets.
LEMMA ScopesAre ==
  /\ GoodScopes({})
  /\ \A s : GoodScope(s) => GoodScopes({s})
  /\ \A S, T : GoodScopes(S) /\ GoodScopes(T) => GoodScopes(S \cup T)
<1>1. ASSUME NEW S, NEW T, GoodScopes(S), GoodScopes(T) PROVE GoodScopes(S \cup T)
  <2>1. IsFiniteSet(S \cup T)
    BY <1>1, FS_Union DEF GoodScopes
  <2> QED BY <1>1, <2>1 DEF GoodScopes
<1> QED BY <1>1, FS_EmptySet, FS_Singleton DEF GoodScopes

\* A snapshot of such scopes.
LEMMA SnapshotIs ==
  ASSUME NEW a \in BOOLEAN, NEW reason, NEW scopes, GoodScopes(scopes)
  PROVE  GoodSnapshot(Snapshot(a, reason, scopes)) /\ GoodSnapshot(Unavailable(reason))
<1>1. GoodScopes({})
  BY ScopesAre
<1> QED BY <1>1 DEF GoodSnapshot, Snapshot, Unavailable

\* The same with model scopes.
LEMMA ModelsAre ==
  ASSUME NEW a \in BOOLEAN, NEW reason, NEW scopes, GoodScopes(scopes), NEW models, \A s \in models : GoodScope(s)
  PROVE  GoodSnapshot([Snapshot(a, reason, scopes) EXCEPT !.models = models])
BY DEF GoodSnapshot, Snapshot

\* Kilo's and OpenCode's scopes.
LEMMA GatewayScopesAre == ASSUME NEW i, NEW st PROVE GoodScopes(ScopesForMode(i, st))
<1> DEFINE balance == Or(i.balance, st.balance)
           budget  == Or(i.budget, st.budget)
           cur     == IF i.cur = "" THEN st.cur ELSE i.cur
           budgets == {BudgetScope(b, Or(i.spent, st.spent), cur) : b \in {budget} \ {NoNum, 0}}
           balances == {BalanceScope(a, cur) : a \in {balance} \ {NoNum}}
           gates   == budgets \cup balances
           spends  == {SpendScope(c, cur) : c \in {st.cost} \ {NoNum}}
           found   == IF gates = {} THEN spends ELSE gates
<1>1. GoodScopes(budgets)
  <2>1. budgets = {} \/ budgets = {BudgetScope(budget, Or(i.spent, st.spent), cur)}
    OBVIOUS
  <2> HIDE DEF budgets
  <2> QED BY <2>1, ScopeIs, ScopesAre, CapacityConstants
<1>2. GoodScopes(balances)
  <2>1. balances = {} \/ balances = {BalanceScope(balance, cur)}
    OBVIOUS
  <2> HIDE DEF balances
  <2> QED BY <2>1, ScopeIs, ScopesAre, CapacityConstants
<1>3. GoodScopes(spends)
  <2>1. spends = {} \/ spends = {SpendScope(st.cost, cur)}
    OBVIOUS
  <2> HIDE DEF spends
  <2> QED BY <2>1, ScopeIs, ScopesAre, CapacityConstants
<1>4. ScopesForMode(i, st) \in {{Scope(i.mode, "ungated")}, found, {UnknownScope("usage")}}
  BY DEF ScopesForMode
<1> HIDE DEF budgets, balances, spends
<1>5. GoodScopes(found)
  BY <1>1, <1>2, <1>3, ScopesAre
<1> HIDE DEF found
<1>6. GoodScopes({Scope(i.mode, "ungated")}) /\ GoodScopes({UnknownScope("usage")})
  BY ScopeIs, ScopesAre, CapacityConstants
<1> QED BY <1>4, <1>5, <1>6

\* Kilo's and OpenCode's snapshots.
LEMMA GatewaySnapshotIs == ASSUME NEW i, NEW scopes, GoodScopes(scopes) PROVE GoodSnapshot(ReadGateway(i, scopes))
<1>1. \A a \in BOOLEAN : \A reason : GoodSnapshot(Snapshot(a, reason, scopes))
  BY SnapshotIs
<1>2. \E a \in BOOLEAN : \E reason : ReadGateway(i, scopes) = Snapshot(a, reason, scopes)
  BY DEF ReadGateway
<1> QED BY <1>1, <1>2

\* What is read of two windows, and what remains of it when another source fills it in.
GoodQuota(w) ==
  w \in [five : {w.five}, fiveReset : Times, week : {w.week}, weekReset : Times]

\* What the sources report are such figures.
LEMMA QuotaIs ==
  /\ GoodQuota(NoWindows) /\ \A w \in WindowPairs : GoodQuota(w)
  /\ \A w, v : GoodQuota(w) /\ GoodQuota(v) => GoodQuota(FillIn(w, v))
<1>0. NoNum \in Times /\ MonthEnd \in Times /\ Resets \subseteq Times
  BY CapacityConstants
<1>1. GoodQuota(NoWindows) /\ \A w \in WindowPairs : GoodQuota(w)
  BY <1>0 DEF GoodQuota, NoWindows, WindowPairs
<1>2. ASSUME NEW w, NEW v, GoodQuota(w), GoodQuota(v) PROVE GoodQuota(FillIn(w, v))
  <2> DEFINE f == FillIn(w, v)
  <2>1. DOMAIN w = {"five", "fiveReset", "week", "weekReset"}
    BY <1>2 DEF GoodQuota
  <2>2. f = [k \in {"five", "fiveReset", "week", "weekReset"} |-> Or(w[k], v[k])]
    BY <2>1 DEF FillIn
  <2> HIDE DEF f
  <2>3. /\ w.fiveReset \in Times /\ v.fiveReset \in Times /\ w.weekReset \in Times /\ v.weekReset \in Times
    BY <1>2 DEF GoodQuota
  <2>4. f.fiveReset \in Times /\ f.weekReset \in Times
    BY <2>2, <2>3 DEF Or
  <2>5. f = [five |-> f.five, fiveReset |-> f.fiveReset, week |-> f.week, weekReset |-> f.weekReset]
    BY <2>2
  <2> QED BY <2>4, <2>5 DEF GoodQuota, f
<1> QED BY <1>1, <1>2

\* The scopes of two windows.
LEMMA BuildScopesAre == ASSUME NEW w, GoodQuota(w) PROVE GoodScopes(BuildScopes(w))
<1> DEFINE short == {Window("5h", p, w.fiveReset) : p \in {w.five} \ {NoNum}}
           long  == {Window("weekly", p, w.weekReset) : p \in {w.week} \ {NoNum}}
<1>0. w.fiveReset \in Times /\ w.weekReset \in Times
  BY DEF GoodQuota
<1>1. GoodScopes(short)
  <2>1. short = {} \/ short = {Window("5h", w.five, w.fiveReset)}
    OBVIOUS
  <2> HIDE DEF short
  <2> QED BY <1>0, <2>1, ScopeIs, ScopesAre
<1>2. GoodScopes(long)
  <2>1. long = {} \/ long = {Window("weekly", w.week, w.weekReset)}
    OBVIOUS
  <2> HIDE DEF long
  <2> QED BY <1>0, <2>1, ScopeIs, ScopesAre
<1>3. BuildScopes(w) = short \cup long
  BY DEF BuildScopes
<1> HIDE DEF short, long
<1> QED BY <1>1, <1>2, <1>3, ScopesAre

\* MiniMax.
LEMMA MinimaxIs == \A snap \in MinimaxSnapshots : GoodSnapshot(snap)
<1> SUFFICES ASSUME NEW i \in MinimaxInputs PROVE GoodSnapshot(ReadMinimax(i))
  BY DEF MinimaxSnapshots
<1> DEFINE api    == IF i.cli /\ i.error = "" THEN i.quota ELSE NoWindows
           scopes == BuildScopes(FillIn(api, i.env))
<1>1. GoodQuota(api) /\ GoodQuota(i.env)
  BY QuotaIs DEF MinimaxInputs
<1>2. i.cli \in BOOLEAN
  BY DEF MinimaxInputs
<1>3. \/ \E r : ReadMinimax(i) = Unavailable(r)
      \/ ReadMinimax(i) = Snapshot(TRUE, "", scopes)
  BY <1>2 DEF ReadMinimax
<1> HIDE DEF api
<1>4. GoodScopes(scopes)
  BY <1>1, QuotaIs, BuildScopesAre
<1> HIDE DEF scopes
<1> QED BY <1>3, <1>4, SnapshotIs

\* A set of natural numbers has a least element.
LEMMA Least ==
  ASSUME NEW S, S \subseteq Nat, S # {} PROVE \E m \in S : \A k \in S : m <= k
<1>1. PICK m \in S : \A k \in S : <<k, m>> \notin OpToRel(<, Nat)
  BY NatLessThanWellFounded, WFMin
<1>2. \A k \in S : ~(k < m)
  BY <1>1 DEF OpToRel
<1> QED BY <1>2

\* The first of some limits is one of them.
LEMMA FirstIs == ASSUME NEW S, S \subseteq Nat PROVE (S = {} /\ First(S) = 0) \/ First(S) \in S
<1>1. CASE S = {}
  BY <1>1 DEF First
<1>2. CASE S # {}
  <2>1. \E i \in S : \A j \in S : i <= j
    BY <1>2, Least
  <2> QED BY <1>2, <2>1 DEF First
<1> QED BY <1>1, <1>2

\* Lists of at most two limits, as they are read.
ZaiLists == BoundedSeq(ZaiEntries, 2)

\* Their positions are numbers, and each has a reset time.
LEMMA LimitsAre ==
  ASSUME NEW es \in ZaiLists
  PROVE  /\ DOMAIN es \subseteq {1, 2} /\ \A i \in DOMAIN es : es[i] \in ZaiEntries
         /\ \A i \in DOMAIN es : es[i].reset \in Nat
<1>1. PICK m \in 0 .. 2 : es \in [1 .. m -> ZaiEntries]
  BY DEF ZaiLists, BoundedSeq, SeqOf
<1>2. \A e \in ZaiEntries : e.reset \in Nat
  <2>1. \A e \in ZaiEntries : e.reset \in Resets \cup {MonthEnd}
    BY DEF ZaiEntries
  <2> QED BY <2>1, CapacityConstants
<1> QED BY <1>1, <1>2

\* The furthest of some limits is one of them.
LEMMA FurthestIs ==
  ASSUME NEW es \in ZaiLists, NEW S, S \subseteq DOMAIN es, S # {}
  PROVE  Furthest(es, S) \in S
<1>1. /\ S \subseteq {1, 2} /\ \A i \in S : es[i].reset \in Nat
  BY LimitsAre
<1> DEFINE IsLast(i) == \A j \in S : es[j].reset < es[i].reset \/ (es[j].reset = es[i].reset /\ j <= i)
<1>2. \E i \in S : IsLast(i)
  <2>1. CASE \E i \in S : S = {i}
    BY <1>1, <2>1
  <2>2. CASE S = {1, 2}
    <3>1. es[1].reset > es[2].reset \/ es[1].reset <= es[2].reset
      BY <1>1, <2>2
    <3>2. CASE es[1].reset > es[2].reset
      BY <1>1, <2>2, <3>2
    <3>3. CASE es[1].reset <= es[2].reset
      BY <1>1, <2>2, <3>3
    <3> QED BY <3>1, <3>2, <3>3
  <2> QED BY <1>1, <2>1, <2>2
<1> QED BY <1>2 DEF Furthest

\* What z.ai's five-hour and weekly figures are taken from: a limit that says it
\* is as long, one that does not say how long it is, or none.
LEMMA ParseIs ==
  ASSUME NEW es \in ZaiLists
  PROVE  LET named == ParseZaiLimits(es)
         IN  /\ named.five = NoEntry \/ \E i \in DOMAIN es : es[i] = named.five /\ Bucket(es[i]) \in {"5h", "none"}
             /\ named.week = NoEntry \/ \E i \in DOMAIN es : es[i] = named.week /\ Bucket(es[i]) \in {"weekly", "none"}
<1> DEFINE Of(b)   == {i \in DOMAIN es : Bucket(es[i]) = b}
           By(t)   == {i \in Of("none") : es[i].type = t}
           five    == IF Of("5h") # {} THEN First(Of("5h")) ELSE First(By("5h"))
           week    == IF Of("weekly") # {} THEN First(Of("weekly")) ELSE First(By("weekly"))
           left    == Of("none") \ {five, week}
           nearest == First({i \in left : \A j \in left : es[i].reset <= es[j].reset})
           rest    == IF five = 0 THEN left \ {nearest} ELSE left
           atFive  == IF five = 0 THEN nearest ELSE five
           atWeek  == IF week = 0 /\ rest # {} THEN Furthest(es, rest) ELSE week
<1>1. ParseZaiLimits(es) = [five |-> EntryAt(es, atFive), week |-> EntryAt(es, atWeek)]
  BY DEF ParseZaiLimits
<1>2. DOMAIN es \subseteq Nat /\ 0 \notin DOMAIN es
  BY LimitsAre
<1>3. \A b : Of(b) \subseteq DOMAIN es
  OBVIOUS
<1>4. five \in Of("5h") \cup Of("none") \cup {0}
  <2>1. Of("5h") = {} => First(By("5h")) \in By("5h") \cup {0}
    BY <1>2, FirstIs
  <2>2. Of("5h") # {} => First(Of("5h")) \in Of("5h")
    BY <1>2, <1>3, FirstIs
  <2> QED BY <2>1, <2>2
<1>5. week \in Of("weekly") \cup Of("none") \cup {0}
  <2>1. Of("weekly") = {} => First(By("weekly")) \in By("weekly") \cup {0}
    BY <1>2, FirstIs
  <2>2. Of("weekly") # {} => First(Of("weekly")) \in Of("weekly")
    BY <1>2, <1>3, FirstIs
  <2> QED BY <2>1, <2>2
<1>6. left \subseteq Of("none")
  OBVIOUS
<1>7. nearest \in Of("none") \cup {0}
  <2> DEFINE S == {i \in left : \A j \in left : es[i].reset <= es[j].reset}
  <2>1. S \subseteq Of("none") /\ S \subseteq Nat
    BY <1>2, <1>6
  <2> HIDE DEF S
  <2>2. First(S) \in Of("none") \cup {0}
    BY <2>1, FirstIs
  <2> QED BY <2>2 DEF S
<1>8. rest \subseteq Of("none")
  BY <1>6
<1> HIDE DEF five, week, left, nearest, rest
<1>9. atFive \in Of("5h") \cup Of("none") \cup {0}
  BY <1>4, <1>7
<1>10. atWeek \in Of("weekly") \cup Of("none") \cup {0}
  <2>1. rest # {} => Furthest(es, rest) \in rest
    BY <1>3, <1>8, FurthestIs
  <2> QED BY <1>5, <1>8, <2>1
<1> HIDE DEF atFive, atWeek
<1>11. \A k, b : k \in Of(b) \cup Of("none") \cup {0} =>
          EntryAt(es, k) = NoEntry \/ \E i \in DOMAIN es : es[i] = EntryAt(es, k) /\ Bucket(es[i]) \in {b, "none"}
  BY <1>2 DEF EntryAt
<1> QED BY <1>1, <1>9, <1>10, <1>11

\* z.ai.
LEMMA ZaiIs == \A snap \in ZaiSnapshots : GoodSnapshot(snap)
<1> SUFFICES ASSUME NEW i \in ZaiInputs PROVE GoodSnapshot(ReadZai(i))
  BY DEF ZaiSnapshots
<1> DEFINE answer == FetchZai(i.first, i.second)
           read   == i.key /\ answer = "limits" /\ i.limits # << >>
           api    == IF read THEN ZaiWindows(i.limits) ELSE NoWindows
           scopes == ZaiScopes(FillIn(api, i.env))
<1>1. i.limits \in ZaiLists /\ i.key \in BOOLEAN /\ i.env \in {NoWindows, [NoWindows EXCEPT !.five = 50]}
  BY DEF ZaiInputs, ZaiLists
<1>2. GoodQuota(i.env)
  <2>1. GoodQuota([NoWindows EXCEPT !.five = 50])
    BY CapacityConstants DEF GoodQuota, NoWindows
  <2> QED BY <1>1, <2>1, QuotaIs
<1>3. GoodQuota(ZaiWindows(i.limits))
  <2> DEFINE named == ParseZaiLimits(i.limits)
  <2>1. named.five.reset \in Times /\ named.week.reset \in Times
    <3>1. NoEntry.reset \in Times
      BY CapacityConstants DEF NoEntry
    <3>2. \A j \in DOMAIN i.limits : i.limits[j].reset \in Times
      BY <1>1, LimitsAre DEF Times
    <3> HIDE DEF named
    <3>3. /\ named.five = NoEntry \/ \E j \in DOMAIN i.limits : i.limits[j] = named.five
          /\ named.week = NoEntry \/ \E j \in DOMAIN i.limits : i.limits[j] = named.week
      BY <1>1, ParseIs DEF named
    <3> QED BY <3>1, <3>2, <3>3
  <2>2. ZaiWindows(i.limits) = [five |-> named.five.rem, fiveReset |-> named.five.reset,
                                week |-> named.week.rem, weekReset |-> named.week.reset]
    BY DEF ZaiWindows
  <2> HIDE DEF named
  <2> QED BY <2>1, <2>2 DEF GoodQuota
<1>4. GoodQuota(api)
  BY <1>3, QuotaIs
<1>5. \/ \E r : ReadZai(i) = Unavailable(r)
      \/ ReadZai(i) = Snapshot(TRUE, "", scopes)
  BY <1>1 DEF ReadZai
<1> HIDE DEF api
<1>6. GoodScopes(scopes)
  BY <1>2, <1>4, QuotaIs, BuildScopesAre DEF ZaiScopes
<1> HIDE DEF scopes
<1> QED BY <1>5, <1>6, SnapshotIs

\* Claude.
LEMMA ClaudeIs == \A snap \in ClaudeSnapshots : GoodSnapshot(snap)
<1> SUFFICES ASSUME NEW i \in ClaudeInputs PROVE GoodSnapshot(ReadClaude(i))
  BY DEF ClaudeSnapshots
<1> DEFINE models == {[Window("weekly", p, MonthEnd) EXCEPT !.model = "Sonnet"] : p \in {i.sonnet} \ {NoNum}}
           scopes == BuildScopes(i.windows)
<1>1. GoodScopes(scopes)
  <2>1. i.windows \in WindowPairs
    BY DEF ClaudeInputs, Pairs
  <2> QED BY <2>1, QuotaIs, BuildScopesAre
<1>2. \A s \in models : GoodScope(s)
  <2>1. \A p : GoodScope([Window("weekly", p, MonthEnd) EXCEPT !.model = "Sonnet"])
    BY ScopeIs, CapacityConstants
  <2> QED BY <2>1
<1>3. i.known \in BOOLEAN
  BY DEF ClaudeInputs
<1>4. \/ ReadClaude(i) = Unavailable("stale-usage")
      \/ ReadClaude(i) = [Snapshot(scopes # {}, "", scopes) EXCEPT !.models = models]
  BY <1>3 DEF ReadClaude
<1> HIDE DEF models, scopes
<1>5. GoodSnapshot([Snapshot(scopes # {}, "", scopes) EXCEPT !.models = models])
  BY <1>1, <1>2, ModelsAre
<1> QED BY <1>1, <1>4, <1>5, SnapshotIs

\* Codex.
LEMMA CodexIs == \A snap \in CodexSnapshots : GoodSnapshot(snap)
<1> SUFFICES ASSUME NEW i \in CodexInputs PROVE GoodSnapshot(ReadCodex(i))
  BY DEF CodexSnapshots
<1> DEFINE spark  == {[Window("weekly", p, MonthEnd) EXCEPT !.model = "Spark"] : p \in {i.spark} \ {NoNum}}
           scopes == Classify(i.primary, i.secondary)
<1>1. GoodScopes(scopes)
  <2>1. i.primary.reset \in Times /\ i.secondary.reset \in Times
    <3>1. \A w \in CodexWindows : w.reset \in Times
      BY CapacityConstants DEF CodexWindows, NoWindow
    <3> QED BY <3>1 DEF CodexInputs
  <2>2. \A w : w.reset \in Times => GoodScopes({Window("5h", w.rem, w.reset)}) /\ GoodScopes({Window("weekly", w.rem, w.reset)})
    BY ScopeIs, ScopesAre
  <2>3. PICK short \in {{}, {i.primary}, {i.secondary}}, long \in {{}, {i.primary}, {i.secondary}} :
          scopes = {Window("5h", w.rem, w.reset) : w \in short} \cup {Window("weekly", w.rem, w.reset) : w \in long}
    BY DEF Classify
  <2>4. GoodScopes({Window("5h", w.rem, w.reset) : w \in short})
    <3>1. {Window("5h", w.rem, w.reset) : w \in short} \in
             {{}, {Window("5h", i.primary.rem, i.primary.reset)}, {Window("5h", i.secondary.rem, i.secondary.reset)}}
      BY <2>3
    <3> QED BY <2>1, <2>2, <3>1, ScopesAre
  <2>5. GoodScopes({Window("weekly", w.rem, w.reset) : w \in long})
    <3>1. {Window("weekly", w.rem, w.reset) : w \in long} \in
             {{}, {Window("weekly", i.primary.rem, i.primary.reset)}, {Window("weekly", i.secondary.rem, i.secondary.reset)}}
      BY <2>3
    <3> QED BY <2>1, <2>2, <3>1, ScopesAre
  <2> QED BY <2>3, <2>4, <2>5, ScopesAre
<1>2. \A s \in spark : GoodScope(s)
  <2>1. \A p : GoodScope([Window("weekly", p, MonthEnd) EXCEPT !.model = "Spark"])
    BY ScopeIs, CapacityConstants
  <2> QED BY <2>1
<1>3. i.known \in BOOLEAN
  BY DEF CodexInputs
<1>4. \/ ReadCodex(i) = Unavailable("stale-usage")
      \/ ReadCodex(i) = [Snapshot(TRUE, "", scopes) EXCEPT !.models = spark]
  BY <1>3 DEF ReadCodex
<1> HIDE DEF spark, scopes
<1>5. GoodSnapshot([Snapshot(TRUE, "", scopes) EXCEPT !.models = spark])
  BY <1>1, <1>2, ModelsAre
<1> QED BY <1>1, <1>4, <1>5, SnapshotIs

\* Copilot.
LEMMA CopilotIs == \A snap \in CopilotSnapshots : GoodSnapshot(snap)
<1> SUFFICES ASSUME NEW i \in CopilotInputs PROVE GoodSnapshot(ReadCopilot(i))
  BY DEF CopilotSnapshots
<1> DEFINE monthly == IF i.monthly = NoNum THEN UnknownScope("monthly") ELSE Window("monthly", i.monthly, MonthEnd)
           addon   == {[BalanceScope(a, i.cur) EXCEPT !.spent = TRUE] : a \in {i.addon} \ {NoNum}}
<1>1. GoodScope(monthly) /\ \A s \in addon : GoodScope(s)
  <2>1. GoodScope(monthly)
    BY ScopeIs, CapacityConstants
  <2>2. \A a : GoodScope([BalanceScope(a, i.cur) EXCEPT !.spent = TRUE])
    BY ScopeIs
  <2> QED BY <2>1, <2>2
<1>2. ReadCopilot(i) \in {Unavailable("unavailable"), [Snapshot(TRUE, "", {monthly}) EXCEPT !.models = addon]}
  BY DEF ReadCopilot
<1> HIDE DEF monthly, addon
<1>3. GoodScopes({monthly})
  BY <1>1, ScopesAre
<1>4. GoodSnapshot([Snapshot(TRUE, "", {monthly}) EXCEPT !.models = addon])
  BY <1>1, <1>3, ModelsAre
<1> QED BY <1>2, <1>3, <1>4, SnapshotIs

\* Every provider's, and the fallback of a reader that raises.
LEMMA SnapshotsAre == ASSUME NEW p PROVE \A snap \in SnapshotsOf(p) \cup {Unavailable("reader-error")} : GoodSnapshot(snap)
<1>1. \A snap \in KiloSnapshots \cup OpencodeSnapshots : GoodSnapshot(snap)
  BY GatewayScopesAre, GatewaySnapshotIs DEF KiloSnapshots, OpencodeSnapshots, ReadKilo, ReadOpencode, OpencodeScopes
<1>2. \A reason : GoodSnapshot(Unavailable(reason))
  BY ScopesAre, SnapshotIs
<1>3. SnapshotsOf(p) \in {ClaudeSnapshots, CodexSnapshots, CopilotSnapshots, KiloSnapshots, OpencodeSnapshots,
                          MinimaxSnapshots, ZaiSnapshots}
  BY DEF SnapshotsOf
<1> QED BY <1>1, <1>2, <1>3, ClaudeIs, CodexIs, CopilotIs, MinimaxIs, ZaiIs

-----------------------------------------------------------------------------
(* The decision *)

\* Of finitely many scopes with a reset time, one is reset last.
LEMMA LastReset ==
  ASSUME NEW S, IsFiniteSet(S), S # {}, \A s \in S : s.reset \in Nat
  PROVE  \E m \in S : \A k \in S : k.reset <= m.reset
<1> DEFINE Later(m) == {k \in S : k.reset > m.reset}
           C == {Cardinality(Later(m)) : m \in S}
<1>1. \A m \in S : IsFiniteSet(Later(m)) /\ Cardinality(Later(m)) \in Nat
  BY FS_Subset, FS_CardinalityType
<1>2. PICK m \in S : \A k \in S : Cardinality(Later(m)) <= Cardinality(Later(k))
  <2>1. C \subseteq Nat /\ C # {}
    BY <1>1
  <2>2. \E c \in C : \A d \in C : c <= d
    <3> HIDE DEF C
    <3> QED BY <2>1, Least
  <2> QED BY <2>2
<1>3. ASSUME NEW k \in S, k.reset > m.reset PROVE FALSE
  <2>1. Later(k) \subseteq Later(m) /\ k \in Later(m) /\ k \notin Later(k)
    <3>1. \A x \in S : x.reset > k.reset => x.reset > m.reset
      BY <1>3
    <3>2. ~(k.reset > k.reset)
      OBVIOUS
    <3> QED BY <1>3, <3>1, <3>2
  <2>2. Later(k) # Later(m)
    BY <2>1
  <2> HIDE DEF Later
  <2>3. Cardinality(Later(k)) < Cardinality(Later(m))
    BY <1>1, <2>1, <2>2, FS_Subset, FS_CardinalityType
  <2> QED BY <1>1, <1>2, <2>3
<1> QED BY <1>3

\* A launch that is refused for a reason other than the provider's absence is
\* put off until the latest reset of the windows and budgets that refuse it.
LEMMA RefusalIs ==
  ASSUME NEW snap, GoodSnapshot(snap), NEW window
  PROVE  LET d == Decide(snap, snap.scopes, window)
         IN  ~d.usable => /\ d.wait > 0
                          /\ snap.available => \A s \in snap.scopes :
                               window \in {"auto", s.name} /\ s.kind \in {"reset_window", "budget"} /\ s.rem # NoNum
                                 /\ s.rem <= MinPercent => d.wait >= s.reset
<1> DEFINE d       == Decide(snap, snap.scopes, window)
           chosen  == {s \in snap.scopes : window \in {"auto", s.name}}
           known   == {s \in chosen : s.kind # "unknown"}
           blocked == {s \in known : ScopeBlocked(s)}
           timed   == {b \in blocked : b.kind \in {"reset_window", "budget"} /\ b.rem # NoNum}
           waits   == {s.reset : s \in timed} \ {NoNum}
<1>1. /\ Poll \in Nat /\ Poll > 0 /\ snap.available \in BOOLEAN
      /\ IsFiniteSet(snap.scopes) /\ \A s \in snap.scopes : s.reset \in Nat \cup {NoNum}
  BY CapacityConstants DEF GoodSnapshot, GoodScopes, GoodScope, Times
<1>2. \A s \in timed : s \in snap.scopes /\ s.reset # 0
  BY DEF ScopeBlocked
<1>3. waits \subseteq Nat \ {0}
  BY <1>1, <1>2
<1>4. ASSUME waits # {} PROVE \E t \in waits : \A u \in waits : u <= t
  <2> DEFINE reset == {s \in timed : s.reset # NoNum}
  <2>1. reset # {} /\ \A s \in reset : s.reset \in Nat
    BY <1>1, <1>2, <1>4
  <2>2. IsFiniteSet(reset)
    <3>1. reset \subseteq snap.scopes
      OBVIOUS
    <3> HIDE DEF reset
    <3> QED BY <1>1, <3>1, FS_Subset
  <2>3. \E m \in reset : \A k \in reset : k.reset <= m.reset
    <3> HIDE DEF reset
    <3> QED BY <2>1, <2>2, LastReset
  <2>4. waits = {s.reset : s \in reset}
    BY DEF NoNum
  <2> HIDE DEF timed
  <2> QED BY <2>3, <2>4
<1>5. waits # {} => /\ Latest(waits) \in waits /\ Latest(waits) > 0 /\ Latest(waits) \in Nat
                    /\ \A t \in waits : t <= Latest(waits)
  <2> HIDE DEF waits
  <2>1. waits # {} => Latest(waits) \in waits /\ \A t \in waits : t <= Latest(waits)
    BY <1>4 DEF Latest
  <2>2. \A t \in waits : t > 0 /\ t \in Nat
    BY <1>3
  <2> QED BY <2>1, <2>2
<1>6. \/ d = Accept
      \/ \E r : d = Refuse(r, Poll) /\ ~snap.available
      \/ \E r : d = Refuse(r, Poll) /\ known = {}
      \/ \E r : d = Refuse(r, IF waits = {} THEN Poll ELSE Latest(waits))
  BY <1>1 DEF Decide
<1>7. \A r, w : Refuse(r, w).wait = w
  BY DEF Refuse
<1>8. Accept.usable
  BY DEF Accept
<1>9. ~d.usable => d.wait > 0
  <2> HIDE DEF d, waits
  <2> QED BY <1>1, <1>5, <1>6, <1>7, <1>8
<1>10. ASSUME ~d.usable, snap.available, NEW s \in snap.scopes, window \in {"auto", s.name},
              s.kind \in {"reset_window", "budget"}, s.rem # NoNum, s.rem <= MinPercent
       PROVE  d.wait >= s.reset
  <2>1. s \in known
    BY <1>10
  <2>2. CASE s.reset \in {0, NoNum}
    <3> HIDE DEF d
    <3>1. d.wait > 0
      BY <1>9, <1>10
    <3>2. d.wait \in Nat
      <4> HIDE DEF waits
      <4> QED BY <1>1, <1>5, <1>6, <1>7, <1>8, <1>10
    <3> QED BY <2>2, <3>1, <3>2 DEF NoNum
  <2>3. CASE s.reset \notin {0, NoNum}
    <3>1. ScopeBlocked(s)
      BY <1>10, <2>3 DEF ScopeBlocked
    <3>2. s.reset \in waits
      BY <1>10, <2>1, <2>3, <3>1
    <3> HIDE DEF d, waits
    <3>3. d.wait = Latest(waits)
      BY <1>6, <1>7, <1>8, <1>10, <2>1, <3>2
    <3> QED BY <1>5, <3>2, <3>3
  <2> QED BY <2>2, <2>3
<1> QED BY <1>9, <1>10

\* Windows that have all been reset refuse nothing.
LEMMA RolledOverIs ==
  ASSUME NEW snap, snap.available, snap.scopes # {},
         \A s \in snap.scopes : s.kind = "reset_window" /\ s.rem # NoNum /\ s.reset = 0
  PROVE  UsageDecision(snap, "auto", "", TRUE).usable
<1>1. \A s \in snap.scopes : ~ScopeBlocked(s) /\ s.kind # "unknown"
  BY DEF ScopeBlocked
<1>2. Decide(snap, snap.scopes, "auto") = Accept
  <2> DEFINE chosen  == {s \in snap.scopes : "auto" \in {"auto", s.name}}
             known   == {s \in chosen : s.kind # "unknown"}
             blocked == {s \in known : ScopeBlocked(s)}
  <2>1. chosen # {} /\ known # {} /\ blocked = {}
    BY <1>1
  <2> QED BY <2>1 DEF Decide
<1> QED BY <1>2 DEF UsageDecision, Accept

-----------------------------------------------------------------------------
(* The service's payload *)

\* A scope comes back from the service as it was sent.
LEMMA ScopeReturns == ASSUME NEW s, GoodScope(s) PROVE ScopeFromJson(ScopeToJson(s)) = s
<1> DEFINE t == ScopeFromJson(ScopeToJson(s))
<1>1. t \in [name : {s.name}, kind : {s.kind}, rem : {s.rem}, amount : {s.amount}, cur : {s.cur}, reset : {s.reset},
             spent : {s.spent}, model : {s.model}]
  BY DEF ScopeFromJson, ScopeToJson, Scope
<1>2. s \in [name : {s.name}, kind : {s.kind}, rem : {s.rem}, amount : {s.amount}, cur : {s.cur}, reset : {s.reset},
             spent : {s.spent}, model : {s.model}]
  BY DEF GoodScope
<1> HIDE DEF t
<1>3. t = s
  BY <1>1, <1>2
<1> QED BY <1>3 DEF t

\* The same of a snapshot.
LEMMA SnapshotReturns == ASSUME NEW snap, GoodSnapshot(snap) PROVE SnapshotFromJson(SnapshotToJson(snap)) = snap
<1>1. ASSUME NEW S, \A s \in S : GoodScope(s) PROVE {ScopeFromJson(j) : j \in {ScopeToJson(s) : s \in S}} = S
  <2>1. \A s \in S : ScopeFromJson(ScopeToJson(s)) = s
    BY <1>1, ScopeReturns
  <2> QED BY <2>1
<1>2. {ScopeFromJson(j) : j \in {ScopeToJson(s) : s \in snap.scopes}} = snap.scopes
  BY <1>1 DEF GoodSnapshot, GoodScopes
<1>3. {ScopeFromJson(j) : j \in {ScopeToJson(s) : s \in snap.models}} = snap.models
  BY <1>1 DEF GoodSnapshot
<1>4. SnapshotFromJson(SnapshotToJson(snap)) =
        [available |-> snap.available, reason |-> snap.reason, scopes |-> snap.scopes, models |-> snap.models]
  BY <1>2, <1>3 DEF SnapshotFromJson, SnapshotToJson
<1> QED BY <1>4 DEF GoodSnapshot

\* The payload carries every provider's data.
LEMMA PayloadReturns ==
  ASSUME NEW v, NEW snaps, snaps = [p \in v |-> snaps[p]], \A p \in v : GoodSnapshot(snaps[p])
  PROVE  ProviderDataFromPayload(ServicePayload(snaps)) = snaps
<1>1. \A p \in v : SnapshotFromJson(SnapshotToJson(snaps[p])) = snaps[p]
  BY SnapshotReturns
<1>2. DOMAIN snaps = v
  OBVIOUS
<1> QED BY <1>1, <1>2 DEF ProviderDataFromPayload, ServicePayload

-----------------------------------------------------------------------------
(* One run, and the embedded dashboard *)

\* A provider that is being read, or has been, is shown, and its data is a snapshot.
TableTyped ==
  /\ tbl \in [pc : {tbl.pc}, visible : {tbl.visible}, limit : {tbl.limit}, early : {tbl.early},
              running : {tbl.running}, read : {tbl.read}, pending : {tbl.pending}, snaps : {tbl.snaps}, shown : {tbl.shown}]
  /\ tbl.running \cup tbl.read \subseteq tbl.visible /\ (tbl.pc = "start" => tbl.running \cup tbl.read = {})
  /\ tbl.snaps = [p \in tbl.visible |-> tbl.snaps[p]]
  /\ \A p \in tbl.visible : GoodSnapshot(tbl.snaps[p])

\* A dashboard's data is no older than it says.
EmbInv ==
  /\ emb \in [running : {emb.running}, started : Nat, next : {emb.next}, now : Nat, seen : Int, data : Int, error : {emb.error}]
  /\ AgeIsNotUnderstated

TableInv == TableTyped /\ FinalTableAgrees /\ EmbInv

\* A run that starts, and a dashboard that opens, satisfy it.
LEMMA TableStarts == TableInit /\ EmbInit => TableInv
<1> SUFFICES ASSUME TableInit, EmbInit PROVE TableInv
  OBVIOUS
<1>1. TableTyped
  BY DEF TableInit, NewRun, TableTyped
<1>2. FinalTableAgrees
  BY DEF TableInit, NewRun, FinalTableAgrees
<1>3. EmbInv
  BY DEF EmbInit, Embedded, EmbInv, AgeIsNotUnderstated, NoNum
<1> QED BY <1>1, <1>2, <1>3 DEF TableInv

\* Every step of a run keeps its part.
LEMMA TableSteps == ASSUME TableTyped, FinalTableAgrees, TableNext PROVE TableTyped' /\ FinalTableAgrees'
<1>1. CASE StartReads
  <2>1. PICK v \in Shown, limit \in SpendLimits, early \in BOOLEAN :
          /\ tbl.pc = "start"
          /\ tbl' = [tbl EXCEPT !.pc = "reading", !.visible = v, !.limit = limit, !.early = early, !.snaps = [p \in v |-> NoSnap]]
    BY <1>1 DEF StartReads
  <2> DEFINE snaps == [p \in v |-> NoSnap]
  <2>2. /\ tbl' \in [pc : {"reading"}, visible : {v}, limit : {limit}, early : {early}, running : {tbl.running},
                     read : {tbl.read}, pending : {tbl.pending}, snaps : {snaps}, shown : {tbl.shown}]
    BY <2>1 DEF TableTyped
  <2>3. GoodSnapshot(NoSnap)
    BY ScopesAre, SnapshotIs DEF NoSnap
  <2>4. snaps = [p \in v |-> snaps[p]] /\ \A p \in v : GoodSnapshot(snaps[p])
    BY <2>3
  <2> HIDE DEF snaps
  <2> QED BY <2>1, <2>2, <2>4 DEF TableTyped, FinalTableAgrees
<1>2. ASSUME NEW p \in tbl.visible, StartThread(p) PROVE TableTyped' /\ FinalTableAgrees'
  <2>1. /\ tbl.pc \in {"reading", "cut", "early"}
        /\ tbl' \in [pc : {tbl.pc}, visible : {tbl.visible}, limit : {tbl.limit}, early : {tbl.early},
                     running : {tbl.running \cup {p}}, read : {tbl.read}, pending : {tbl.pending}, snaps : {tbl.snaps},
                     shown : {tbl.shown}]
    BY <1>2 DEF StartThread, TableTyped
  <2> QED BY <2>1 DEF TableTyped, FinalTableAgrees
<1>3. ASSUME NEW p \in tbl.visible, FinishRead(p) PROVE TableTyped' /\ FinalTableAgrees'
  <2>1. PICK snap \in SnapshotsOf(p) \cup {Unavailable("reader-error")} :
          /\ tbl.pc \in {"reading", "cut", "early"} /\ p \in tbl.running
          /\ tbl' = [tbl EXCEPT !.running = @ \ {p}, !.read = @ \cup {p}, !.snaps[p] = snap]
    BY <1>3 DEF FinishRead
  <2> DEFINE snaps == [tbl.snaps EXCEPT ![p] = snap]
  <2>2. tbl' \in [pc : {tbl.pc}, visible : {tbl.visible}, limit : {tbl.limit}, early : {tbl.early},
                  running : {tbl.running \ {p}}, read : {tbl.read \cup {p}}, pending : {tbl.pending}, snaps : {snaps},
                  shown : {tbl.shown}]
    BY <2>1 DEF TableTyped
  <2>3. GoodSnapshot(snap)
    BY SnapshotsAre
  <2>4. snaps = [q \in tbl.visible |-> snaps[q]] /\ \A q \in tbl.visible : GoodSnapshot(snaps[q])
    BY <2>3 DEF TableTyped
  <2> HIDE DEF snaps
  <2> QED BY <2>1, <2>2, <2>4 DEF TableTyped, FinalTableAgrees
<1>4. CASE FirstTableDue
  <2>1. tbl' \in [pc : {"cut"}, visible : {tbl.visible}, limit : {tbl.limit}, early : {tbl.early},
                  running : {tbl.running}, read : {tbl.read}, pending : {tbl.visible \ tbl.read}, snaps : {tbl.snaps},
                  shown : {tbl.shown}]
    BY <1>4 DEF FirstTableDue, TableTyped
  <2> QED BY <2>1 DEF TableTyped, FinalTableAgrees
<1>5. ASSUME DrawEarly \/ DrawFinal \/ DrawServed PROVE TableTyped' /\ FinalTableAgrees'
  <2> DEFINE Table(snaps, pending) == BuildUsageRows(tbl.visible, snaps, pending, tbl.limit)
  <2>1. PICK pc, shown :
          /\ tbl' \in [pc : {pc}, visible : {tbl.visible}, limit : {tbl.limit}, early : {tbl.early},
                       running : {tbl.running}, read : {tbl.read}, pending : {tbl.pending}, snaps : {tbl.snaps},
                       shown : {shown}]
          /\ \/ pc = "early"
             \/ pc = "done" /\ shown = Table(tbl.snaps, {})
             \/ pc = "served" /\ shown = Table(ProviderDataFromPayload(ServicePayload(tbl.snaps)), {})
    <3> HIDE DEF Table
    <3>1. CASE DrawEarly
      <4>1. PICK shown : tbl' = [tbl EXCEPT !.pc = "early", !.shown = shown]
        BY <3>1 DEF DrawEarly
      <4>2. tbl' \in [pc : {"early"}, visible : {tbl.visible}, limit : {tbl.limit}, early : {tbl.early},
                      running : {tbl.running}, read : {tbl.read}, pending : {tbl.pending}, snaps : {tbl.snaps},
                      shown : {shown}]
        BY <4>1 DEF TableTyped
      <4> QED BY <4>2
    <3>2. CASE DrawFinal
      <4>1. tbl' = [tbl EXCEPT !.pc = "done", !.shown = Table(tbl.snaps, {})]
        BY <3>2 DEF DrawFinal, Table
      <4>2. tbl' \in [pc : {"done"}, visible : {tbl.visible}, limit : {tbl.limit}, early : {tbl.early},
                      running : {tbl.running}, read : {tbl.read}, pending : {tbl.pending}, snaps : {tbl.snaps},
                      shown : {Table(tbl.snaps, {})}]
        BY <4>1 DEF TableTyped
      <4> QED BY <4>2
    <3>3. CASE DrawServed
      <4> DEFINE served == Table(ProviderDataFromPayload(ServicePayload(tbl.snaps)), {})
      <4>1. tbl' = [tbl EXCEPT !.pc = "served", !.shown = served]
        BY <3>3 DEF DrawServed, Table
      <4> HIDE DEF served
      <4>2. tbl' \in [pc : {"served"}, visible : {tbl.visible}, limit : {tbl.limit}, early : {tbl.early},
                      running : {tbl.running}, read : {tbl.read}, pending : {tbl.pending}, snaps : {tbl.snaps},
                      shown : {served}]
        BY <4>1 DEF TableTyped
      <4> QED BY <4>2 DEF served
    <3> QED BY <1>5, <3>1, <3>2, <3>3
  <2>2. ProviderDataFromPayload(ServicePayload(tbl.snaps)) = tbl.snaps
    BY PayloadReturns DEF TableTyped
  <2>3. pc = "early" \/ shown = Table(tbl.snaps, {})
    BY <2>1, <2>2
  <2>4. TableTyped'
    BY <2>1 DEF TableTyped
  <2>5. FinalTableAgrees'
    BY <2>1, <2>3 DEF FinalTableAgrees
  <2> QED BY <2>4, <2>5
<1> QED BY <1>1, <1>2, <1>3, <1>4, <1>5 DEF TableNext

\* Every step of the dashboard keeps its part.
LEMMA EmbSteps == ASSUME EmbInv, EmbNext PROVE EmbInv'
<1>1. CASE Ask
  <2>1. emb' \in [running : {TRUE}, started : {emb.now}, next : {emb'.next}, now : {emb.now}, seen : {emb.seen},
                  data : {emb.data}, error : {emb.error}]
    BY <1>1 DEF Ask, EmbInv
  <2> QED BY <2>1 DEF EmbInv, AgeIsNotUnderstated
<1>2. CASE Collected
  <2>1. PICK t \in emb.started .. emb.now :
          emb' = [emb EXCEPT !.running = FALSE, !.data = t, !.seen = emb.started, !.error = FALSE]
    BY <1>2 DEF Collected
  <2>2. emb' \in [running : {FALSE}, started : {emb.started}, next : {emb.next}, now : {emb.now}, seen : {emb.started},
                  data : {t}, error : {FALSE}]
    BY <2>1 DEF EmbInv
  <2>3. t \in Int /\ emb.started \in Nat /\ emb.started <= t
    BY DEF EmbInv
  <2>4. emb'.seen = emb.started /\ emb'.data = t
    BY <2>2
  <2>5. AgeIsNotUnderstated'
    BY <2>3, <2>4 DEF AgeIsNotUnderstated
  <2>6. emb.now \in Nat
    BY DEF EmbInv
  <2>7. emb' \in [running : {emb'.running}, started : Nat, next : {emb'.next}, now : Nat, seen : Int, data : Int,
                  error : {emb'.error}]
    <3>1. emb.started \in Int
      BY <2>3
    <3> QED BY <2>2, <2>3, <2>6, <3>1
  <2> QED BY <2>5, <2>7 DEF EmbInv
<1>3. CASE CollectFailed \/ EmbTick
  <2>1. emb' \in [running : {emb'.running}, started : {emb.started}, next : {emb.next}, now : {emb'.now}, seen : {emb.seen},
                  data : {emb.data}, error : {emb'.error}]
    <3>1. CASE CollectFailed
      BY <3>1 DEF CollectFailed, EmbInv
    <3>2. CASE EmbTick
      BY <3>2 DEF EmbTick, EmbInv
    <3> QED BY <1>3, <3>1, <3>2
  <2>2. emb'.now \in Nat
    <3>1. emb.now \in Nat /\ emb'.now \in {emb.now, emb.now + 1}
      BY <1>3 DEF CollectFailed, EmbTick, EmbInv
    <3> QED BY <3>1
  <2> QED BY <2>1, <2>2 DEF EmbInv, AgeIsNotUnderstated
<1> QED BY <1>1, <1>2, <1>3 DEF EmbNext

\* The inductive invariant: what has been read are snapshots, a final table is
\* the one of these, and a dashboard does not understate the age of its data.
THEOREM TableInvHolds == TableSpec => []TableInv
<1>1. TableInv /\ [TableNext \/ EmbNext]_<<tbl, emb>> => TableInv'
  <2> SUFFICES ASSUME TableInv, [TableNext \/ EmbNext]_<<tbl, emb>> PROVE TableInv'
    OBVIOUS
  <2>1. CASE TableNext
    <3>1. emb' = emb
      BY <2>1 DEF TableNext, StartReads, StartThread, FinishRead, FirstTableDue, DrawEarly, DrawFinal, DrawServed
    <3>2. EmbInv'
      BY <3>1 DEF TableInv, EmbInv, AgeIsNotUnderstated
    <3> QED BY <2>1, <3>2, TableSteps DEF TableInv
  <2>2. ASSUME tbl' = tbl PROVE TableTyped' /\ FinalTableAgrees'
    BY <2>2 DEF TableInv, TableTyped, FinalTableAgrees
  <2>3. CASE EmbNext
    <3>1. tbl' = tbl
      BY <2>3 DEF EmbNext, Ask, Collected, CollectFailed, EmbTick
    <3> QED BY <2>2, <2>3, <3>1, EmbSteps DEF TableInv
  <2>4. CASE UNCHANGED <<tbl, emb>>
    BY <2>2, <2>4 DEF TableInv, EmbInv, AgeIsNotUnderstated
  <2> QED BY <2>1, <2>3, <2>4
<1> QED BY <1>1, TableStarts, PTL DEF TableSpec

\* A refusal waits long enough, a window that was reset refuses nothing, a pinned
\* model is judged by its own limit and z.ai's figures are taken from the limits
\* they belong to (decide, usage_decision_for_provider, _parse_zai_limits), for
\* all that any provider's reader may return.
THEOREM DecisionIsSoundHolds == TableSpec => []DecisionIsSound
<1>1. TableInv => DecisionIsSound
  <2> SUFFICES ASSUME TableTyped PROVE DecisionIsSound
    BY DEF TableInv
  <2>1. ASSUME NEW p \in tbl.read PROVE GoodSnapshot(LiveSnapshot(p, tbl.snaps[p]))
    <3>1. GoodSnapshot(tbl.snaps[p]) /\ GoodSnapshot(Unavailable("unavailable"))
      BY <2>1, ScopesAre, SnapshotIs DEF TableTyped
    <3> QED BY <3>1 DEF LiveSnapshot
  <2>2. \A snap, window : UsageDecision(snap, window, "", TRUE) = Decide(snap, snap.scopes, window)
    BY DEF UsageDecision
  <2>3. WaitIsLongEnough
    BY <2>1, <2>2, RefusalIs DEF WaitIsLongEnough
  <2>4. RolledOverIsUsable
    BY RolledOverIs DEF RolledOverIsUsable
  <2>5. PinIsHonoured
    BY DEF PinIsHonoured, UsageDecision, ModelExhausted
  <2>6. ZaiRowsAreTheirs
    <3> SUFFICES ASSUME NEW es \in ZaiLists
                 PROVE  LET named == ParseZaiLimits(es)
                        IN  /\ named.five.hours # NoNum => named.five.hours <= ShortHours
                            /\ named.week.hours # NoNum => named.week.hours \in WeekHours
      BY DEF ZaiRowsAreTheirs, ZaiLists
    <3>1. \A e : /\ Bucket(e) \in {"5h", "none"} /\ e.hours # NoNum => e.hours <= ShortHours
                 /\ Bucket(e) \in {"weekly", "none"} /\ e.hours # NoNum => e.hours \in WeekHours
      BY DEF Bucket
    <3>2. NoEntry.hours = NoNum
      BY DEF NoEntry
    <3> QED BY <3>1, <3>2, ParseIs
  <2> QED BY <2>3, <2>4, <2>5, <2>6 DEF DecisionIsSound
<1> QED BY <1>1, TableInvHolds, PTL

\* The last table of a run is the one of what was read, also by way of the service
\* (snapshot_to_json and back), and a console never understates the age of its
\* data (EmbeddedUsage._refresh).
THEOREM TableAgreesHolds == TableSpec => [](FinalTableAgrees /\ AgeIsNotUnderstated)
<1>1. TableInv => FinalTableAgrees /\ AgeIsNotUnderstated
  BY DEF TableInv, EmbInv
<1> QED BY <1>1, TableInvHolds, PTL

-----------------------------------------------------------------------------
(* 3. UsageService *)

-----------------------------------------------------------------------------
(* What is true of services, clients and answers *)

\* The values that occur; a flag is a truth value.
Flags == BOOLEAN \cup {k.narrow : k \in Cases}
Kinds == {k.runs[c].kind : k \in Cases, c \in Clients}
Envs == {DefaultEnv} \cup {k.runs[c].env : k \in Cases, c \in Clients}
AnySample == [age : Nat, env : Envs, hidden : Flags]
Holders == Services \cup {NoOne}

Started == {"up", "idle", "closing"}
Starting == {"off", "boot", "unlink", "bind"}
Requests == {"asked", "loaded", "asked2", "loaded2"}
\* Before a client starts its sampler, and before it has an answer.
Alone == {"ask", "asked", "loaded", "cache", "spawn", "unlink"}
Unanswered == Alone \cup {"poll", "ask2", "asked2", "loaded2"}
ClientPCs == Unanswered \cup {"down1", "down2", "wait", "check", "done", "dead"}

AnyService ==
  [pc : Starting \cup Started, stop : Flags, lock : Holders, hides : Flags, took : Nat, due : 0 .. Interval,
   latest : AnySample, behind : Flags]
AnyClient ==
  [pc : ClientPCs, kind : Kinds, env : Envs, to : Holders, val : AnySample, ans : AnySample, excused : Flags]

ServiceTyped ==
  /\ svc \in [Services -> AnyService] /\ cl \in [Clients -> AnyClient]
  /\ path \in Holders /\ latest \in AnySample /\ narrow \in Flags

\* A service that does not serve yet has no sample and makes none, and neither the path nor a request leads to it.
NotServing ==
  /\ \A s \in Services : svc[s].pc \in Starting => svc[s].latest = NoSample /\ svc[s].lock = NoOne
  /\ path # NoOne => svc[path].pc \in Started
  /\ \A c \in Clients : cl[c].to # NoOne => svc[cl[c].to].pc \in Started /\ cl[c].pc \in Requests
  /\ \A c \in Clients : cl[c].pc \in Alone => svc[c].pc = "off"

\* The sampler's lock bounds how long a sample may take.
Took(s) == IF svc[s].lock = NoOne THEN 0 ELSE svc[s].took

\* The continuous service samples again when its sample is an interval old.
SamplesAgain ==
  ~svc[Continuous].behind /\ svc[Continuous].latest # NoSample =>
     svc[Continuous].latest.age + svc[Continuous].due <= Interval + Took(Continuous)

\* A client's own sampler samples once and is asked before any time passes.
Asks(c) == cl[c].to = c \/ (cl[c].pc \in {"poll", "ask2"} /\ path = c)
InTime(c) == ~svc[c].behind /\ svc[c].latest # NoSample => svc[c].latest.age <= Took(c)
AskedAtOnce == \A c \in Clients : Asks(c) => InTime(c)

\* An answer is recent when it arrives, and it is shown before any time passes.
AnswerIsRecent ==
  \A c \in Clients :
     /\ cl[c].pc \in Unanswered => cl[c].ans = NoSample /\ ~cl[c].excused
     /\ cl[c].pc \in {"down1", "down2", "wait", "check"} /\ ~cl[c].excused /\ cl[c].ans # NoSample => cl[c].ans.age <= Interval

ServiceInv == ServiceTyped /\ NotServing /\ SamplesAgain /\ AskedAtOnce /\ AnswerIsRecent

-----------------------------------------------------------------------------
\* The constants are numbers, and the continuous service is no client.
LEMMA ServiceConstants ==
  /\ Interval \in Nat /\ SampleTime \in Nat /\ OldAge \in Nat
  /\ Continuous \in Services /\ Continuous \notin Clients /\ Clients \subseteq Services
  /\ NoOne \notin Services /\ NoOne \in Holders /\ Services \subseteq Holders
BY ServiceAssumption DEF Services, Holders

\* A truth value is a flag.
LEMMA FlagsAre == TRUE \in Flags /\ FALSE \in Flags /\ (\A P \in BOOLEAN : P \in Flags)
BY DEF Flags

\* No sample is older than every sample, a new one has age 0, and no sample stays none.
LEMMA SamplesAre ==
  /\ NoSample \in AnySample /\ NoSample.age = OldAge + 1
  /\ \A env \in Envs, hidden \in Flags :
        SampleAs(env, hidden) \in AnySample /\ SampleAs(env, hidden).age = 0 /\ SampleAs(env, hidden) # NoSample
  /\ \A s \in AnySample : Older(s) \in AnySample /\ Older(s).age <= s.age + 1 /\ (s = NoSample => Older(s) = NoSample)
<1>1. DefaultEnv \in Envs
  BY DEF Envs
<1>2. NoSample \in AnySample /\ NoSample.age = OldAge + 1
  <2>1. OldAge + 1 \in Nat
    BY ServiceConstants
  <2>2. NoSample \in AnySample
    BY <1>1, <2>1, FlagsAre DEF NoSample, AnySample
  <2> QED BY <2>2 DEF NoSample
<1>3. ASSUME NEW env \in Envs, NEW hidden \in Flags
      PROVE SampleAs(env, hidden) \in AnySample /\ SampleAs(env, hidden).age = 0 /\ SampleAs(env, hidden) # NoSample
  <2>1. SampleAs(env, hidden) \in AnySample /\ SampleAs(env, hidden).age = 0
    BY <1>3 DEF SampleAs, AnySample
  <2>2. OldAge + 1 # 0
    BY ServiceConstants
  <2> QED BY <2>1, <2>2, <1>2
<1>4. ASSUME NEW s \in AnySample
      PROVE Older(s) \in AnySample /\ Older(s).age <= s.age + 1 /\ (s = NoSample => Older(s) = NoSample)
  <2>1. s.age \in Nat
    BY <1>4 DEF AnySample
  <2>2. [s EXCEPT !.age = @ + 1] \in AnySample /\ [s EXCEPT !.age = @ + 1].age = s.age + 1
    BY <1>4, <2>1 DEF AnySample
  <2>3. CASE s.age < OldAge
    <3>1. Older(s) = [s EXCEPT !.age = @ + 1]
      BY <2>3 DEF Older
    <3>2. s # NoSample
      BY <1>2, <2>3, ServiceConstants
    <3> QED BY <2>1, <2>2, <3>1, <3>2
  <2>4. CASE ~(s.age < OldAge)
    <3>1. Older(s) = s
      BY <2>4 DEF Older
    <3> QED BY <1>4, <2>1, <3>1
  <2> QED BY <2>3, <2>4
<1> QED BY <1>2, <1>3, <1>4

\* A service that does not run, and one that is started.
LEMMA OffIs ==
  /\ OffService \in AnyService /\ OffService.pc = "off" /\ OffService.latest = NoSample /\ OffService.lock = NoOne
  /\ [OffService EXCEPT !.pc = "boot"] \in AnyService
<1>1. 0 \in Nat /\ 0 \in 0 .. Interval /\ "off" \in Starting \cup Started /\ "boot" \in Starting \cup Started
  BY ServiceConstants DEF Starting
<1>2. OffService \in AnyService
  BY <1>1, SamplesAre, FlagsAre, ServiceConstants DEF OffService, AnyService
<1>3. [OffService EXCEPT !.pc = "boot"] \in AnyService
  BY <1>1, <1>2 DEF AnyService
<1> QED BY <1>2, <1>3 DEF OffService

\* The invariant holds at first.
LEMMA ServiceStarts == ServiceInit => ServiceInv
<1> SUFFICES ASSUME ServiceInit PROVE ServiceInv
  OBVIOUS
<1>1. PICK k \in Cases :
        /\ cl = [c \in Clients |-> NewClient(k.runs[c].kind, k.runs[c].env)] /\ narrow = k.narrow
  BY DEF ServiceInit
<1>2. narrow \in Flags
  BY <1>1 DEF Flags
<1>3. OffService \in AnyService /\ OffService.pc = "off" /\ OffService.latest = NoSample /\ OffService.lock = NoOne
  BY OffIs
<1>4. svc \in [Services -> AnyService] /\ \A s \in Services : svc[s] = OffService
  BY <1>3 DEF ServiceInit
<1>5. ASSUME NEW c \in Clients
      PROVE /\ cl[c] \in AnyClient /\ cl[c].pc \in {"done", "ask"} /\ cl[c].to = NoOne /\ cl[c].ans = NoSample /\ ~cl[c].excused
  <2>1. k.runs[c].kind \in Kinds /\ k.runs[c].env \in Envs
    BY <1>5 DEF Kinds, Envs
  <2>2. cl[c] = NewClient(k.runs[c].kind, k.runs[c].env)
    BY <1>1, <1>5
  <2>3. \A kind \in Kinds, env \in Envs :
          LET n == NewClient(kind, env)
          IN  n \in AnyClient /\ n.pc \in {"done", "ask"} /\ n.to = NoOne /\ n.ans = NoSample /\ n.excused = FALSE
    BY SamplesAre, FlagsAre, ServiceConstants DEF NewClient, AnyClient, ClientPCs, Unanswered, Alone
  <2> QED BY <2>1, <2>2, <2>3
<1>6. cl \in [Clients -> AnyClient]
  BY <1>1, <1>5
<1>7. latest \in AnySample
  <2>1. DefaultEnv \in Envs
    BY DEF Envs
  <2> QED BY <2>1, <1>2, SamplesAre, ServiceConstants DEF ServiceInit, AnySample
<1>8. ServiceTyped
  BY <1>2, <1>4, <1>6, <1>7, ServiceConstants DEF ServiceTyped, ServiceInit
<1>9. NotServing
  BY <1>3, <1>4, <1>5, ServiceConstants DEF NotServing, ServiceInit
<1>10. SamplesAgain /\ AskedAtOnce
  BY <1>3, <1>4, ServiceConstants DEF SamplesAgain, AskedAtOnce, InTime
<1>11. AnswerIsRecent
  BY <1>5 DEF AnswerIsRecent
<1> QED BY <1>8, <1>9, <1>10, <1>11 DEF ServiceInv

-----------------------------------------------------------------------------
\* The locations are disjoint or contained in each other as their names say.
LEMMA LocationsAre ==
  /\ Starting \cap Started = {} /\ Alone \subseteq Unanswered
  /\ Unanswered \subseteq ClientPCs /\ Requests \subseteq Unanswered
BY DEF Starting, Started, Alone, Unanswered, ClientPCs, Requests

\* What a service and a client are made of.
LEMMA ServiceFields ==
  ASSUME ServiceTyped
  PROVE /\ DOMAIN svc = Services /\ DOMAIN cl = Clients
        /\ \A s \in Services :
              /\ svc[s] \in AnyService
              /\ svc[s].pc \in Starting \cup Started /\ svc[s].stop \in Flags /\ svc[s].lock \in Holders
              /\ svc[s].hides \in Flags /\ svc[s].took \in Nat /\ svc[s].due \in 0 .. Interval
              /\ svc[s].latest \in AnySample /\ svc[s].latest.age \in Nat /\ svc[s].behind \in Flags
        /\ \A c \in Clients :
              /\ cl[c] \in AnyClient
              /\ cl[c].pc \in ClientPCs /\ cl[c].kind \in Kinds /\ cl[c].env \in Envs /\ cl[c].to \in Holders
              /\ cl[c].val \in AnySample /\ cl[c].ans \in AnySample /\ cl[c].ans.age \in Nat /\ cl[c].excused \in Flags
        /\ latest.age \in Nat
        /\ \A s \in Services : EnvOf(s) \in Envs
<1>1. DOMAIN svc = Services /\ DOMAIN cl = Clients
  BY DEF ServiceTyped
<1>2. ASSUME NEW s \in Services
      PROVE /\ svc[s] \in AnyService
            /\ svc[s].pc \in Starting \cup Started /\ svc[s].stop \in Flags /\ svc[s].lock \in Holders
            /\ svc[s].hides \in Flags /\ svc[s].took \in Nat /\ svc[s].due \in 0 .. Interval
            /\ svc[s].latest \in AnySample /\ svc[s].latest.age \in Nat /\ svc[s].behind \in Flags
  BY <1>2 DEF ServiceTyped, AnyService, AnySample
<1>3. ASSUME NEW c \in Clients
      PROVE /\ cl[c] \in AnyClient
            /\ cl[c].pc \in ClientPCs /\ cl[c].kind \in Kinds /\ cl[c].env \in Envs /\ cl[c].to \in Holders
            /\ cl[c].val \in AnySample /\ cl[c].ans \in AnySample /\ cl[c].ans.age \in Nat /\ cl[c].excused \in Flags
  BY <1>3 DEF ServiceTyped, AnyClient, AnySample
<1>4. latest.age \in Nat
  BY DEF ServiceTyped, AnySample
<1>5. ASSUME NEW s \in Services PROVE EnvOf(s) \in Envs
  <2>1. CASE s = Continuous
    BY <2>1 DEF EnvOf, Envs
  <2>2. CASE s # Continuous
    BY <1>3, <1>5, <2>2 DEF EnvOf, Services
  <2> QED BY <2>1, <2>2
<1> QED BY <1>1, <1>2, <1>3, <1>4, <1>5

\* A changed service or client is one.
LEMMA ServiceChanges ==
  ASSUME ServiceTyped
  PROVE /\ \A s \in Services, r \in AnyService :
              /\ [svc EXCEPT ![s] = r] \in [Services -> AnyService] /\ [svc EXCEPT ![s] = r][s] = r
              /\ \A t \in Services : t # s => [svc EXCEPT ![s] = r][t] = svc[t]
        /\ \A c \in Clients, r \in AnyClient :
              /\ [cl EXCEPT ![c] = r] \in [Clients -> AnyClient] /\ [cl EXCEPT ![c] = r][c] = r
              /\ \A d \in Clients : d # c => [cl EXCEPT ![c] = r][d] = cl[d]
BY DEF ServiceTyped

-----------------------------------------------------------------------------
(* What a step may do to one service, one client and the path *)

\* A service starts to serve without a sample, ends after the path and the requests have left it,
\* is started by a client that has given up the others, and keeps its sample young enough.
ServiceMoves(s) ==
  /\ svc'[s].pc \in Starting => svc'[s].latest = NoSample /\ svc'[s].lock = NoOne
  /\ svc[s].pc \in Started /\ svc'[s].pc \notin Started => path' # s /\ \A c \in Clients : cl'[c].to # s
  /\ s \in Clients /\ svc[s].pc = "off" /\ svc'[s].pc # "off" => cl'[s].pc \notin Alone
  /\ s = Continuous => SamplesAgain'
  /\ s \in Clients /\ Asks(s) => InTime(s)'

\* A client asks a service that serves, does not go back, and takes an answer that is young enough.
ClientMoves(c) ==
  /\ cl'[c].to # NoOne => cl'[c].pc \in Requests /\ (cl'[c].to = cl[c].to \/ svc'[cl'[c].to].pc \in Started)
  /\ cl'[c].pc \in Alone => cl[c].pc \in Alone
  /\ Asks(c)' => Asks(c) \/ InTime(c)'
  /\ cl'[c].pc \in Unanswered => cl'[c].ans = NoSample /\ ~cl'[c].excused
  /\ cl'[c].pc \in {"down1", "down2", "wait", "check"} /\ ~cl'[c].excused /\ cl'[c].ans # NoSample => cl'[c].ans.age <= Interval

\* The path is kept, removed, or taken by a service that has no sample yet.
PathMoves ==
  path' \in {path, NoOne} \/ (path' \in Services /\ svc'[path'].pc \in Started /\ svc'[path'].latest = NoSample)

\* Such moves preserve the invariant.
LEMMA MovesKeep ==
  ASSUME ServiceInv, ServiceTyped', PathMoves,
         \A s \in Services : svc'[s] = svc[s] \/ ServiceMoves(s),
         \A c \in Clients : cl'[c] = cl[c] \/ ClientMoves(c)
  PROVE  ServiceInv'
<1> USE ServiceConstants
<1>1. ASSUME NEW s \in Services, svc'[s].pc \in Starting PROVE svc'[s].latest = NoSample /\ svc'[s].lock = NoOne
  BY <1>1 DEF ServiceInv, NotServing, ServiceMoves
<1>2. path' # NoOne => svc'[path'].pc \in Started
  BY DEF ServiceInv, ServiceTyped, NotServing, ServiceMoves, PathMoves, Holders
<1>3. ASSUME NEW c \in Clients, cl'[c].to # NoOne PROVE svc'[cl'[c].to].pc \in Started /\ cl'[c].pc \in Requests
  <2>1. cl'[c].to \in Services
    BY <1>3 DEF ServiceTyped, AnyClient, Holders
  <2>2. cl'[c].to = cl[c].to => svc[cl'[c].to].pc \in Started /\ cl[c].pc \in Requests
    BY <1>3 DEF ServiceInv, NotServing
  <2>3. cl'[c].to = cl[c].to \/ svc'[cl'[c].to].pc \in Started
    BY <1>3 DEF ClientMoves
  <2>4. svc'[cl'[c].to].pc \in Started
    BY <2>1, <2>2, <2>3 DEF ServiceMoves
  <2> QED BY <1>3, <2>2, <2>4 DEF ClientMoves
<1>4. ASSUME NEW c \in Clients, cl'[c].pc \in Alone PROVE svc'[c].pc = "off"
  <2>1. svc[c].pc = "off"
    BY <1>4 DEF ClientMoves, ServiceInv, NotServing
  <2> QED BY <1>4, <2>1 DEF ServiceMoves
<1>5. SamplesAgain'
  <2>1. svc'[Continuous] = svc[Continuous] => SamplesAgain'
    BY DEF ServiceInv, SamplesAgain, Took
  <2> QED BY <2>1 DEF ServiceMoves
<1>6. ASSUME NEW c \in Clients, Asks(c)' PROVE InTime(c)'
  <2>1. CASE Asks(c)
    <3>1. svc'[c] = svc[c] => InTime(c)'
      BY <2>1 DEF ServiceInv, AskedAtOnce, InTime, Took
    <3> QED BY <2>1, <3>1 DEF ServiceMoves
  <2>2. CASE ~Asks(c)
    <3>1. CASE cl'[c] = cl[c]
      <4>1. path' = c /\ path # c
        BY <1>6, <2>2, <3>1 DEF Asks
      <4>2. svc'[c].latest = NoSample
        BY <4>1 DEF PathMoves
      <4> QED BY <4>2 DEF InTime
    <3> QED BY <1>6, <2>2, <3>1 DEF ClientMoves
  <2> QED BY <2>1, <2>2
<1>7. ASSUME NEW c \in Clients
      PROVE /\ cl'[c].pc \in Unanswered => cl'[c].ans = NoSample /\ ~cl'[c].excused
            /\ cl'[c].pc \in {"down1", "down2", "wait", "check"} /\ ~cl'[c].excused /\ cl'[c].ans # NoSample
                 => cl'[c].ans.age <= Interval
  BY DEF ServiceInv, AnswerIsRecent, ClientMoves
<1> QED BY <1>1, <1>2, <1>3, <1>4, <1>5, <1>6, <1>7 DEF ServiceInv, NotServing, AskedAtOnce, AnswerIsRecent

\* Took, of a service that is being changed.
TookBy(r) == IF r.lock = NoOne THEN 0 ELSE r.took

\* One service changes.
LEMMA ServiceChanged ==
  ASSUME ServiceInv, NEW s \in Services, NEW r \in AnyService, svc' = [svc EXCEPT ![s] = r],
         r.pc \in Starting => r.latest = NoSample /\ r.lock = NoOne,
         svc[s].pc \in Started => r.pc \in Started,
         s \in Clients /\ svc[s].pc = "off" /\ r.pc # "off" => cl'[s].pc \notin Alone,
         \/ r.behind \/ r.latest = NoSample \/ r.latest.age = 0
         \/ r.latest = svc[s].latest /\ r.behind = svc[s].behind /\ r.due = svc[s].due /\ TookBy(r) = Took(s)
  PROVE  svc' \in [Services -> AnyService] /\ \A t \in Services : svc'[t] = svc[t] \/ ServiceMoves(t)
<1>1. svc' \in [Services -> AnyService] /\ svc'[s] = r /\ \A t \in Services : t # s => svc'[t] = svc[t]
  BY ServiceChanges DEF ServiceInv
<1>2. r.took \in Nat /\ r.due \in 0 .. Interval /\ r.latest.age \in Nat /\ Interval \in Nat
  BY ServiceConstants DEF AnyService, AnySample
<1>3. TookBy(r) \in Nat
  BY <1>2 DEF TookBy
<1>4. s = Continuous => SamplesAgain'
  <2> SUFFICES ASSUME s = Continuous, ~r.behind, r.latest # NoSample
               PROVE  r.latest.age + r.due <= Interval + TookBy(r)
    BY <1>1 DEF SamplesAgain, TookBy, Took
  <2>1. CASE r.latest.age = 0
    BY <1>2, <1>3, <2>1
  <2>2. CASE r.latest = svc[s].latest /\ r.behind = svc[s].behind /\ r.due = svc[s].due /\ TookBy(r) = Took(s)
    BY <2>2 DEF ServiceInv, SamplesAgain
  <2> QED BY <2>1, <2>2
<1>5. Asks(s) /\ s \in Clients => InTime(s)'
  <2> SUFFICES ASSUME Asks(s), s \in Clients, ~r.behind, r.latest # NoSample
               PROVE  r.latest.age <= TookBy(r)
    BY <1>1 DEF InTime, TookBy, Took
  <2>1. CASE r.latest.age = 0
    BY <1>2, <1>3, <2>1
  <2>2. CASE r.latest = svc[s].latest /\ r.behind = svc[s].behind /\ r.due = svc[s].due /\ TookBy(r) = Took(s)
    BY <2>2 DEF ServiceInv, AskedAtOnce, InTime
  <2> QED BY <2>1, <2>2
<1>6. ServiceMoves(s)
  BY <1>1, <1>4, <1>5 DEF ServiceMoves
<1> QED BY <1>1, <1>6

\* One client changes.
LEMMA ClientChanged ==
  ASSUME ServiceInv, NEW c \in Clients, NEW d \in AnyClient, cl' = [cl EXCEPT ![c] = d],
         d.to # NoOne => d.pc \in Requests /\ (d.to = cl[c].to \/ svc'[d.to].pc \in Started),
         d.pc \in Alone => cl[c].pc \in Alone,
         d.to = c \/ (d.pc \in {"poll", "ask2"} /\ path' = c) => Asks(c) \/ InTime(c)',
         d.pc \in Unanswered => d.ans = NoSample /\ ~d.excused,
         d.pc \in {"down1", "down2", "wait", "check"} /\ ~d.excused /\ d.ans # NoSample => d.ans.age <= Interval
  PROVE  cl' \in [Clients -> AnyClient] /\ \A e \in Clients : cl'[e] = cl[e] \/ ClientMoves(e)
<1>1. cl' \in [Clients -> AnyClient] /\ cl'[c] = d /\ \A e \in Clients : e # c => cl'[e] = cl[e]
  BY ServiceChanges DEF ServiceInv
<1>2. ClientMoves(c)
  BY <1>1 DEF ClientMoves, Asks
<1> QED BY <1>1, <1>2

-----------------------------------------------------------------------------
(* The service's steps *)

\* A service that changes alone.
LEMMA ServiceAlone ==
  ASSUME ServiceInv, NEW s \in Services, NEW r \in AnyService, svc' = [svc EXCEPT ![s] = r],
         cl' = cl, latest' \in AnySample, narrow' \in Flags, path' \in {path, NoOne} \/ path' = s,
         path' = s /\ path # s => r.pc \in Started /\ r.latest = NoSample,
         r.pc \in Starting => r.latest = NoSample /\ r.lock = NoOne,
         svc[s].pc \in Started => r.pc \in Started,
         s \in Clients /\ svc[s].pc = "off" => r.pc = "off",
         \/ r.behind \/ r.latest = NoSample \/ r.latest.age = 0
         \/ r.latest = svc[s].latest /\ r.behind = svc[s].behind /\ r.due = svc[s].due /\ TookBy(r) = Took(s)
  PROVE  ServiceInv'
<1>1. svc' \in [Services -> AnyService] /\ \A t \in Services : svc'[t] = svc[t] \/ ServiceMoves(t)
  BY ServiceChanged
<1>2. svc'[s] = r
  BY ServiceChanges DEF ServiceInv
<1>3. ServiceTyped'
  BY <1>1, ServiceConstants DEF ServiceTyped, ServiceInv, Holders
<1>4. PathMoves
  BY <1>2 DEF PathMoves
<1> QED BY <1>1, <1>3, <1>4, MovesKeep

\* What sampling leaves.
SampledBy(s) ==
  [svc[s] EXCEPT !.pc = IF svc[s].lock = s THEN "idle" ELSE @, !.lock = NoOne, !.latest = SampleAs(EnvOf(s), svc[s].hides),
     !.due = IF svc[s].lock = Continuous THEN Interval ELSE @, !.behind = FALSE]

LEMMA SampledIs ==
  ASSUME ServiceInv, NEW s \in Services, svc[s].lock # NoOne, Sampled(s)
  PROVE  LET r == SampledBy(s)
         IN  /\ r \in AnyService /\ svc' = [svc EXCEPT ![s] = r] /\ r.pc \in Started /\ r.lock = NoOne
             /\ r.latest = SampleAs(EnvOf(s), svc[s].hides) /\ r.latest.age = 0
             /\ latest' \in AnySample /\ svc[s].pc \in Started
<1> DEFINE sample == SampleAs(EnvOf(s), svc[s].hides)
           r == SampledBy(s)
<1>1. sample \in AnySample /\ sample.age = 0
  BY ServiceFields, SamplesAre DEF ServiceInv
<1>2. Interval \in 0 .. Interval /\ "idle" \in Started /\ "idle" \in Starting \cup Started
  BY ServiceConstants DEF Started
<1>3. svc[s] \in AnyService /\ svc[s].pc \in Starting \cup Started
  BY ServiceFields DEF ServiceInv
<1>4. svc[s].pc \in Started
  BY <1>3 DEF ServiceInv, NotServing
<1> HIDE DEF sample
<1>5. r = [svc[s] EXCEPT !.pc = IF svc[s].lock = s THEN "idle" ELSE @, !.lock = NoOne, !.latest = sample,
             !.due = IF svc[s].lock = Continuous THEN Interval ELSE @, !.behind = FALSE]
  BY DEF SampledBy, sample
<1>6. r \in AnyService
  BY <1>1, <1>2, <1>3, <1>5, ServiceConstants, FlagsAre DEF AnyService
<1>7. r.pc \in Started /\ r.lock = NoOne /\ r.latest = sample
  BY <1>2, <1>3, <1>4, <1>5 DEF AnyService
<1>8. svc' = [svc EXCEPT ![s] = r] /\ latest' = sample
  BY <1>5 DEF Sampled, sample
<1> QED BY <1>1, <1>4, <1>6, <1>7, <1>8 DEF sample

\* A service whose sampler's lock is taken.
LEMMA TakenLock ==
  ASSUME ServiceInv, NEW s \in Services, NEW who \in Services, svc[s].lock = NoOne
  PROVE  LET r == [svc[s] EXCEPT !.lock = who, !.hides = narrow, !.took = 0]
         IN  /\ r \in AnyService /\ TakeLock(s, who) = [svc EXCEPT ![s] = r] /\ r.pc = svc[s].pc /\ r.lock # NoOne
             /\ r.latest = svc[s].latest /\ r.behind = svc[s].behind /\ r.due = svc[s].due /\ TookBy(r) = Took(s)
<1> DEFINE r == [svc[s] EXCEPT !.lock = who, !.hides = narrow, !.took = 0]
<1>1. svc[s] \in AnyService /\ who \in Holders /\ narrow \in Flags /\ who # NoOne
  BY ServiceFields, ServiceConstants DEF ServiceInv, ServiceTyped
<1>2. r \in AnyService
  BY <1>1 DEF AnyService
<1>3. /\ r.pc = svc[s].pc /\ r.lock = who /\ r.latest = svc[s].latest /\ r.behind = svc[s].behind /\ r.due = svc[s].due
      /\ r.took = 0
  BY <1>1 DEF AnyService
<1>4. TakeLock(s, who) = [svc EXCEPT ![s] = r]
  BY DEF TakeLock
<1>5. TookBy(r) = Took(s)
  BY <1>3 DEF TookBy, Took
<1> QED BY <1>1, <1>2, <1>3, <1>4, <1>5

\* A service that goes on, or is told to stop.
LEMMA Goes ==
  ASSUME ServiceInv, NEW s \in Services
  PROVE  /\ \A pc \in Starting \cup Started :
              LET r == [svc[s] EXCEPT !.pc = pc]
              IN  /\ r \in AnyService /\ r.pc = pc /\ r.lock = svc[s].lock /\ r.latest = svc[s].latest
                  /\ r.behind = svc[s].behind /\ r.due = svc[s].due /\ TookBy(r) = Took(s)
         /\ \A stop \in Flags :
              LET r == [svc[s] EXCEPT !.stop = stop]
              IN  /\ r \in AnyService /\ r.pc = svc[s].pc /\ r.lock = svc[s].lock /\ r.latest = svc[s].latest
                  /\ r.behind = svc[s].behind /\ r.due = svc[s].due /\ TookBy(r) = Took(s)
<1>1. svc[s] \in AnyService
  BY ServiceFields DEF ServiceInv
<1> QED BY <1>1 DEF AnyService, TookBy, Took

\* A service's own steps while it runs.
LEMMA ServiceKeeps ==
  ASSUME ServiceInv, NEW s \in Services,
         \/ CheckSocket(s) \/ UnlinkStale(s) \/ Bind(s) \/ BeginSample(s) \/ EndSample(s) \/ FailSample(s) \/ SeeStop(s)
  PROVE  ServiceInv'
<1>0. /\ svc[s] \in AnyService /\ svc[s].pc \in Starting \cup Started /\ path \in Holders /\ latest \in AnySample /\ narrow \in Flags
      /\ s # NoOne
  BY ServiceFields, ServiceConstants DEF ServiceInv, ServiceTyped
<1>1. CASE CheckSocket(s)
  <2> DEFINE pc == IF path # NoOne /\ StaleSocket THEN "unlink" ELSE "bind"
             r == [svc[s] EXCEPT !.pc = pc]
  <2>1. pc \in Starting /\ pc # "off" /\ svc[s].pc = "boot" /\ "boot" \in Starting
    BY <1>1 DEF CheckSocket, Starting
  <2>2. svc[s].latest = NoSample /\ svc[s].lock = NoOne /\ svc[s].pc \notin Started
    BY <2>1, LocationsAre DEF ServiceInv, NotServing
  <2>3. svc' = [svc EXCEPT ![s] = r] /\ cl' = cl /\ path' = path /\ latest' = latest /\ narrow' = narrow
    BY <1>1 DEF CheckSocket
  <2> HIDE DEF pc
  <2> QED BY <1>0, <2>1, <2>2, <2>3, Goes, ServiceAlone
<1>2. CASE UnlinkStale(s)
  <2> DEFINE r == [svc[s] EXCEPT !.pc = "bind"]
  <2>1. "bind" \in Starting /\ svc[s].pc = "unlink" /\ "unlink" \in Starting
    BY <1>2 DEF UnlinkStale, Starting
  <2>2. svc[s].latest = NoSample /\ svc[s].lock = NoOne /\ svc[s].pc \notin Started
    BY <2>1, LocationsAre DEF ServiceInv, NotServing
  <2>3. svc' = [svc EXCEPT ![s] = r] /\ cl' = cl /\ path' = NoOne /\ latest' = latest /\ narrow' = narrow
    BY <1>2 DEF UnlinkStale
  <2> QED BY <1>0, <2>1, <2>2, <2>3, Goes, ServiceAlone
<1>3. CASE Bind(s)
  <2> DEFINE r == [svc[s] EXCEPT !.pc = "up"]
  <2>1. "up" \in Started /\ svc[s].pc = "bind" /\ "bind" \in Starting
    BY <1>3 DEF Bind, Starting, Started
  <2>2. svc[s].latest = NoSample /\ svc[s].lock = NoOne /\ svc[s].pc \notin Started
    BY <2>1, LocationsAre DEF ServiceInv, NotServing
  <2>3. svc' = [svc EXCEPT ![s] = r] /\ cl' = cl /\ path' = s /\ latest' = latest /\ narrow' = narrow
    BY <1>3 DEF Bind
  <2> QED BY <1>0, <2>1, <2>2, <2>3, Goes, ServiceAlone, LocationsAre
<1>4. CASE BeginSample(s)
  <2> DEFINE r == [svc[s] EXCEPT !.lock = s, !.hides = narrow, !.took = 0]
  <2>1. svc[s].lock = NoOne /\ svc[s].pc \in Started
    BY <1>4 DEF BeginSample, Started
  <2>2. /\ r \in AnyService /\ TakeLock(s, s) = [svc EXCEPT ![s] = r] /\ r.pc = svc[s].pc
        /\ r.latest = svc[s].latest /\ r.behind = svc[s].behind /\ r.due = svc[s].due /\ TookBy(r) = Took(s)
    BY <2>1, TakenLock
  <2>3. svc' = [svc EXCEPT ![s] = r] /\ cl' = cl /\ path' = path /\ latest' = latest /\ narrow' = narrow
    BY <1>4, <2>2 DEF BeginSample
  <2>4. r.pc \notin Starting /\ svc[s].pc # "off"
    BY <2>1, <2>2, LocationsAre DEF Starting
  <2> HIDE DEF r
  <2> QED BY <1>0, <2>1, <2>2, <2>3, <2>4, ServiceAlone
<1>5. CASE EndSample(s)
  <2> DEFINE r == SampledBy(s)
  <2>1. svc[s].lock # NoOne /\ Sampled(s) /\ cl' = cl /\ path' = path /\ narrow' = narrow
    BY <1>0, <1>5 DEF EndSample
  <2>2. /\ r \in AnyService /\ svc' = [svc EXCEPT ![s] = r] /\ r.pc \in Started /\ r.latest.age = 0
        /\ latest' \in AnySample /\ svc[s].pc \in Started
    BY <2>1, SampledIs
  <2>3. r.pc \notin Starting /\ svc[s].pc # "off"
    BY <2>2, LocationsAre DEF Starting
  <2> HIDE DEF r
  <2> QED BY <1>0, <2>1, <2>2, <2>3, ServiceAlone
<1>6. CASE FailSample(s)
  <2> DEFINE r == [svc[s] EXCEPT !.lock = NoOne, !.pc = IF @ = "up" THEN "closing" ELSE @, !.due = Interval, !.behind = TRUE]
  <2>1. svc[s].pc \in Started
    BY <1>0, <1>6 DEF FailSample, ServiceInv, NotServing
  <2>2. "closing" \in Started /\ "closing" \in Starting \cup Started /\ Interval \in 0 .. Interval
    BY ServiceConstants DEF Started
  <2>3. r \in AnyService
    BY <1>0, <2>2, ServiceConstants, FlagsAre DEF AnyService
  <2>4. r.pc \in Started /\ r.behind = TRUE
    BY <1>0, <2>1, <2>2 DEF AnyService
  <2>5. svc' = [svc EXCEPT ![s] = r] /\ cl' = cl /\ path' = path /\ latest' = latest /\ narrow' = narrow
    BY <1>6 DEF FailSample
  <2>6. r.pc \notin Starting /\ svc[s].pc # "off"
    BY <2>1, <2>4, LocationsAre DEF Starting
  <2> HIDE DEF r
  <2> QED BY <1>0, <2>1, <2>3, <2>4, <2>5, <2>6, ServiceAlone
<1>7. CASE SeeStop(s)
  <2> DEFINE r == [svc[s] EXCEPT !.pc = "closing"]
  <2>1. "closing" \in Started /\ svc[s].pc \in Started /\ svc[s].pc # "off"
    BY <1>7 DEF SeeStop, Started
  <2>2. svc' = [svc EXCEPT ![s] = r] /\ cl' = cl /\ path' = path /\ latest' = latest /\ narrow' = narrow
    BY <1>7 DEF SeeStop
  <2>3. /\ r \in AnyService /\ r.pc = "closing" /\ r.lock = svc[s].lock /\ r.latest = svc[s].latest
        /\ r.behind = svc[s].behind /\ r.due = svc[s].due /\ TookBy(r) = Took(s)
    BY <2>1, Goes
  <2>4. r.pc \in Started /\ r.pc \notin Starting
    BY <2>1, <2>3, LocationsAre
  <2> HIDE DEF r
  <2> QED BY <1>0, <2>1, <2>2, <2>3, <2>4, ServiceAlone
<1> QED BY <1>1, <1>2, <1>3, <1>4, <1>5, <1>6, <1>7

\* A service that ends leaves the path and its requests.
LEMMA ExitKeeps ==
  ASSUME ServiceInv, NEW s \in Services, Exit(s) PROVE ServiceInv'
<1>1. svc[s].pc = "closing" /\ path' = NoOne /\ svc' = [svc EXCEPT ![s] = OffService] /\ latest' = latest /\ narrow' = narrow
  BY DEF Exit
<1>2. \A c \in Clients : cl'[c] = IF cl[c].to = s THEN [cl[c] EXCEPT !.to = NoOne] ELSE cl[c]
  BY DEF Exit
<1>3. ASSUME NEW c \in Clients, cl[c].to = s
      PROVE /\ cl'[c] \in AnyClient /\ cl'[c].to = NoOne /\ cl'[c].pc = cl[c].pc /\ cl'[c].ans = cl[c].ans
            /\ cl'[c].excused = cl[c].excused
  <2>1. cl[c] \in AnyClient /\ NoOne \in Holders
    BY ServiceFields, ServiceConstants DEF ServiceInv
  <2> QED BY <1>2, <1>3, <2>1 DEF AnyClient
<1>4. cl' \in [Clients -> AnyClient]
  <2>1. \A c \in Clients : cl'[c] \in AnyClient
    BY <1>2, <1>3, ServiceFields DEF ServiceInv
  <2> QED BY <2>1 DEF Exit
<1>5. svc' \in [Services -> AnyService] /\ svc'[s] = OffService /\ \A t \in Services : t # s => svc'[t] = svc[t]
  BY <1>1, OffIs, ServiceChanges DEF ServiceInv
<1>6. ServiceMoves(s)
  <2>1. \A c \in Clients : cl'[c].to # s
    BY <1>2, <1>3, ServiceConstants
  <2>2. s = Continuous => SamplesAgain'
    BY <1>5, OffIs DEF SamplesAgain
  <2>3. InTime(s)'
    BY <1>5, OffIs DEF InTime
  <2>4. svc[s].pc # "off"
    BY <1>1
  <2> QED BY <1>1, <1>5, <2>1, <2>2, <2>3, <2>4, OffIs, ServiceConstants DEF ServiceMoves
<1>7. ASSUME NEW c \in Clients, cl'[c] # cl[c] PROVE ClientMoves(c)
  <2>1. cl[c].to = s
    BY <1>2, <1>7
  <2>2. ~Asks(c)'
    BY <1>1, <1>3, <2>1, ServiceConstants DEF Asks
  <2> QED BY <1>3, <2>1, <2>2 DEF ClientMoves, ServiceInv, AnswerIsRecent
<1>8. ServiceTyped'
  BY <1>1, <1>4, <1>5, ServiceConstants DEF ServiceInv, ServiceTyped
<1> QED BY <1>1, <1>5, <1>6, <1>7, <1>8, MovesKeep DEF PathMoves

\* A service that is told to stop, or ended before it serves.
LEMMA Told ==
  ASSUME ServiceInv, NEW s \in Services, svc' = [svc EXCEPT ![s].stop = TRUE] \/ svc' = Terminate(s)
  PROVE  svc' \in [Services -> AnyService] /\ \A t \in Services : svc'[t] = svc[t] \/ ServiceMoves(t)
<1>1. ASSUME NEW stop \in Flags, svc' = [svc EXCEPT ![s].stop = stop]
      PROVE  svc' \in [Services -> AnyService] /\ \A t \in Services : svc'[t] = svc[t] \/ ServiceMoves(t)
  <2> DEFINE r == [svc[s] EXCEPT !.stop = stop]
  <2>1. /\ r \in AnyService /\ r.pc = svc[s].pc /\ r.lock = svc[s].lock /\ r.latest = svc[s].latest
        /\ r.behind = svc[s].behind /\ r.due = svc[s].due /\ TookBy(r) = Took(s)
    BY Goes
  <2>2. svc' = [svc EXCEPT ![s] = r]
    BY <1>1
  <2>3. svc[s].pc \in Starting => svc[s].latest = NoSample /\ svc[s].lock = NoOne
    BY DEF ServiceInv, NotServing
  <2> HIDE DEF r
  <2> QED BY <2>1, <2>2, <2>3, ServiceChanged
<1>2. ASSUME svc[s].pc \in {"boot", "unlink", "bind"}, svc' = [svc EXCEPT ![s] = OffService]
      PROVE  svc' \in [Services -> AnyService] /\ \A t \in Services : svc'[t] = svc[t] \/ ServiceMoves(t)
  <2>1. svc[s].pc \notin Started
    BY <1>2 DEF Started
  <2> QED BY <1>2, <2>1, OffIs, ServiceChanged
<1>3. Up(s) \in Flags
  BY FlagsAre DEF Up
<1> QED BY <1>1, <1>2, <1>3, FlagsAre DEF Terminate

\* The service manager and the configuration.
LEMMA OthersKeep ==
  ASSUME ServiceInv, StartService \/ StopService \/ EditConfig PROVE ServiceInv'
<1>0. path \in Holders /\ latest \in AnySample /\ narrow \in Flags /\ Continuous \in Services /\ Continuous \notin Clients
  BY ServiceConstants DEF ServiceInv, ServiceTyped
<1>1. CASE StartService
  <2> DEFINE r == [OffService EXCEPT !.pc = "boot"]
  <2>1. r \in AnyService /\ r.pc = "boot" /\ r.latest = NoSample /\ r.lock = NoOne
    BY OffIs DEF OffService
  <2>2. svc' = [svc EXCEPT ![Continuous] = r] /\ cl' = cl /\ path' = path /\ latest' = latest /\ narrow' = narrow
    BY <1>1 DEF StartService
  <2>3. svc[Continuous].pc \notin Started
    BY <1>1 DEF StartService, Up, Started
  <2>4. path # Continuous
    BY <1>0, <2>3, ServiceConstants DEF ServiceInv, NotServing
  <2> HIDE DEF r
  <2> QED BY <1>0, <2>1, <2>2, <2>3, <2>4, ServiceAlone
<1>2. CASE StopService
  <2>1. cl' = cl /\ path' = path /\ latest' = latest /\ narrow' = narrow
    BY <1>2 DEF StopService
  <2>2. Serving(path) => path \in Services
    BY <1>0 DEF Serving, Holders
  <2>3. svc' \in [Services -> AnyService] /\ \A t \in Services : svc'[t] = svc[t] \/ ServiceMoves(t)
    BY <1>0, <1>2, <2>2, Told DEF StopService
  <2>4. ServiceTyped'
    BY <2>1, <2>3 DEF ServiceInv, ServiceTyped
  <2> QED BY <2>1, <2>3, <2>4, MovesKeep DEF PathMoves
<1>3. CASE EditConfig
  <2>1. svc' = svc /\ cl' = cl /\ path' = path /\ latest' = latest /\ narrow' \in Flags
    BY <1>3, FlagsAre DEF EditConfig
  <2>2. ServiceTyped'
    BY <2>1 DEF ServiceInv, ServiceTyped
  <2> QED BY <2>1, <2>2, MovesKeep DEF PathMoves
<1> QED BY <1>1, <1>2, <1>3
-----------------------------------------------------------------------------
(* The clients' steps *)

\* A client changes and nothing else does.
LEMMA ClientAlone ==
  ASSUME ServiceInv, svc' = svc, path' = path, latest' = latest, narrow' = narrow,
         cl' \in [Clients -> AnyClient], \A e \in Clients : cl'[e] = cl[e] \/ ClientMoves(e)
  PROVE  ServiceInv'
<1>1. ServiceTyped'
  BY DEF ServiceInv, ServiceTyped
<1> QED BY <1>1, MovesKeep DEF PathMoves

\* A client that goes on without an answer.
LEMMA GoesOn ==
  ASSUME ServiceInv, NEW c \in Clients, NEW pc \in ClientPCs, cl' = GoTo(c, pc),
         pc = "dead" \/ cl[c].pc \in Unanswered,
         pc \in Alone => cl[c].pc \in Alone,
         pc \in {"poll", "ask2"} /\ path' = c => Asks(c) \/ InTime(c)'
  PROVE  cl' \in [Clients -> AnyClient] /\ \A e \in Clients : cl'[e] = cl[e] \/ ClientMoves(e)
<1> DEFINE d == [cl[c] EXCEPT !.pc = pc, !.to = NoOne, !.val = NoSample]
<1>1. cl[c] \in AnyClient /\ c # NoOne /\ NoOne \in Holders /\ NoSample \in AnySample
  BY ServiceFields, ServiceConstants, SamplesAre DEF ServiceInv
<1>2. d \in AnyClient
  BY <1>1 DEF AnyClient
<1>3. d.pc = pc /\ d.to = NoOne /\ d.ans = cl[c].ans /\ d.excused = cl[c].excused
  BY <1>1 DEF AnyClient
<1>4. cl' = [cl EXCEPT ![c] = d]
  BY DEF GoTo
<1>5. cl[c].pc \in Unanswered => cl[c].ans = NoSample /\ ~cl[c].excused
  BY DEF ServiceInv, AnswerIsRecent
<1>6. "dead" \notin Unanswered \cup {"down1", "down2", "wait", "check"}
  BY DEF Unanswered, Alone
<1> HIDE DEF d
<1> QED BY <1>1, <1>2, <1>3, <1>4, <1>5, <1>6, ClientChanged

\* A client that has its answer.
LEMMA HasAnswer ==
  ASSUME ServiceInv, NEW c \in Clients, NEW sample \in AnySample, cl[c].to # NoOne, cl' = Answered(c, sample),
         ~svc'[cl[c].to].behind /\ (cl[c].to = Continuous \/ cl[c].to = c) => sample.age <= Interval
  PROVE  cl' \in [Clients -> AnyClient] /\ \A e \in Clients : cl'[e] = cl[e] \/ ClientMoves(e)
<1> DEFINE excused == svc'[cl[c].to].behind \/ cl[c].to \in Clients \ {c}
           pc == IF cl[c].pc \in {"asked", "loaded"} THEN "check" ELSE "down1"
           d == [cl[c] EXCEPT !.to = NoOne, !.ans = sample, !.excused = excused, !.val = NoSample, !.pc = pc]
<1>1. cl[c] \in AnyClient /\ c # NoOne /\ NoOne \in Holders /\ NoSample \in AnySample /\ cl[c].to \in Services
  BY ServiceFields, ServiceConstants, SamplesAre DEF ServiceInv, Holders
<1>2. excused \in Flags /\ pc \in ClientPCs /\ pc \notin Unanswered \cup {"poll", "ask2"}
  BY FlagsAre DEF ClientPCs, Unanswered, Alone
<1>3. ~excused => sample.age <= Interval
  BY <1>1 DEF Services
<1>4. cl' = [cl EXCEPT ![c] = d]
  BY DEF Answered
<1> HIDE DEF excused, pc
<1>5. d \in AnyClient
  BY <1>1, <1>2 DEF AnyClient
<1>6. d.pc = pc /\ d.to = NoOne /\ d.ans = sample /\ d.excused = excused
  BY <1>1 DEF AnyClient
<1>7. d.pc \notin Unanswered /\ d.pc \notin {"poll", "ask2"} /\ d.pc \notin Alone
  BY <1>2, <1>6, LocationsAre
<1> HIDE DEF d
<1> QED BY <1>1, <1>3, <1>4, <1>5, <1>6, <1>7, ClientChanged

\* What the service of a request has, and how old it is.
LEMMA LatestIsRecent ==
  ASSUME ServiceInv, NEW c \in Clients, cl[c].to # NoOne, svc[cl[c].to].lock = NoOne,
         svc[cl[c].to].latest # NoSample, ~svc[cl[c].to].behind, cl[c].to = Continuous \/ cl[c].to = c
  PROVE  svc[cl[c].to].latest.age <= Interval
<1>1. Continuous \in Services /\ c \in Services /\ Interval \in Nat
  BY ServiceConstants
<1>2. CASE cl[c].to = Continuous
  <2>1. svc[Continuous].latest.age + svc[Continuous].due <= Interval + 0
    BY <1>2 DEF ServiceInv, SamplesAgain, Took
  <2>2. svc[Continuous].latest.age \in Nat /\ svc[Continuous].due \in 0 .. Interval
    BY <1>1, ServiceFields DEF ServiceInv
  <2> QED BY <1>1, <1>2, <2>1, <2>2
<1>3. CASE cl[c].to = c
  <2>1. svc[c].latest.age <= 0
    BY <1>3 DEF ServiceInv, AskedAtOnce, Asks, InTime, Took
  <2>2. svc[c].latest.age \in Nat
    BY <1>1, ServiceFields DEF ServiceInv
  <2> QED BY <1>1, <1>3, <2>1, <2>2
<1> QED BY <1>2, <1>3

\* What a request does: an answer from the latest sample, from the file, or a new sample.
LEMMA RequestsKeep ==
  ASSUME ServiceInv, NEW c \in Clients, AnswerLatest(c) \/ LoadFile(c) \/ StoreLoaded(c) \/ HandlerSample(c)
  PROVE  ServiceInv'
<1> DEFINE s == cl[c].to
<1>0. /\ cl[c] \in AnyClient /\ cl[c].val \in AnySample /\ c \in Services
      /\ path \in Holders /\ latest \in AnySample /\ narrow \in Flags
  BY ServiceFields, ServiceConstants DEF ServiceInv, ServiceTyped
<1>1. s # NoOne /\ s \in Services /\ svc[s].lock = NoOne /\ svc[s].pc \in Started /\ cl[c].pc \in Requests
  <2>1. s # NoOne /\ svc[s].lock = NoOne
    BY DEF AnswerLatest, LoadFile, StoreLoaded, HandlerSample
  <2>2. s \in Services
    BY <2>1, ServiceFields DEF ServiceInv, Holders
  <2> QED BY <2>1, <2>2 DEF ServiceInv, NotServing
<1>2. svc[s] \in AnyService /\ svc[s].latest \in AnySample
  BY <1>1, ServiceFields DEF ServiceInv
<1>3. svc[s].pc \notin Starting /\ svc[s].pc # "off"
  BY <1>1, LocationsAre DEF Starting
<1>4. CASE AnswerLatest(c)
  <2>1. /\ svc' = svc /\ path' = path /\ latest' = latest /\ narrow' = narrow
        /\ svc[s].latest # NoSample /\ cl' = Answered(c, svc[s].latest)
    BY <1>4 DEF AnswerLatest
  <2>2. cl' \in [Clients -> AnyClient] /\ \A e \in Clients : cl'[e] = cl[e] \/ ClientMoves(e)
    BY <1>1, <1>2, <2>1, LatestIsRecent, HasAnswer
  <2> QED BY <2>1, <2>2, ClientAlone
<1>5. CASE LoadFile(c)
  <2> DEFINE pc == IF cl[c].pc = "asked" THEN "loaded" ELSE "loaded2"
             d == [cl[c] EXCEPT !.val = latest, !.pc = pc]
  <2>1. /\ svc' = svc /\ path' = path /\ latest' = latest /\ narrow' = narrow /\ cl' = [cl EXCEPT ![c] = d]
        /\ cl[c].pc \in {"asked", "asked2"}
    BY <1>5 DEF LoadFile, Asking
  <2>2. /\ pc \in Requests /\ pc \in ClientPCs /\ (pc \in Alone => cl[c].pc \in Alone) /\ pc \in Unanswered
        /\ pc \notin {"poll", "ask2", "down1", "down2", "wait", "check"} /\ cl[c].pc \in Unanswered
    BY <2>1 DEF Requests, Alone, Unanswered, ClientPCs
  <2> HIDE DEF pc
  <2>3. d \in AnyClient
    BY <1>0, <2>2 DEF AnyClient
  <2>4. d.pc = pc /\ d.to = s /\ d.ans = cl[c].ans /\ d.excused = cl[c].excused
    BY <1>0 DEF AnyClient
  <2>5. cl[c].ans = NoSample /\ ~cl[c].excused
    BY <2>2 DEF ServiceInv, AnswerIsRecent
  <2>6. d.to = c => Asks(c)
    BY <2>4 DEF Asks
  <2> HIDE DEF d
  <2>7. cl' \in [Clients -> AnyClient] /\ \A e \in Clients : cl'[e] = cl[e] \/ ClientMoves(e)
    BY <2>1, <2>2, <2>3, <2>4, <2>5, <2>6, ClientChanged
  <2> QED BY <2>1, <2>7, ClientAlone
<1>6. CASE StoreLoaded(c)
  <2> DEFINE r == [svc[s] EXCEPT !.latest = cl[c].val, !.behind = TRUE]
  <2>1. /\ svc' = [svc EXCEPT ![s] = r] /\ path' = path /\ latest' = latest /\ narrow' = narrow
        /\ cl' = Answered(c, cl[c].val)
    BY <1>6 DEF StoreLoaded
  <2>2. r \in AnyService
    BY <1>0, <1>2, FlagsAre DEF AnyService
  <2>3. r.pc = svc[s].pc /\ r.behind = TRUE
    BY <1>2 DEF AnyService
  <2> HIDE DEF r
  <2>4. svc' \in [Services -> AnyService] /\ \A t \in Services : svc'[t] = svc[t] \/ ServiceMoves(t)
    BY <1>1, <1>3, <2>1, <2>2, <2>3, ServiceChanged
  <2>5. svc'[s].behind
    BY <1>1, <2>1, <2>2, <2>3, ServiceChanges DEF ServiceInv
  <2>6. cl' \in [Clients -> AnyClient] /\ \A e \in Clients : cl'[e] = cl[e] \/ ClientMoves(e)
    BY <1>0, <1>1, <2>1, <2>5, HasAnswer
  <2>7. ServiceTyped'
    BY <2>1, <2>4, <2>6 DEF ServiceInv, ServiceTyped
  <2> QED BY <2>1, <2>4, <2>6, <2>7, MovesKeep DEF PathMoves
<1>7. CASE HandlerSample(c)
  <2> DEFINE r == [svc[s] EXCEPT !.lock = c, !.hides = narrow, !.took = 0]
  <2>1. /\ r \in AnyService /\ TakeLock(s, c) = [svc EXCEPT ![s] = r] /\ r.pc = svc[s].pc
        /\ r.latest = svc[s].latest /\ r.behind = svc[s].behind /\ r.due = svc[s].due /\ TookBy(r) = Took(s)
    BY <1>0, <1>1, TakenLock
  <2>2. svc' = [svc EXCEPT ![s] = r] /\ cl' = cl /\ path' = path /\ latest' = latest /\ narrow' = narrow
    BY <1>7, <2>1 DEF HandlerSample
  <2> HIDE DEF r
  <2> QED BY <1>0, <1>1, <1>3, <2>1, <2>2, ServiceAlone
<1> QED BY <1>4, <1>5, <1>6, <1>7

\* A sample that was made for a request.
LEMMA HandlerKeeps ==
  ASSUME ServiceInv, NEW s \in Services, HandlerSampled(s) PROVE ServiceInv'
<1> DEFINE c == svc[s].lock
           r == SampledBy(s)
           sample == SampleAs(EnvOf(s), svc[s].hides)
<1>1. c \in Clients /\ c # NoOne /\ Sampled(s) /\ path' = path /\ narrow' = narrow
  BY ServiceConstants DEF HandlerSampled
<1>2. /\ r \in AnyService /\ svc' = [svc EXCEPT ![s] = r] /\ r.pc \in Started /\ r.latest.age = 0 /\ r.latest = sample
      /\ latest' \in AnySample /\ svc[s].pc \in Started
  BY <1>1, SampledIs
<1>3. r.pc \notin Starting /\ svc[s].pc # "off"
  BY <1>2, LocationsAre DEF Starting
<1>4. sample \in AnySample /\ sample.age = 0
  BY ServiceFields, SamplesAre DEF ServiceInv
<1>5. cl' = IF cl[c].to = s /\ Asking(c) THEN Answered(c, sample) ELSE cl
  BY DEF HandlerSampled
<1> HIDE DEF r, sample, c
<1>6. svc' \in [Services -> AnyService] /\ \A t \in Services : svc'[t] = svc[t] \/ ServiceMoves(t)
  BY <1>2, <1>3, ServiceChanged
<1>7. cl' \in [Clients -> AnyClient] /\ \A e \in Clients : cl'[e] = cl[e] \/ ClientMoves(e)
  <2>1. CASE cl[c].to = s /\ Asking(c)
    BY <1>1, <1>4, <1>5, <2>1, ServiceConstants, HasAnswer
  <2>2. CASE ~(cl[c].to = s /\ Asking(c))
    BY <1>5, <2>2 DEF ServiceInv, ServiceTyped
  <2> QED BY <2>1, <2>2
<1>8. ServiceTyped'
  BY <1>1, <1>2, <1>6, <1>7 DEF ServiceInv, ServiceTyped
<1> QED BY <1>1, <1>6, <1>7, <1>8, MovesKeep DEF PathMoves

\* Steps of a client that change nothing but itself.
LEMMA ClientKeeps ==
  ASSUME ServiceInv, NEW c \in Clients,
         \/ Connect(c) \/ GiveUp(c) \/ ReadCache(c) \/ CheckSpawn(c) \/ PollSampler(c) \/ Report(c) \/ KillClient(c)
  PROVE  ServiceInv'
<1>0. /\ cl[c] \in AnyClient /\ cl[c].pc \in ClientPCs /\ cl[c].env \in Envs /\ c \in Services /\ c # NoOne
      /\ path \in Holders /\ latest \in AnySample /\ narrow \in Flags /\ svc' = svc /\ path' = path /\ latest' = latest
      /\ narrow' = narrow
  BY ServiceFields, ServiceConstants
     DEF ServiceInv, ServiceTyped, Connect, GiveUp, ReadCache, CheckSpawn, PollSampler, Report, KillClient
<1> SUFFICES cl' \in [Clients -> AnyClient] /\ \A e \in Clients : cl'[e] = cl[e] \/ ClientMoves(e)
  BY <1>0, ClientAlone
<1>1. ASSUME cl[c].pc \in {"ask", "ask2"} \cup Requests
      PROVE  /\ Fallback(c) \in {"down2", "cache", "check"} /\ Fallback(c) \in ClientPCs
             /\ Fallback(c) \in Alone => cl[c].pc \in Alone
             /\ cl[c].pc \in Unanswered
  BY <1>1 DEF Fallback, Requests, ClientPCs, Unanswered, Alone
<1>2. CASE Connect(c)
  <2>1. cl[c].pc \in {"ask", "ask2"}
    BY <1>2 DEF Connect
  <2>2. CASE StaleSocket
    <3>1. cl' = GoTo(c, Fallback(c))
      BY <1>2, <2>2 DEF Connect
    <3> QED BY <1>1, <2>1, <3>1, GoesOn
  <2>3. CASE ~StaleSocket
    <3> DEFINE pc == IF cl[c].pc = "ask" THEN "asked" ELSE "asked2"
               d == [cl[c] EXCEPT !.to = path, !.pc = pc]
    <3>1. cl' = [cl EXCEPT ![c] = d]
      BY <1>2, <2>3 DEF Connect
    <3>2. path # NoOne /\ svc[path].pc \in Started
      BY <2>3 DEF StaleSocket, Serving, Started
    <3>3. /\ pc \in Requests /\ pc \in ClientPCs /\ (pc \in Alone => cl[c].pc \in Alone) /\ pc \in Unanswered
          /\ pc \notin {"poll", "ask2", "down1", "down2", "wait", "check"} /\ cl[c].pc \in Unanswered
      BY <2>1 DEF Requests, Alone, Unanswered, ClientPCs
    <3> HIDE DEF pc
    <3>4. d \in AnyClient
      BY <1>0, <3>3 DEF AnyClient
    <3>5. d.pc = pc /\ d.to = path /\ d.ans = cl[c].ans /\ d.excused = cl[c].excused
      BY <1>0 DEF AnyClient
    <3>6. cl[c].ans = NoSample /\ ~cl[c].excused
      BY <3>3 DEF ServiceInv, AnswerIsRecent
    <3>7. path = c => Asks(c)
      <4>1. cl[c].pc = "ask" => svc[c].pc = "off"
        BY DEF ServiceInv, NotServing, Alone
      <4>2. path = c => cl[c].pc # "ask"
        BY <3>2, <4>1 DEF Started
      <4> QED BY <2>1, <4>2 DEF Asks
    <3> HIDE DEF d
    <3> QED BY <1>0, <3>1, <3>2, <3>3, <3>4, <3>5, <3>6, <3>7, ClientChanged
  <2> QED BY <2>2, <2>3
<1>3. CASE GiveUp(c)
  <2>1. cl[c].pc \in Requests /\ cl' = GoTo(c, Fallback(c))
    BY <1>3 DEF GiveUp, Asking, Loaded, Requests
  <2> QED BY <1>1, <2>1, GoesOn
<1>4. CASE ReadCache(c)
  <2>1. cl[c].pc = "cache"
    BY <1>4 DEF ReadCache
  <2>2. CASE CachedLatest(c)
    <3> DEFINE d == [cl[c] EXCEPT !.pc = "check", !.to = NoOne, !.val = NoSample, !.ans = latest]
    <3>1. cl' = [cl EXCEPT ![c] = d]
      BY <1>4, <2>2 DEF ReadCache, GoTo
    <3>2. d \in AnyClient
      BY <1>0, SamplesAre, ServiceConstants DEF AnyClient, ClientPCs
    <3>3. d.pc = "check" /\ d.to = NoOne /\ d.ans = latest
      BY <1>0 DEF AnyClient
    <3>4. latest.age <= Interval
      BY <2>2 DEF CachedLatest
    <3>5. "check" \notin Alone /\ "check" \notin Unanswered
      BY DEF Alone, Unanswered
    <3> HIDE DEF d
    <3> QED BY <1>0, <3>1, <3>2, <3>3, <3>4, <3>5, ClientChanged
  <2>3. CASE ~CachedLatest(c)
    <3>1. cl' = GoTo(c, "spawn")
      BY <1>4, <2>3 DEF ReadCache
    <3>2. "spawn" \in ClientPCs /\ cl[c].pc \in Alone /\ cl[c].pc \in Unanswered
      BY <2>1 DEF ClientPCs, Unanswered, Alone
    <3> QED BY <3>1, <3>2, GoesOn
  <2> QED BY <2>2, <2>3
<1>5. CASE CheckSpawn(c)
  <2>1. cl[c].pc = "spawn" /\ cl' = GoTo(c, "unlink")
    BY <1>5 DEF CheckSpawn
  <2>2. "unlink" \in ClientPCs /\ cl[c].pc \in Alone /\ cl[c].pc \in Unanswered
    BY <2>1 DEF ClientPCs, Unanswered, Alone
  <2> QED BY <2>1, <2>2, GoesOn
<1>6. CASE PollSampler(c)
  <2> DEFINE pc == IF Up(c) THEN "ask2" ELSE "check"
  <2>1. cl[c].pc = "poll" /\ cl' = GoTo(c, pc)
    BY <1>6 DEF PollSampler
  <2>2. pc \in ClientPCs /\ pc \notin Alone /\ cl[c].pc \in Unanswered
    BY <2>1 DEF ClientPCs, Unanswered, Alone
  <2>3. path' = c => Asks(c)
    BY <1>0, <2>1 DEF Asks
  <2> HIDE DEF pc
  <2> QED BY <2>1, <2>2, <2>3, GoesOn
<1>7. CASE Report(c)
  <2> DEFINE answer == IF Usable(c) THEN cl[c].ans ELSE SampleAs(cl[c].env, narrow)
             d == [cl[c] EXCEPT !.pc = "done", !.ans = answer]
  <2>1. cl' = [cl EXCEPT ![c] = d] /\ cl[c].pc = "check"
    BY <1>7 DEF Report
  <2>2. answer \in AnySample
    BY <1>0, SamplesAre, ServiceFields DEF ServiceInv
  <2>3. "done" \in ClientPCs /\ "done" \notin Alone /\ "done" \notin Unanswered /\ "check" \notin Requests
    BY DEF ClientPCs, Alone, Unanswered, Requests
  <2> HIDE DEF answer
  <2>4. d \in AnyClient
    BY <1>0, <2>2, <2>3 DEF AnyClient
  <2>5. d.pc = "done" /\ d.to = cl[c].to
    BY <1>0 DEF AnyClient
  <2>6. cl[c].to = NoOne
    BY <2>1, <2>3 DEF ServiceInv, NotServing
  <2> HIDE DEF d
  <2> QED BY <1>0, <2>1, <2>3, <2>4, <2>5, <2>6, ClientChanged
<1>8. CASE KillClient(c)
  <2>1. cl' = GoTo(c, "dead")
    BY <1>8 DEF KillClient
  <2>2. "dead" \in ClientPCs /\ "dead" \notin Alone
    BY DEF ClientPCs, Alone
  <2> QED BY <2>1, <2>2, GoesOn
<1> QED BY <1>2, <1>3, <1>4, <1>5, <1>6, <1>7, <1>8

\* A client starts its sampler.
LEMMA SpawnKeeps ==
  ASSUME ServiceInv, NEW c \in Clients, Spawn(c) PROVE ServiceInv'
<1> DEFINE r == [OffService EXCEPT !.pc = "boot"]
<1>1. /\ path' \in {path, NoOne} /\ svc' = [svc EXCEPT ![c] = r] /\ cl' = GoTo(c, "poll")
      /\ latest' = latest /\ narrow' = narrow /\ cl[c].pc \in {"spawn", "unlink"}
  BY DEF Spawn
<1>2. r \in AnyService /\ r.pc = "boot" /\ r.latest = NoSample /\ r.lock = NoOne
  BY OffIs DEF OffService
<1>3. c \in Services /\ cl[c] \in AnyClient
  BY ServiceConstants, ServiceFields DEF ServiceInv
<1>4. svc[c].pc = "off" /\ "off" \notin Started /\ cl[c].pc \in Unanswered
  BY <1>1 DEF ServiceInv, NotServing, Alone, Started, Unanswered
<1>5. "poll" \in ClientPCs /\ "poll" \notin Alone
  BY DEF ClientPCs, Unanswered, Alone
<1>6. cl'[c].pc = "poll"
  BY <1>1, <1>3 DEF GoTo, AnyClient, ServiceInv, ServiceTyped
<1> HIDE DEF r
<1>7. svc' \in [Services -> AnyService] /\ \A t \in Services : svc'[t] = svc[t] \/ ServiceMoves(t)
  BY <1>1, <1>2, <1>3, <1>4, <1>5, <1>6, ServiceChanged
<1>8. InTime(c)'
  <2>1. svc'[c] = r
    BY <1>1, <1>2, <1>3, ServiceChanges DEF ServiceInv
  <2> QED BY <1>2, <2>1 DEF InTime
<1>9. cl' \in [Clients -> AnyClient] /\ \A e \in Clients : cl'[e] = cl[e] \/ ClientMoves(e)
  BY <1>1, <1>4, <1>5, <1>8, GoesOn
<1>10. ServiceTyped'
  BY <1>1, <1>7, <1>9, ServiceConstants DEF ServiceInv, ServiceTyped
<1> QED BY <1>1, <1>7, <1>9, <1>10, MovesKeep DEF PathMoves

\* A client ends whoever serves, then its own sampler.
LEMMA ShutdownKeeps ==
  ASSUME ServiceInv, NEW c \in Clients, AskShutdown(c) \/ WaitForEnd(c) PROVE ServiceInv'
<1>1. path' = path /\ latest' = latest /\ narrow' = narrow /\ path \in Holders /\ c \in Services /\ cl[c] \in AnyClient
  BY ServiceConstants, ServiceFields DEF ServiceInv, ServiceTyped, AskShutdown, WaitForEnd
<1>2. svc' \in [Services -> AnyService] /\ \A t \in Services : svc'[t] = svc[t] \/ ServiceMoves(t)
  <2>1. Serving(path) => path \in Services
    BY <1>1 DEF Serving, Holders
  <2>2. svc' = svc => svc' \in [Services -> AnyService]
    BY DEF ServiceInv, ServiceTyped
  <2> QED BY <1>1, <2>1, <2>2, Told DEF AskShutdown, WaitForEnd
<1>3. PICK pc \in {"down2", "wait", "check"} :
         cl' = [cl EXCEPT ![c].pc = pc] /\ cl[c].pc \in {"down1", "down2", "wait"}
  BY DEF AskShutdown, WaitForEnd
<1> DEFINE d == [cl[c] EXCEPT !.pc = pc]
<1>4. pc \in ClientPCs /\ pc \notin Alone /\ pc \notin Unanswered
  BY DEF ClientPCs, Alone, Unanswered
<1>5. d \in AnyClient /\ cl' = [cl EXCEPT ![c] = d]
  BY <1>1, <1>3, <1>4 DEF AnyClient
<1>6. d.pc = pc /\ d.to = cl[c].to /\ d.ans = cl[c].ans /\ d.excused = cl[c].excused
  BY <1>1 DEF AnyClient
<1>7. cl[c].to = NoOne
  BY <1>3 DEF ServiceInv, NotServing, Requests
<1>8. ~cl[c].excused /\ cl[c].ans # NoSample => cl[c].ans.age <= Interval
  BY <1>3 DEF ServiceInv, AnswerIsRecent
<1>9. c # NoOne
  BY <1>1, ServiceConstants
<1> HIDE DEF d
<1>10. cl' \in [Clients -> AnyClient] /\ \A e \in Clients : cl'[e] = cl[e] \/ ClientMoves(e)
  BY <1>4, <1>5, <1>6, <1>7, <1>8, <1>9, ClientChanged
<1>11. ServiceTyped'
  BY <1>1, <1>2, <1>10 DEF ServiceInv, ServiceTyped
<1> QED BY <1>1, <1>2, <1>10, <1>11, MovesKeep DEF PathMoves

-----------------------------------------------------------------------------
(* Time, and the result *)

\* A service grows older by at most what is left of the interval, or of the sample it makes.
LEMMA OlderService ==
  ASSUME ServiceInv, ServiceTick, NEW s \in Services
  PROVE  /\ svc'[s] \in AnyService /\ svc'[s].pc = svc[s].pc /\ svc'[s].lock = svc[s].lock
         /\ svc'[s].behind = svc[s].behind /\ svc'[s].latest = Older(svc[s].latest)
         /\ svc'[s].took = (IF svc[s].lock # NoOne THEN svc[s].took + 1 ELSE svc[s].took)
         /\ svc'[s].due = (IF svc[s].due > 0 /\ svc[s].lock = NoOne THEN svc[s].due - 1 ELSE svc[s].due)
<1> DEFINE took == IF svc[s].lock # NoOne THEN svc[s].took + 1 ELSE svc[s].took
           due == IF svc[s].due > 0 /\ svc[s].lock = NoOne THEN svc[s].due - 1 ELSE svc[s].due
           old == Older(svc[s].latest)
<1>1. svc[s] \in AnyService /\ svc[s].took \in Nat /\ svc[s].due \in 0 .. Interval /\ svc[s].latest \in AnySample
  BY ServiceFields DEF ServiceInv
<1>2. took \in Nat /\ due \in 0 .. Interval /\ old \in AnySample
  BY <1>1, SamplesAre, ServiceConstants
<1>3. svc'[s] = [svc[s] EXCEPT !.latest = old, !.due = due, !.took = took]
  BY DEF ServiceTick
<1> HIDE DEF took, due, old
<1>4. svc'[s] \in AnyService
  BY <1>1, <1>2, <1>3 DEF AnyService
<1>5. /\ svc'[s].pc = svc[s].pc /\ svc'[s].lock = svc[s].lock /\ svc'[s].behind = svc[s].behind
      /\ svc'[s].latest = old /\ svc'[s].took = took /\ svc'[s].due = due
  BY <1>1, <1>3 DEF AnyService
<1> QED BY <1>4, <1>5 DEF took, due, old

\* Time changes nothing of a client but the ages of its samples.
LEMMA OlderClient ==
  ASSUME ServiceInv, ServiceTick, NEW c \in Clients
  PROVE  /\ cl'[c] \in AnyClient /\ cl'[c].pc = cl[c].pc /\ cl'[c].to = cl[c].to /\ cl'[c].excused = cl[c].excused
         /\ cl[c].ans = NoSample => cl'[c].ans = NoSample
<1>1. cl[c] \in AnyClient /\ Older(cl[c].val) \in AnySample /\ Older(cl[c].ans) \in AnySample
  BY ServiceFields, SamplesAre DEF ServiceInv
<1>2. cl'[c] = cl[c] \/ cl'[c] = [cl[c] EXCEPT !.val = Older(cl[c].val), !.ans = Older(cl[c].ans)]
  BY DEF ServiceTick
<1>3. cl[c].ans = NoSample => Older(cl[c].ans) = NoSample
  BY SamplesAre
<1> DEFINE d == [cl[c] EXCEPT !.val = Older(cl[c].val), !.ans = Older(cl[c].ans)]
<1>4. d \in AnyClient
  BY <1>1 DEF AnyClient
<1>5. d.pc = cl[c].pc /\ d.to = cl[c].to /\ d.excused = cl[c].excused /\ d.ans = Older(cl[c].ans)
  BY <1>1 DEF AnyClient
<1> HIDE DEF d
<1> QED BY <1>1, <1>2, <1>3, <1>4, <1>5 DEF d

\* Time passes only while a sample is made or due, so no answer grows too old.
LEMMA TickKeeps ==
  ASSUME ServiceInv, ServiceTick PROVE ServiceInv'
<1>0. path' = path /\ narrow' = narrow /\ latest' = Older(latest) /\ path \in Holders /\ latest \in AnySample
  BY DEF ServiceTick, ServiceInv, ServiceTyped
<1>1. svc' \in [Services -> AnyService]
  <2>1. \A s \in Services : svc'[s] \in AnyService
    BY OlderService
  <2> QED BY <2>1 DEF ServiceTick
<1>2. cl' \in [Clients -> AnyClient]
  <2>1. \A c \in Clients : cl'[c] \in AnyClient
    BY OlderClient
  <2> QED BY <2>1 DEF ServiceTick
<1>3. ServiceTyped'
  BY <1>0, <1>1, <1>2, SamplesAre DEF ServiceInv, ServiceTyped
<1>4. ASSUME NEW s \in Services
      PROVE  /\ svc[s].latest = NoSample => svc'[s].latest = NoSample
             /\ svc'[s].latest.age <= svc[s].latest.age + 1 /\ svc'[s].latest.age \in Nat /\ svc[s].latest.age \in Nat
             /\ svc[s].took \in Nat /\ svc[s].due \in 0 .. Interval
             /\ svc[s].lock # NoOne => Took(s)' = Took(s) + 1
             /\ svc[s].lock = NoOne => Took(s)' = 0 /\ Took(s) = 0
  <2>1. svc[s].latest \in AnySample /\ svc[s].latest.age \in Nat /\ svc[s].took \in Nat /\ svc[s].due \in 0 .. Interval
    BY ServiceFields DEF ServiceInv
  <2>2. svc'[s].latest = Older(svc[s].latest) /\ Older(svc[s].latest) \in AnySample
        /\ Older(svc[s].latest).age <= svc[s].latest.age + 1
    BY <2>1, OlderService, SamplesAre
  <2>3. Older(svc[s].latest).age \in Nat
    BY <2>2 DEF AnySample
  <2>4. /\ svc[s].lock # NoOne => Took(s)' = Took(s) + 1
        /\ svc[s].lock = NoOne => Took(s)' = 0 /\ Took(s) = 0
    BY OlderService DEF Took
  <2> QED BY <2>1, <2>2, <2>3, <2>4, SamplesAre
<1>5. SamplesAgain'
  <2> DEFINE s == Continuous
  <2>0. s \in Services /\ Interval \in Nat
    BY ServiceConstants
  <2> HIDE DEF s
  <2>1. SUFFICES ASSUME ~svc[s].behind, svc[s].latest # NoSample
                 PROVE  svc'[s].latest.age + svc'[s].due <= Interval + Took(s)'
    BY <2>0, <1>4, OlderService DEF SamplesAgain, s
  <2>2. svc[s].latest.age + svc[s].due <= Interval + Took(s)
    BY <2>1 DEF s, ServiceInv, SamplesAgain
  <2>3. CASE svc[s].lock # NoOne
    <3>1. svc'[s].due = svc[s].due /\ Took(s)' = Took(s) + 1 /\ Took(s) \in Nat
      BY <1>4, <2>0, <2>3, OlderService DEF Took
    <3> QED BY <1>4, <2>0, <2>2, <3>1
  <2>4. CASE svc[s].lock = NoOne
    <3>1. svc[s].pc \in Started
      BY <2>0, <2>1, ServiceFields DEF ServiceInv, NotServing
    <3>2. svc[s].pc = "idle" /\ svc[s].due > 0
      BY <2>0, <2>4, <3>1 DEF ServiceTick, Started, s
    <3>3. svc'[s].due = svc[s].due - 1
      BY <2>0, <2>4, <3>2, OlderService
    <3> QED BY <1>4, <2>0, <2>2, <2>4, <3>3
  <2> QED BY <2>3, <2>4
<1>6. ASSUME NEW s \in Services, s \in Clients, Asks(s) PROVE InTime(s)'
  <2>1. svc[s].lock # NoOne
    <3>1. Waiting(s) /\ svc[s].pc # "closing"
      BY <1>6 DEF ServiceTick
    <3>2. CASE cl[s].to = s
      <4>1. cl[s].pc \in Requests
        BY <1>6, <3>2, ServiceConstants DEF ServiceInv, NotServing
      <4> QED BY <3>1, <3>2, <4>1 DEF Waiting, Requests
    <3>3. CASE cl[s].to # s /\ cl[s].pc \in {"poll", "ask2"} /\ path = s
      <4>1. svc[s].pc \in Started
        BY <1>6, <3>3, ServiceConstants DEF ServiceInv, NotServing
      <4>2. Serving(path)
        BY <1>6, <3>1, <3>3, <4>1, ServiceConstants DEF Serving, Started
      <4> QED BY <3>1, <3>3, <4>2 DEF Waiting, StaleSocket, Asking, Loaded
    <3> QED BY <1>6, <3>2, <3>3 DEF Asks
  <2>2. Took(s)' = Took(s) + 1 /\ Took(s) \in Nat
    BY <1>4, <2>1 DEF Took
  <2>3. InTime(s)
    BY <1>6 DEF ServiceInv, AskedAtOnce
  <2>4. SUFFICES ASSUME ~svc[s].behind, svc[s].latest # NoSample PROVE svc'[s].latest.age <= Took(s)'
    BY <1>4, OlderService DEF InTime
  <2>5. svc[s].latest.age <= Took(s)
    BY <2>3, <2>4 DEF InTime
  <2> QED BY <1>4, <2>2, <2>5
<1>7. ASSUME NEW s \in Services PROVE ServiceMoves(s)
  <2>1. svc'[s].pc = svc[s].pc /\ svc'[s].lock = svc[s].lock
    BY OlderService
  <2>2. svc[s].pc \in Starting => svc'[s].latest = NoSample /\ svc'[s].lock = NoOne
    BY <1>4, <2>1 DEF ServiceInv, NotServing
  <2> QED BY <1>5, <1>6, <2>1, <2>2 DEF ServiceMoves
<1>8. ASSUME NEW c \in Clients PROVE ClientMoves(c)
  <2>1. /\ cl'[c].pc = cl[c].pc /\ cl'[c].to = cl[c].to /\ cl'[c].excused = cl[c].excused
        /\ cl[c].ans = NoSample => cl'[c].ans = NoSample
    BY OlderClient
  <2>2. cl[c].pc \notin {"down1", "down2", "wait", "check"}
    BY DEF ServiceTick, Waiting, Asking, Loaded
  <2>3. cl[c].to # NoOne => cl[c].pc \in Requests
    BY DEF ServiceInv, NotServing
  <2>4. cl[c].pc \in Unanswered => cl[c].ans = NoSample /\ ~cl[c].excused
    BY DEF ServiceInv, AnswerIsRecent
  <2>5. Asks(c)' => Asks(c)
    BY <1>0, <2>1 DEF Asks
  <2> QED BY <2>1, <2>2, <2>3, <2>4, <2>5 DEF ClientMoves
<1> QED BY <1>0, <1>3, <1>7, <1>8, MovesKeep DEF PathMoves

\* Every step preserves the invariant.
LEMMA ServiceSteps == ServiceInv /\ [ServiceNext]_svars => ServiceInv'
<1> SUFFICES ASSUME ServiceInv, [ServiceNext]_svars PROVE ServiceInv'
  OBVIOUS
<1>1. CASE UNCHANGED svars
  BY <1>1 DEF svars, ServiceInv, ServiceTyped, NotServing, SamplesAgain, AskedAtOnce, AnswerIsRecent, Asks, InTime, Took
<1>2. CASE \E s \in Services : ServiceStep(s)
  BY <1>2, ServiceKeeps, ExitKeeps, HandlerKeeps DEF ServiceStep
<1>3. CASE \E c \in Clients : ClientStep(c) \/ KillClient(c)
  BY <1>3, ClientKeeps, SpawnKeeps, ShutdownKeeps, RequestsKeep DEF ClientStep
<1>4. CASE StartService \/ StopService \/ EditConfig
  BY <1>4, OthersKeep
<1>5. CASE ServiceTick
  BY <1>5, TickKeeps
<1> QED BY <1>1, <1>2, <1>3, <1>4, <1>5 DEF ServiceNext

\* In every behaviour nothing leads to a service that does not serve, the continuous
\* service samples again in time, and an answer is recent when it arrives (run_service,
\* UsageSampler.snapshot, request_snapshot, start_ephemeral_service).
THEOREM ServiceInvHolds == ServiceSpec => []ServiceInv
BY ServiceStarts, ServiceSteps, PTL DEF ServiceSpec

\* Only a report ends a client that is not killed.
LEMMA OnlyReportEnds ==
  ASSUME ServiceInv, ServiceNext, NEW c \in Clients, cl[c].pc # "done", cl'[c].pc = "done" PROVE Report(c)
<1>0. cl \in [Clients -> AnyClient] /\ \A e \in Clients : cl[e] \in AnyClient
  BY DEF ServiceInv, ServiceTyped
<1>1. ASSUME NEW d \in Clients, NEW pc, pc # "done", cl' = GoTo(d, pc) PROVE FALSE
  BY <1>0, <1>1 DEF GoTo, AnyClient
<1>2. ASSUME NEW d \in Clients, NEW sample, cl' = Answered(d, sample) PROVE FALSE
  BY <1>0, <1>2 DEF Answered, AnyClient
<1>3. ASSUME NEW d \in Clients, NEW pc, pc # "done", cl' = [cl EXCEPT ![d].pc = pc] PROVE FALSE
  BY <1>0, <1>3 DEF AnyClient
<1>4. cl' # cl
  OBVIOUS
<1>5. ASSUME NEW s \in Services, ServiceStep(s) PROVE FALSE
  <2>1. CASE Exit(s)
    BY <1>0, <2>1 DEF Exit, AnyClient
  <2>2. CASE HandlerSampled(s)
    <3>1. svc[s].lock \in Clients
      BY <2>2 DEF HandlerSampled
    <3> QED BY <1>2, <1>4, <2>2, <3>1 DEF HandlerSampled
  <2> QED BY <1>4, <1>5, <2>1, <2>2 DEF ServiceStep, CheckSocket, UnlinkStale, Bind, BeginSample, EndSample, FailSample, SeeStop
<1>6. ASSUME NEW d \in Clients, ClientStep(d) \/ KillClient(d) PROVE Report(c)
  <2>1. Fallback(d) # "done"
    BY DEF Fallback
  <2>2. ~GiveUp(d) /\ ~CheckSpawn(d) /\ ~Spawn(d) /\ ~PollSampler(d) /\ ~KillClient(d)
    BY <1>1, <2>1 DEF GiveUp, CheckSpawn, Spawn, PollSampler, KillClient
  <2>3. ~Connect(d)
    <3>1. ASSUME NEW d2, cl' = [cl EXCEPT ![d].to = path, ![d].pc = d2], d2 # "done" PROVE FALSE
      BY <1>0, <3>1 DEF AnyClient
    <3>2. Connect(d) => \/ cl' = GoTo(d, Fallback(d))
                        \/ \E pc \in {"asked", "asked2"} : cl' = [cl EXCEPT ![d].to = path, ![d].pc = pc]
      BY DEF Connect
    <3> QED BY <1>1, <2>1, <3>1, <3>2
  <2>4. ~ReadCache(d)
    <3>1. ReadCache(d) => \/ cl' = GoTo(d, "spawn")
                          \/ cl' = [cl EXCEPT ![d] = [cl[d] EXCEPT !.pc = "check", !.to = NoOne, !.val = NoSample, !.ans = latest]]
      BY DEF ReadCache, GoTo
    <3>2. ASSUME cl' = [cl EXCEPT ![d] = [cl[d] EXCEPT !.pc = "check", !.to = NoOne, !.val = NoSample, !.ans = latest]]
          PROVE FALSE
      BY <1>0, <3>2 DEF AnyClient
    <3> QED BY <1>1, <3>1, <3>2
  <2>5. ~AnswerLatest(d) /\ ~StoreLoaded(d) /\ ~HandlerSample(d)
    BY <1>2, <1>4 DEF AnswerLatest, StoreLoaded, HandlerSample
  <2>6. ~LoadFile(d)
    BY <1>0 DEF LoadFile, AnyClient
  <2>7. ~AskShutdown(d) /\ ~WaitForEnd(d)
    BY <1>3 DEF AskShutdown, WaitForEnd
  <2>8. Report(d)
    BY <1>6, <2>2, <2>3, <2>4, <2>5, <2>6, <2>7 DEF ClientStep
  <2>9. d = c
    BY <1>0, <2>8 DEF Report
  <2> QED BY <2>8, <2>9
<1>7. ~StartService /\ ~StopService /\ ~EditConfig
  BY <1>4 DEF StartService, StopService, EditConfig
<1>8. ~ServiceTick
  BY OlderClient
<1> QED BY <1>5, <1>6, <1>7, <1>8 DEF ServiceNext

\* What any client shows is of its own environment, hides no provider that is to be
\* shown, and is no older than an interval unless its service is behind or another
\* client's (service_payload_matches_environment, _service_hid_visible_provider,
\* UsageSampler.snapshot, _cached_latest_snapshot).
THEOREM ReportIsRightHolds == ServiceSpec => ReportIsRight
<1>1. ASSUME ServiceInv, [ServiceNext]_svars
      PROVE  [\A c \in Clients : cl[c].pc # "done" /\ cl'[c].pc = "done" =>
                 /\ cl'[c].ans.env = cl[c].env
                 /\ cl'[c].ans.hidden => narrow
                 /\ ~cl'[c].excused => cl'[c].ans.age <= Interval]_svars
  <2> SUFFICES ASSUME ServiceNext, NEW c \in Clients, cl[c].pc # "done", cl'[c].pc = "done"
               PROVE  /\ cl'[c].ans.env = cl[c].env
                      /\ cl'[c].ans.hidden => narrow
                      /\ ~cl'[c].excused => cl'[c].ans.age <= Interval
    BY <1>1
  <2>1. Report(c)
    BY <1>1, OnlyReportEnds
  <2>2. cl[c] \in AnyClient /\ cl \in [Clients -> AnyClient]
    BY <1>1 DEF ServiceInv, ServiceTyped
  <2>3. /\ cl'[c].excused = cl[c].excused /\ cl[c].pc = "check"
        /\ cl'[c].ans = (IF Usable(c) THEN cl[c].ans ELSE SampleAs(cl[c].env, narrow))
    BY <2>1, <2>2 DEF Report, AnyClient
  <2>4. CASE Usable(c)
    <3>1. cl[c].ans # NoSample /\ cl[c].ans.env = cl[c].env /\ (cl[c].ans.hidden => narrow)
      BY <2>4 DEF Usable, Matches
    <3>2. ~cl[c].excused => cl[c].ans.age <= Interval
      BY <1>1, <2>3, <3>1 DEF ServiceInv, AnswerIsRecent
    <3> QED BY <2>3, <2>4, <3>1, <3>2
  <2>5. CASE ~Usable(c)
    BY <2>3, <2>5, ServiceConstants DEF SampleAs
  <2> QED BY <2>4, <2>5
<1> QED BY <1>1, ServiceInvHolds, PTL DEF ServiceSpec, ReportIsRight

=============================================================================

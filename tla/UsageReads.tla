----------------------------- MODULE UsageReads -----------------------------
(***************************************************************************)
(* How several processes on one machine read the usage of one account:     *)
(* the shared snapshot (common.shared_usage_snapshot) around the provider  *)
(* reader (read_claude, read_codex), which asks the provider, keeps its    *)
(* answer in a cache file, backs off after a 429, renews an expired OAuth  *)
(* token, and falls back to what is on disk.                               *)
(*                                                                         *)
(* A sample is known by its age and by whether a window it reports is   *)
(* still running or has been renewed since.  Ages are capped at values     *)
(* older than any limit the readers compare with.                          *)
(***************************************************************************)
EXTENDS Integers

CONSTANTS
    Readers,        \* processes that read the usage
    None,           \* no reader
    MaxAge,         \* LLM_USAGE_LOCAL_SNAPSHOT_MAX_AGE
    RateLimitAge,   \* LLM_USAGE_CLAUDE_RATE_LIMIT_CACHE_MAX_AGE
    SharedAge,      \* SHARED_READ_MAX_AGE_SECONDS
    Cooldown,       \* DEFAULT_CLAUDE_USAGE_COOLDOWN_SECONDS
    MaxDelay,       \* LLM_USAGE_LIVE_FETCH_RETRY_MAX_DELAY
    RetryAfters,    \* the Retry-After values the endpoint answers with
    Attempts,       \* LLM_USAGE_LIVE_FETCH_RETRIES + 1
    Recoveries,     \* LLM_USAGE_STALE_RECOVERY_ATTEMPTS
    LockWait        \* SHARED_SNAPSHOT_LOCK_WAIT_SECONDS

AgeCap == SharedAge + RateLimitAge

ASSUME UsageAssumption ==
    /\ None \notin Readers
    /\ {MaxAge, RateLimitAge, SharedAge, Cooldown, Attempts} \subseteq Nat \ {0}
    /\ {MaxDelay, Recoveries, LockWait} \subseteq Nat
    /\ RetryAfters \subseteq Nat
    /\ MaxAge <= RateLimitAge

VARIABLES
    provider,   \* "claude" or "codex"
    signedIn,   \* credentials (and the CLI) are there
    cache,      \* claude-usage-api.json or codex-usage-api.json
    cooldown,   \* what is left of claude-usage-api-rate-limit.json
    stored,     \* the OAuth token in .credentials.json, 0 or its successor 1
    token,      \* the OAuth token the service accepts
    expired,    \* its access token has run out (once: at the start)
    flock,      \* holder of claude-usage-api.lock
    shared,     \* <provider>.json of the shared snapshots
    sharedLock, \* holder of <provider>.lock
    rd,         \* the readers
    lost        \* a reader died before it could save the token it was issued

files == <<cache, cooldown, stored, shared>>
service == <<token, expired>>
locks == <<flock, sharedLock>>
vars == <<provider, signedIn, files, service, locks, rd, lost>>

Absent == [kind |-> "none", age |-> 0, active |-> FALSE]
Marker(reason) == [Absent EXCEPT !.kind = reason]
Sample(age, active) == [kind |-> "sample", age |-> age, active |-> active]
Samples == [kind : {"sample"}, age : 0 .. AgeCap, active : BOOLEAN]
Results == {Absent} \cup Samples \cup
           {Marker(k) : k \in {"stale-usage", "rate-limited", "unavailable"}}

NothingShared == [age |-> SharedAge, res |-> Absent]
IdleReader == [pc |-> "idle", tries |-> 0, net |-> 0, honoured |-> FALSE, wait |-> 0,
               token |-> 0, renewed |-> FALSE, res |-> Absent]

TypeOK ==
    /\ provider \in {"claude", "codex"} /\ signedIn \in BOOLEAN
    /\ cache \in {Absent} \cup Samples
    /\ cooldown \in Nat
    /\ {stored, token} \subseteq {0, 1} /\ expired \in BOOLEAN
    /\ {flock, sharedLock} \subseteq Readers \cup {None}
    /\ shared \in [age : 0 .. SharedAge, res : Results]
    /\ rd \in [Readers -> [pc : {"idle", "queue", "api", "fetch", "backoff", "token",
                                 "save", "again", "return"},
                           tries : 0 .. Recoveries, net : 0 .. Attempts, honoured : BOOLEAN,
                           wait : Nat, token : {0, 1},
                           renewed : BOOLEAN, res : Results]]
    /\ lost \in BOOLEAN

Init ==
    /\ provider \in {"claude", "codex"} /\ signedIn \in BOOLEAN
    /\ cache = Absent /\ cooldown = 0
    /\ stored = 0 /\ token = 0
    /\ expired \in {FALSE, provider = "claude" /\ signedIn}
    /\ flock = None /\ sharedLock = None /\ shared = NothingShared
    /\ rd = [r \in Readers |-> IdleReader]
    /\ lost = FALSE

At(r, pc) == rd[r].pc = pc
Set(r, new) == rd' = [rd EXCEPT ![r] = new]
Goto(r, pc) == Set(r, [rd[r] EXCEPT !.pc = pc])
Release(lock, r) == IF lock = r THEN None ELSE lock

-----------------------------------------------------------------------------
(* What is on disk. *)

\* A snapshot whose windows have all been renewed is as good as a new one.
RequiresFreshSource(s) == s.active

\* Mutant: an old local record passes for a new one.
StaleIfLocalSnapshotTrusting(s) == s

StaleIfLocalSnapshot(s) ==
    IF s.kind = "sample" /\ s.age > MaxAge /\ RequiresFreshSource(s)
    THEN Marker("stale-usage") ELSE s

\* The cache file, unless it is older than maxAge and still matters.
ReadUsageCache(maxAge, requireFresh) ==
    IF (requireFresh \/ RequiresFreshSource(cache)) /\ cache.age > maxAge THEN Absent ELSE cache

\* freshen_provider_windows: a renewed window is shown as unused, its age forgotten.
Freshen(s) == IF s.kind = "sample" /\ ~s.active THEN Sample(0, FALSE) ELSE s

IsStale(s) == s.kind = "stale-usage"

-----------------------------------------------------------------------------
(* The end of one read_fn() of recover_stale_with_live_retry: read again    *)
(* while the result is stale and a live path exists, or hand it on.         *)

\* Mutant: the attempts are not counted.
FinishUnbounded(r, res) ==
    IF IsStale(res) /\ signedIn
    THEN Set(r, [IdleReader EXCEPT !.pc = "again", !.tries = rd[r].tries, !.wait = 1])
    ELSE Set(r, [IdleReader EXCEPT !.pc = "return", !.res = Freshen(res)])

Finish(r, res) ==
    IF IsStale(res) /\ signedIn /\ rd[r].tries > 0
    THEN Set(r, [IdleReader EXCEPT !.pc = "again", !.tries = rd[r].tries - 1, !.wait = 1])
    ELSE Set(r, [IdleReader EXCEPT !.pc = "return", !.res = Freshen(res)])

\* What other programs leave in the status line cache and the session logs:
\* nothing, a new record, or an old one of a running or of a renewed window.
LocalRecords == {Absent, Sample(0, TRUE), Sample(MaxAge + 1, TRUE), Sample(MaxAge + 1, FALSE)}

\* read_claude_api or read_codex_api returns: the flock goes with the open file,
\* and without an answer the local records are read.
ApiReturns(r, res) ==
    /\ flock' = Release(flock, r)
    /\ \/ res.kind # "none" /\ Finish(r, res)
       \/ res.kind = "none" /\ \E record \in LocalRecords : Finish(r, StaleIfLocalSnapshot(record))
    /\ UNCHANGED sharedLock

\* The last resort of the provider's own path.
CacheOrNothing(r) == ApiReturns(r, ReadUsageCache(MaxAge, FALSE))

\* During a cooldown an older sample may be shown.
RateLimitFallback(r) ==
    LET cached == ReadUsageCache(RateLimitAge, TRUE)
    IN  ApiReturns(r, IF cached.kind = "none" THEN Marker("rate-limited") ELSE cached)

-----------------------------------------------------------------------------
(* The shared snapshot. *)

SharedFresh == shared.age < SharedAge
Serve(r) == Set(r, [IdleReader EXCEPT !.pc = "return", !.res = shared.res])

\* A selection reads live (refresh_capacity_observation with fresh, or outside
\* shared_usage_reads).
StartLive(r) ==
    /\ At(r, "idle")
    /\ Set(r, [IdleReader EXCEPT !.pc = "api", !.tries = Recoveries])
    /\ UNCHANGED <<provider, signedIn, files, service, locks, lost>>

\* A background observation looks at the snapshot first, without the lock.
StartShared(r) ==
    /\ At(r, "idle")
    /\ \/ SharedFresh /\ Serve(r)
       \/ ~SharedFresh /\ Set(r, [IdleReader EXCEPT !.pc = "queue", !.tries = Recoveries, !.wait = LockWait])
    /\ UNCHANGED <<provider, signedIn, files, service, locks, lost>>

\* The lock is free: look again, another process may have refreshed it.
LockSharedSnapshot(r) ==
    /\ At(r, "queue") /\ sharedLock = None
    /\ \/ SharedFresh /\ Serve(r) /\ UNCHANGED sharedLock
       \/ ~SharedFresh /\ Set(r, [rd[r] EXCEPT !.pc = "api", !.wait = 0]) /\ sharedLock' = r
    /\ UNCHANGED <<provider, signedIn, files, service, flock, lost>>

\* The lock stayed busy for LockWait: read live, and keep the result to oneself.
ReadWithoutLock(r) ==
    /\ At(r, "queue") /\ sharedLock # None /\ rd[r].wait = 0
    /\ Goto(r, "api")
    /\ UNCHANGED <<provider, signedIn, files, service, locks, lost>>

\* The holder of the lock stores the result for the others; the caller goes on.
Return(r) ==
    /\ At(r, "return")
    /\ shared' = IF sharedLock = r THEN [age |-> 0, res |-> rd[r].res] ELSE shared
    /\ sharedLock' = Release(sharedLock, r)
    /\ Set(r, IdleReader)
    /\ UNCHANGED <<provider, signedIn, cache, cooldown, stored, service, flock, lost>>

-----------------------------------------------------------------------------
(* The Claude reader. *)

\* Mutant: the readers are not serialised.
ReadClaudeApiUnlocked(r) ==
    /\ At(r, "api") /\ provider = "claude"
    /\ LET fresh == ReadUsageCache(MaxAge, TRUE)
       IN  \/ ~signedIn /\ CacheOrNothing(r)
           \/ signedIn /\ fresh.kind # "none" /\ ApiReturns(r, fresh)
           \/ signedIn /\ fresh.kind = "none" /\ cooldown > 0 /\ RateLimitFallback(r)
           \/ /\ signedIn /\ fresh.kind = "none" /\ cooldown = 0
              /\ Set(r, [rd[r] EXCEPT !.pc = "fetch", !.net = Attempts, !.wait = 0,
                                      !.honoured = (Attempts <= 1), !.token = stored])
              /\ UNCHANGED locks
    /\ UNCHANGED <<provider, signedIn, files, service, lost>>

\* Mutant: the shared sample is not looked at.
ReadClaudeApiUncached(r) ==
    /\ At(r, "api") /\ provider = "claude" /\ flock = None
    /\ \/ ~signedIn /\ CacheOrNothing(r)
       \/ signedIn /\ cooldown > 0 /\ RateLimitFallback(r)
       \/ /\ signedIn /\ cooldown = 0
          /\ flock' = r /\ UNCHANGED sharedLock
          /\ Set(r, [rd[r] EXCEPT !.pc = "fetch", !.net = Attempts, !.wait = 0,
                                  !.honoured = (Attempts <= 1), !.token = stored])
    /\ UNCHANGED <<provider, signedIn, files, service, lost>>

\* read_claude_api: take the lock, then look at the cache and at the cooldown.
ReadClaudeApi(r) ==
    /\ At(r, "api") /\ provider = "claude" /\ flock = None
    /\ LET fresh == ReadUsageCache(MaxAge, TRUE)
       IN  \/ ~signedIn /\ CacheOrNothing(r)
           \/ signedIn /\ fresh.kind # "none" /\ ApiReturns(r, fresh)
           \/ signedIn /\ fresh.kind = "none" /\ cooldown > 0 /\ RateLimitFallback(r)
           \/ /\ signedIn /\ fresh.kind = "none" /\ cooldown = 0
              /\ flock' = r /\ UNCHANGED sharedLock
              /\ Set(r, [rd[r] EXCEPT !.pc = "fetch", !.net = Attempts, !.wait = 0,
                                      !.honoured = (Attempts <= 1), !.token = stored])
    /\ UNCHANGED <<provider, signedIn, files, service, lost>>

Accepted(r) == rd[r].token = token /\ ~expired

\* 200: the cooldown is over and the answer becomes the shared sample.
FetchAnswered(r, active) ==
    /\ At(r, "fetch") /\ Accepted(r)
    /\ cache' = Sample(0, active)
    /\ cooldown' = 0
    /\ ApiReturns(r, cache')
    /\ UNCHANGED <<provider, signedIn, stored, shared, service, lost>>

\* 429: honour a short Retry-After once, defer a longer one to the cooldown.
FetchRateLimited(r, retryAfter) ==
    /\ At(r, "fetch")
    /\ LET wait == IF retryAfter <= 0 THEN Cooldown ELSE retryAfter
       IN  IF rd[r].honoured \/ wait > MaxDelay
           THEN /\ cooldown' = IF wait > Cooldown THEN wait ELSE Cooldown
                /\ RateLimitFallback(r)
           ELSE /\ Set(r, [rd[r] EXCEPT !.pc = "backoff", !.honoured = TRUE, !.wait = wait])
                /\ UNCHANGED <<cooldown, locks>>
    /\ UNCHANGED <<provider, signedIn, cache, stored, shared, service, lost>>

BackoffOver(r) ==
    /\ At(r, "backoff") /\ rd[r].wait = 0
    /\ Goto(r, "fetch")
    /\ UNCHANGED <<provider, signedIn, files, service, locks, lost>>

\* 400 or 401: renew the token once, with the credentials read at the start.
FetchUnauthorized(r) ==
    /\ At(r, "fetch") /\ ~Accepted(r)
    /\ IF rd[r].renewed THEN CacheOrNothing(r) ELSE Goto(r, "token") /\ UNCHANGED locks
    /\ UNCHANGED <<provider, signedIn, files, service, lost>>

\* Any other 4xx will not change on retry.
FetchRefused(r) ==
    /\ At(r, "fetch")
    /\ CacheOrNothing(r)
    /\ UNCHANGED <<provider, signedIn, files, service, lost>>

\* 5xx, a timeout, no network: the network budget decides.
FetchFailed(r) ==
    /\ At(r, "fetch")
    /\ IF rd[r].net > 1
       THEN Set(r, [rd[r] EXCEPT !.net = @ - 1]) /\ UNCHANGED locks
       ELSE CacheOrNothing(r)
    /\ UNCHANGED <<provider, signedIn, files, service, lost>>

\* The token service issues new tokens for the current refresh token only.
TokenIssued(r) ==
    /\ At(r, "token") /\ rd[r].token = token /\ expired
    /\ token' = token + 1 /\ expired' = FALSE
    /\ Set(r, [rd[r] EXCEPT !.pc = "save", !.token = token + 1])
    /\ UNCHANGED <<provider, signedIn, files, locks, lost>>

\* The refresh is rejected, or its network budget is spent.
TokenRefused(r) ==
    /\ At(r, "token")
    /\ CacheOrNothing(r)
    /\ UNCHANGED <<provider, signedIn, files, service, lost>>

\* Mutant: the renewed token is used but not written back.
SaveTokenNowhere(r) ==
    /\ At(r, "save")
    /\ Set(r, [rd[r] EXCEPT !.pc = "fetch", !.renewed = TRUE, !.net = Attempts,
                            !.honoured = (Attempts <= 1)])
    /\ UNCHANGED <<provider, signedIn, files, service, locks, lost>>

\* The renewed credentials replace the file, then the fetch starts over.
SaveToken(r) ==
    /\ At(r, "save")
    /\ stored' = rd[r].token
    /\ Set(r, [rd[r] EXCEPT !.pc = "fetch", !.renewed = TRUE, !.net = Attempts,
                            !.honoured = (Attempts <= 1)])
    /\ UNCHANGED <<provider, signedIn, cache, cooldown, shared, service, locks, lost>>

-----------------------------------------------------------------------------
(* The Codex reader. *)

\* read_codex_api: the app-server answers, knows it may not, or fails.
ReadCodexApi(r, active) ==
    /\ At(r, "api") /\ provider = "codex"
    /\ \/ signedIn /\ cache' = Sample(0, active) /\ ApiReturns(r, cache')
       \/ ApiReturns(r, Marker("unavailable")) /\ UNCHANGED cache
       \/ /\ signedIn /\ UNCHANGED cache
          /\ ApiReturns(r, IF IsStale(StaleIfLocalSnapshot(cache)) THEN Absent ELSE cache)
    /\ UNCHANGED <<provider, signedIn, cooldown, stored, shared, service, lost>>

\* recover_stale_with_live_retry: the delay is over.
ReadAgain(r) ==
    /\ At(r, "again") /\ rd[r].wait = 0
    /\ Goto(r, "api")
    /\ UNCHANGED <<provider, signedIn, files, service, locks, lost>>

-----------------------------------------------------------------------------
(* The rest of the machine. *)

\* A reader dies; a cache file it was writing is cut off, the kernel drops its locks.
Crash(r) ==
    /\ ~At(r, "idle")
    /\ cache' \in {cache} \cup (IF At(r, "fetch") THEN {Absent} ELSE {})
    /\ Set(r, IdleReader)
    /\ flock' = Release(flock, r) /\ sharedLock' = Release(sharedLock, r)
    /\ lost' = (lost \/ At(r, "save"))
    /\ UNCHANGED <<provider, signedIn, cooldown, stored, shared, service>>

\* The CLI renews the token it finds in the file, under a lock of its own.
CliRenews ==
    /\ provider = "claude" /\ signedIn /\ expired /\ stored = token
    /\ token' = token + 1 /\ stored' = token + 1 /\ expired' = FALSE
    /\ UNCHANGED <<provider, signedIn, cache, cooldown, shared, locks, rd, lost>>

\* A sample one tick later; the window it reports may have ended.
Aged(s, cap, renewed) ==
    IF s.kind # "sample" THEN s
    ELSE [s EXCEPT !.age = IF @ < cap THEN @ + 1 ELSE cap, !.active = @ /\ ~renewed]
Lower(n) == IF n > 0 THEN n - 1 ELSE 0

Tick(renewed) ==
    /\ cache' = Aged(cache, RateLimitAge + 1, renewed)
    /\ cooldown' = Lower(cooldown)
    /\ shared' = IF shared.age + 1 < SharedAge
                 THEN [age |-> shared.age + 1, res |-> Aged(shared.res, AgeCap, FALSE)]
                 ELSE NothingShared
    /\ rd' = [r \in Readers |-> [rd[r] EXCEPT !.wait = Lower(@)]]
    /\ UNCHANGED <<provider, signedIn, stored, service, locks, lost>>

Step(r) ==
    \/ LockSharedSnapshot(r) \/ ReadWithoutLock(r) \/ Return(r) \/ ReadClaudeApi(r)
    \/ \E active \in BOOLEAN : FetchAnswered(r, active) \/ ReadCodexApi(r, active)
    \/ \E w \in RetryAfters : FetchRateLimited(r, w)
    \/ BackoffOver(r) \/ FetchUnauthorized(r) \/ FetchRefused(r) \/ FetchFailed(r)
    \/ TokenIssued(r) \/ TokenRefused(r) \/ SaveToken(r) \/ ReadAgain(r)

Next ==
    \/ \E r \in Readers : StartLive(r) \/ StartShared(r) \/ Step(r) \/ Crash(r)
    \/ CliRenews \/ \E renewed \in BOOLEAN : Tick(renewed)

\* Every call of a reader returns within its timeout and time goes on; a flock
\* that is released again and again is granted to each waiting reader in the end.
Fairness ==
    /\ WF_vars(\E renewed \in BOOLEAN : Tick(renewed))
    /\ \A r \in Readers : WF_vars(Step(r)) /\ SF_vars(ReadClaudeApi(r))

Spec == Init /\ [][Next]_vars /\ Fairness

-----------------------------------------------------------------------------
(* Properties. *)

\* docs/llm-usage.md promises that readers share a sample, that one lock keeps
\* them from repeating a request and that a 429 is respected: no request leaves
\* the machine during a recorded cooldown, whoever recorded it, and an answer never
\* replaces a sample that was still fresh, however many processes found the old
\* one too old at once.
ProviderIsSpared ==
    [][\A r \in Readers : At(r, "fetch") =>
          /\ cooldown = 0
          /\ rd'[r].pc = "return" /\ cache'.age = 0 /\ cache # cache' /\ cache.kind = "sample" => cache.age > MaxAge]_vars

\* A reader is given a running window older than MaxAge only while a 429 holds
\* the readers back, and never one older than RateLimitAge; through the shared
\* snapshot, which may have been stored with such a sample, less than SharedAge more.
AgeIsBounded ==
    [][\A r \in Readers :
          ~At(r, "return") /\ rd'[r].pc = "return" /\ RequiresFreshSource(rd'[r].res) =>
              \/ rd'[r].res.age <= (IF cooldown' > 0 THEN RateLimitAge ELSE MaxAge)
              \/ rd[r].pc \in {"idle", "queue"} /\ rd'[r].res.age < RateLimitAge + SharedAge]_vars

\* The refresh token on disk is the one the service accepts, except between the
\* service's answer and the replacement of the file (and for good when a reader
\* died there): two readers, or a reader and the CLI, never lose each other's token.
TokenIsKept ==
    ~lost => stored = token \/ \E r \in Readers : At(r, "save") /\ rd[r].token = token

\* Every read that starts comes back, whatever the network and the lock holder do.
ReadsReturn == \A r \in Readers : ~At(r, "idle") ~> At(r, "idle")

=============================================================================

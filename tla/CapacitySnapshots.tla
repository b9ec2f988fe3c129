-------------------------- MODULE CapacitySnapshots --------------------------
(***************************************************************************)
(* What a provider reader makes of its sources (providers/*.py and the     *)
(* normalisation in common): a snapshot of scopes, and the decision        *)
(* (capacity.decide under common.usage_decision_for_provider) whether the  *)
(* provider may be launched and, if not, until when to wait.               *)
(*                                                                         *)
(* Time is counted from now = 0.  Amounts and percentages are small        *)
(* integers; NoNum stands for None.  Texts (sources, labels, reasons that  *)
(* nothing branches on) are left out.                                      *)
(***************************************************************************)
EXTENDS Integers, FiniteSets, Sequences, SequencesExt

CONSTANTS
    Amounts,      \* money a source reports
    Percents,     \* percentages a source reports
    Resets,       \* reset times a source reports: 0 is past, the others ahead
    MonthEnd,     \* the next month's first second
    Poll,         \* poll interval
    MinPercent,   \* --min-remaining
    MinBalance    \* LLM_USAGE_KILO_MIN_BALANCE, DEFAULT_MIN_BALANCE

NoNum == -1

ASSUME CapacityAssumption ==
    /\ Amounts \subseteq Nat /\ Percents \subseteq 0 .. 100 /\ Resets \subseteq Nat
    /\ {MonthEnd, Poll} \subseteq Nat \ {0} /\ {MinPercent, MinBalance} \subseteq Nat

Or(a, b) == IF a = NoNum THEN b ELSE a
Maybe(S) == S \cup {NoNum}

\* CapacityScope, with the fields the table and the decision read.
Scope(name, kind) ==
    [name |-> name, kind |-> kind, rem |-> NoNum, amount |-> NoNum, cur |-> "", reset |-> NoNum,
     spent |-> FALSE, model |-> ""]
Window(name, rem, reset) == [Scope(name, "reset_window") EXCEPT !.rem = rem, !.reset = reset]
\* ProviderSnapshot.
Snapshot(available, reason, scopes) ==
    [available |-> available, reason |-> reason, scopes |-> scopes, models |-> {}]
Unavailable(reason) == Snapshot(FALSE, reason, {})

-----------------------------------------------------------------------------
(* Kilo and OpenCode: a balance, a budget, or what the CLI says was spent. *)

NoStats == [ok |-> FALSE, balance |-> NoNum, budget |-> NoNum, spent |-> NoNum, cost |-> NoNum, cur |-> ""]
StatsOutputs ==
    {NoStats} \cup [ok : {TRUE}, balance : Maybe(Amounts), budget : Maybe(Amounts), spent : Maybe(Amounts),
                    cost : Maybe(Amounts), cur : {"$"}]
GatewayInputs ==
    [mode : {"gateway", "byok"}, cli : BOOLEAN, balance : Maybe(Amounts), budget : Maybe(Amounts),
     spent : {NoNum}, cur : {"", "EUR"}, stats : StatsOutputs, db : Maybe(Amounts)]

\* OpenCode has no database to read.
OpencodeInputs == {i \in GatewayInputs : i.db = NoNum}

\* The month's cost from Kilo's database, NoNum if it cannot be read ...
MonthCost(i) == i.db
\* ... is enough when the row will be a plain spend row.
LocalDbStats(i) ==
    IF i.mode = "gateway" /\ i.balance = NoNum /\ i.budget = NoNum /\ i.cli /\ MonthCost(i) # NoNum
    THEN [NoStats EXCEPT !.ok = TRUE, !.cost = MonthCost(i), !.cur = "$"]
    ELSE NoStats

RunKiloStats(i) ==
    CASE ~i.cli \/ ~i.stats.ok -> NoStats
      [] i.cli /\ i.stats.ok -> [i.stats EXCEPT !.cost = Or(MonthCost(i), @)]

KiloStats(i) == LET local == LocalDbStats(i) IN IF local.ok THEN local ELSE RunKiloStats(i)
RunOpencodeStats(i) == IF i.cli THEN i.stats ELSE NoStats

BudgetScope(total, spent, cur) ==
    LET left == IF spent > total THEN 0 ELSE total - spent
    IN  [Scope("budget", "budget") EXCEPT !.cur = cur, !.reset = MonthEnd,
            !.amount = IF spent = NoNum THEN NoNum ELSE left,
            !.rem = IF spent = NoNum THEN NoNum ELSE (left * 100) \div total]
BalanceScope(amount, cur) == [Scope("balance", "balance") EXCEPT !.amount = amount, !.cur = cur]
SpendScope(cost, cur) == [BalanceScope(cost, cur) EXCEPT !.reset = MonthEnd, !.spent = TRUE]
UnknownScope(name) == Scope(name, "unknown")

\* _scopes_for_mode: what the environment sets wins over what the CLI prints.
ScopesForMode(i, st) ==
    LET balance == Or(i.balance, st.balance)
        budget  == Or(i.budget, st.budget)
        cur     == IF i.cur = "" THEN st.cur ELSE i.cur
        gates   == {BudgetScope(b, Or(i.spent, st.spent), cur) : b \in {budget} \ {NoNum, 0}}
                     \cup {BalanceScope(a, cur) : a \in {balance} \ {NoNum}}
        found   == IF gates = {} THEN {SpendScope(c, cur) : c \in {st.cost} \ {NoNum}} ELSE gates
    IN  CASE i.mode # "gateway" -> {Scope(i.mode, "ungated")}
          [] i.mode = "gateway" /\ found # {} -> found
          [] i.mode = "gateway" /\ found = {} -> {UnknownScope("usage")}

\* OpenCode's copy of the same rules.
OpencodeScopes(i, st) == ScopesForMode(i, st)

\* read_kilo, read_opencode: data of the environment counts without a CLI.
ReadGateway(i, scopes) ==
    CASE i.mode # "gateway" /\ ~i.cli -> Snapshot(FALSE, "missing-cli", scopes)
      [] i.mode = "gateway" /\ \A s \in scopes : s.kind = "unknown" -> Snapshot(FALSE, "inconclusive-usage", scopes)
      [] OTHER -> IF i.cli \/ i.balance # NoNum \/ i.budget # NoNum THEN Snapshot(TRUE, "", scopes)
                  ELSE Snapshot(FALSE, "missing-cli", scopes)

ReadKilo(i) == ReadGateway(i, ScopesForMode(i, KiloStats(i)))
ReadOpencode(i) == ReadGateway(i, OpencodeScopes(i, RunOpencodeStats(i)))

-----------------------------------------------------------------------------
(* MiniMax and Z.ai: two windows from an API or from the environment. *)

NoWindows == [five |-> NoNum, fiveReset |-> NoNum, week |-> NoNum, weekReset |-> NoNum]
WindowPairs == [five : Maybe(Percents), fiveReset : {NoNum} \cup Resets, week : Maybe(Percents), weekReset : {MonthEnd}]
BuildScopes(w) ==
    {Window("5h", p, w.fiveReset) : p \in {w.five} \ {NoNum}} \cup {Window("weekly", p, w.weekReset) : p \in {w.week} \ {NoNum}}
\* Each figure of the API first, then the environment's.
FillIn(api, env) == [k \in DOMAIN api |-> Or(api[k], env[k])]

MinimaxInputs ==
    [cli : BOOLEAN, error : {"", "rate-limited", "not-authenticated"}, quota : WindowPairs \cup {NoWindows},
     env : WindowPairs \cup {NoWindows}]
ReadMinimax(i) ==
    LET api    == IF i.cli /\ i.error = "" THEN i.quota ELSE NoWindows
        scopes == BuildScopes(FillIn(api, i.env))
    IN  CASE scopes = {} /\ i.cli /\ i.error # "" -> Unavailable(i.error)
          [] scopes = {} /\ ~(i.cli /\ i.error # "") -> Unavailable(IF i.cli THEN "inconclusive-usage" ELSE "missing-cli")
          [] scopes # {} -> Snapshot(TRUE, "", scopes)

\* An entry of z.ai's limits: its length in hours if it says so, its type label,
\* what remains and when it resets.
ZaiEntries ==
    [hours : {NoNum, 5, 168, 720}, type : {"5h", "weekly", "other"}, rem : Percents, reset : (Resets \cup {MonthEnd}) \ {0}]
ShortHours == 24
WeekHours == 72 .. 240
Bucket(e) ==
    CASE e.hours = NoNum -> "none"
      [] e.hours # NoNum /\ e.hours <= ShortHours -> "5h"
      [] e.hours \in WeekHours -> "weekly"
      [] OTHER -> "long"

NoEntry == [hours |-> NoNum, type |-> "absent", rem |-> NoNum, reset |-> NoNum]
EntryAt(es, i) == IF i = 0 THEN NoEntry ELSE es[i]
First(S) == IF S = {} THEN 0 ELSE CHOOSE i \in S : \A j \in S : i <= j
Furthest(es, S) ==
    CHOOSE i \in S : \A j \in S : es[j].reset < es[i].reset \/ (es[j].reset = es[i].reset /\ j <= i)

\* Mutant: the label decides, whatever the window's length.
ParseByLabel(es) ==
    [five |-> EntryAt(es, First({i \in DOMAIN es : es[i].type = "5h"})),
     week |-> EntryAt(es, First({i \in DOMAIN es : es[i].type = "weekly"}))]

\* _parse_zai_limits: by length; without one by label; then the nearest and the
\* furthest reset of what is left.
ParseZaiLimits(es) ==
    LET Of(b)   == {i \in DOMAIN es : Bucket(es[i]) = b}
        By(t)   == {i \in Of("none") : es[i].type = t}
        five    == IF Of("5h") # {} THEN First(Of("5h")) ELSE First(By("5h"))
        week    == IF Of("weekly") # {} THEN First(Of("weekly")) ELSE First(By("weekly"))
        left    == Of("none") \ {five, week}
        nearest == First({i \in left : \A j \in left : es[i].reset <= es[j].reset})
        rest    == IF five = 0 THEN left \ {nearest} ELSE left
    IN  [five |-> EntryAt(es, IF five = 0 THEN nearest ELSE five),
         week |-> EntryAt(es, IF week = 0 /\ rest # {} THEN Furthest(es, rest) ELSE week)]

ZaiWindows(es) ==
    LET named == ParseZaiLimits(es)
    IN  [five |-> named.five.rem, fiveReset |-> named.five.reset, week |-> named.week.rem, weekReset |-> named.week.reset]

\* _fetch_zai_quota: the second endpoint unless the first answered or refused the key.
Answers == {"limits", "auth", "network", "garbage"}
FetchZai(first, second) == IF first \in {"limits", "auth"} THEN first ELSE second
ZaiReason(answer) ==
    CASE answer = "auth" -> "not-authenticated" [] answer = "network" -> "network-error" [] OTHER -> "quota-error"

ZaiScopes(w) == BuildScopes(w)
ZaiInputs ==
    [key : BOOLEAN, first : Answers, second : Answers, limits : BoundedSeq(ZaiEntries, 2), env : {NoWindows, [NoWindows EXCEPT !.five = 50]}]
ReadZai(i) ==
    LET answer == FetchZai(i.first, i.second)
        read   == i.key /\ answer = "limits" /\ i.limits # << >>
        scopes == ZaiScopes(FillIn(IF read THEN ZaiWindows(i.limits) ELSE NoWindows, i.env))
    IN  CASE scopes # {} -> Snapshot(TRUE, "", scopes)
          [] scopes = {} /\ i.key -> Unavailable(ZaiReason(answer))
          [] scopes = {} /\ ~i.key -> Unavailable("inconclusive-usage")

-----------------------------------------------------------------------------
(* Claude, Codex and Copilot. *)

Pairs == {w \in WindowPairs : w.fiveReset # NoNum}
\* A Codex payload names its windows primary and secondary; each may say how long it is.
NoWindow == [minutes |-> 0, rem |-> NoNum, reset |-> NoNum]
CodexWindows == [minutes : {NoNum, 300, 10080}, rem : Percents, reset : {MonthEnd}] \cup {NoWindow}

\* as_row: the length decides; without one the name does.
Classify(primary, secondary) ==
    LET isFive(w, short) == w # NoWindow /\ (w.minutes = 300 \/ (w.minutes = NoNum /\ short))
        isWeek(w, short) == w # NoWindow /\ (w.minutes = 10080 \/ (w.minutes = NoNum /\ ~short))
        pick(p, s)       == IF p THEN {primary} ELSE IF s THEN {secondary} ELSE {}
    IN  {Window("5h", w.rem, w.reset) : w \in pick(isFive(primary, TRUE), isFive(secondary, FALSE))} \cup
        {Window("weekly", w.rem, w.reset) : w \in pick(isWeek(primary, TRUE), isWeek(secondary, FALSE))}

CodexInputs == [known : BOOLEAN, primary : CodexWindows, secondary : CodexWindows, spark : Maybe(Percents)]
ReadCodex(i) ==
    LET scopes == Classify(i.primary, i.secondary)
        spark  == {[Window("weekly", p, MonthEnd) EXCEPT !.model = "Spark"] : p \in {i.spark} \ {NoNum}}
    IN  CASE ~i.known -> Unavailable("stale-usage")
          [] i.known -> [Snapshot(TRUE, "", scopes) EXCEPT !.models = spark]

ClaudeInputs == [known : BOOLEAN, windows : Pairs, sonnet : Maybe(Percents)]
ReadClaude(i) ==
    LET models == {[Window("weekly", p, MonthEnd) EXCEPT !.model = "Sonnet"] : p \in {i.sonnet} \ {NoNum}}
        scopes == BuildScopes(i.windows)
    IN  CASE ~i.known -> Unavailable("stale-usage")
          [] i.known -> [Snapshot(scopes # {}, "", scopes) EXCEPT !.models = models]

CopilotInputs == [known : BOOLEAN, monthly : Maybe(Percents), addon : Maybe(Amounts), cur : {"$", "EUR"}]
ReadCopilot(i) ==
    LET monthly == IF i.monthly = NoNum THEN UnknownScope("monthly") ELSE Window("monthly", i.monthly, MonthEnd)
        addon   == {[BalanceScope(a, i.cur) EXCEPT !.spent = TRUE] : a \in {i.addon} \ {NoNum}}
    IN  IF i.known THEN [Snapshot(TRUE, "", {monthly}) EXCEPT !.models = addon] ELSE Unavailable("unavailable")

KiloSnapshots     == {ReadKilo(i) : i \in GatewayInputs}
OpencodeSnapshots == {ReadOpencode(i) : i \in OpencodeInputs}
MinimaxSnapshots  == {ReadMinimax(i) : i \in MinimaxInputs}
ClaudeSnapshots   == {ReadClaude(i) : i \in ClaudeInputs}
CodexSnapshots    == {ReadCodex(i) : i \in CodexInputs}
CopilotSnapshots  == {ReadCopilot(i) : i \in CopilotInputs}

ZaiSnapshots      == {ReadZai(i) : i \in ZaiInputs}

-----------------------------------------------------------------------------
(* The decision. *)

\* _live_usage_snapshot and json_for_copilot: a Copilot without its monthly figure is unavailable.
LiveSnapshot(p, snap) ==
    IF p = "copilot" /\ \E s \in snap.scopes : s.kind = "unknown" THEN Unavailable("unavailable") ELSE snap

\* Mutant: a window that has rolled over still blocks.
ScopeBlockedUntilRead(s) ==
    CASE s.kind = "ungated" -> FALSE
      [] s.kind \in {"reset_window", "budget"} -> s.rem <= MinPercent
      [] OTHER -> s.amount < MinBalance

\* _scope_blocked: a window whose reset has passed has rolled over.
ScopeBlocked(s) ==
    CASE s.kind = "ungated" -> FALSE
      [] s.kind \in {"reset_window", "budget"} -> s.rem = NoNum \/ (s.reset # 0 /\ s.rem <= MinPercent)
      [] s.kind = "balance" -> s.amount < MinBalance
      [] OTHER -> TRUE
BlockReason(s) ==
    CASE s.kind = "balance" -> "insufficient-balance"
      [] s.kind # "balance" /\ s.rem = NoNum -> "inconclusive-usage"
      [] s.kind = "budget" /\ s.rem # NoNum -> "budget-exhausted"
      [] OTHER -> "rate-limited"
\* _combined_block_reason: one scope's own reason, else the most specific kind.
CombinedBlockReason(blocked) ==
    CASE Cardinality(blocked) = 1 -> BlockReason(CHOOSE s \in blocked : TRUE)
      [] Cardinality(blocked) # 1 /\ \E s \in blocked : s.kind = "balance" -> "insufficient-balance"
      [] Cardinality(blocked) # 1 /\ \A s \in blocked : s.kind # "balance" ->
           IF \E s \in blocked : s.kind = "budget" THEN "budget-exhausted" ELSE "rate-limited"

Refuse(reason, wait) == [usable |-> FALSE, reason |-> reason, wait |-> wait]
Accept == [usable |-> TRUE, reason |-> "usable", wait |-> 0]
Latest(S) == CHOOSE t \in S : \A u \in S : u <= t

\* Mutant: wait for the first reset only.
DecideFirstReset(snap, scopes, window) ==
    LET chosen  == {s \in scopes : window \in {"auto", s.name}}
        blocked == {s \in chosen : s.kind # "unknown" /\ ScopeBlocked(s)}
        waits   == {s.reset : s \in {b \in blocked : b.kind \in {"reset_window", "budget"} /\ b.rem # NoNum}} \ {NoNum}
    IN  IF blocked = {} THEN Accept
        ELSE Refuse("rate-limited", IF waits = {} THEN Poll ELSE CHOOSE t \in waits : \A u \in waits : t <= u)

\* decide_with_scopes and decide: every scope with data must allow the launch.
Decide(snap, scopes, window) ==
    LET chosen  == {s \in scopes : window \in {"auto", s.name}}
        known   == {s \in chosen : s.kind # "unknown"}
        blocked == {s \in known : ScopeBlocked(s)}
        waits   == {s.reset : s \in {b \in blocked : b.kind \in {"reset_window", "budget"} /\ b.rem # NoNum}} \ {NoNum}
    IN  CASE ~snap.available -> Refuse(snap.reason, Poll)
          [] snap.available /\ chosen = {} -> Refuse("unsupported-scope", Poll)
          [] snap.available /\ chosen # {} /\ known = {} -> Refuse("inconclusive-usage", Poll)
          [] snap.available /\ known # {} /\ blocked = {} -> Accept
          [] snap.available /\ blocked # {} -> Refuse(CombinedBlockReason(blocked), IF waits = {} THEN Poll ELSE Latest(waits))

\* model_decision_scopes: the scopes of the model's own bucket, if it has one.
ModelScopes(snap, model, window) == {s \in snap.models : s.model # "" /\ s.model = model /\ window \in {"auto", s.name}}

\* Mutant: the aggregate decides for a pinned model too.
DecisionIgnoringPin(snap, window, model, fallback) ==
    [Decide(snap, snap.scopes, window) EXCEPT !.reason = IF fallback THEN @ ELSE @]

\* usage_decision_for_provider: a pinned model is judged by its own bucket.
UsageDecision(snap, window, model, fallback) ==
    LET own == ModelScopes(snap, model, window)
    IN  IF own # {} /\ ~fallback THEN Decide(snap, own, window) ELSE Decide(snap, snap.scopes, window)
ModelExhausted(snap, window, model) ==
    LET own == ModelScopes(snap, model, window) IN own # {} /\ ~Decide(snap, own, window).usable
=============================================================================

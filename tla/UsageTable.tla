----------------------------- MODULE UsageTable -----------------------------
(***************************************************************************)
(* The usage table (usage.py) over provider snapshots: the parallel reads, *)
(* the early table with what has been read, the rows of each provider, the *)
(* total of the month's spend, the payload the local service passes on,    *)
(* and the dashboard a console embeds (bridge_usage).                      *)
(*                                                                         *)
(* A table is its set of rows; layout, colours and pace hints are left     *)
(* out.                                                                    *)
(***************************************************************************)
EXTENDS CapacitySnapshots, FiniteSetsExt

CONSTANTS
    Shown,         \* the sets of providers a run shows (visible_providers)
    Parallel,      \* --provider-parallelism
    SpendLimits,   \* [copilot] monthly_spend_limit, NoNum if none is declared
    Refresh,       \* EmbeddedUsage.interval
    MaxTime        \* bound on the embedded dashboard's clock

BudgetCurrency == "$"
Gateways == {"kilo", "opencode"}

VARIABLES
    tbl,   \* one run of llm-usage
    emb    \* the dashboard embedded in a console

SnapshotsOf(p) ==
    CASE p = "claude" -> ClaudeSnapshots [] p = "codex" -> CodexSnapshots [] p = "copilot" -> CopilotSnapshots
      [] p = "kilo" -> KiloSnapshots [] p = "opencode" -> OpencodeSnapshots
      [] p = "minimax" -> MinimaxSnapshots [] OTHER -> ZaiSnapshots

-----------------------------------------------------------------------------
(* Rows. *)

Row(p, scope, rem) ==
    [provider |-> p, scope |-> scope, model |-> "", rem |-> rem, amount |-> NoNum, cur |-> "", reset |-> NoNum,
     spent |-> FALSE, gates |-> TRUE, pending |-> FALSE]
PendingRow(p) == [Row(p, "first", NoNum) EXCEPT !.pending = TRUE]
WindowRow(p, s) == [Row(p, s.name, s.rem) EXCEPT !.reset = s.reset, !.model = s.model]
\* What a spend row shows does not gate: its remaining is a constant 1.
SpendRow(p, s, reset) ==
    [Row(p, "spend", 1) EXCEPT !.amount = s.amount, !.cur = s.cur, !.reset = reset, !.spent = TRUE]

ClaudeRows(snap) ==
    IF ~snap.available THEN {Row("claude", "5h", NoNum), Row("claude", "weekly", NoNum)}
    ELSE {IF \E s \in snap.scopes : s.name = n THEN WindowRow("claude", CHOOSE s \in snap.scopes : s.name = n)
          ELSE Row("claude", n, NoNum) : n \in {"5h", "weekly"}}
         \cup {WindowRow("claude", s) : s \in snap.models}
CodexRows(snap) ==
    IF ~snap.available THEN {Row("codex", "5h", NoNum), Row("codex", "weekly", NoNum)}
    ELSE {WindowRow("codex", s) : s \in snap.scopes \cup snap.models}

\* copilot_payg_status: overage under a declared limit, or overage already billed.
Funded(addon, limit) ==
    /\ addon # NoNum
    /\ IF limit # NoNum THEN addon < limit ELSE addon > 0
CopilotRows(snap, limit) ==
    LET addons  == {s \in snap.models : s.name = "balance"}
        addon   == IF addons = {} THEN NoNum ELSE (CHOOSE s \in addons : TRUE).amount
        rem     == IF snap.available THEN (CHOOSE s \in snap.scopes : TRUE).rem ELSE NoNum
        monthly == [Row("copilot", "monthly", rem) EXCEPT !.reset = MonthEnd,
                       !.gates = ~(snap.available /\ rem <= 0 /\ Funded(addon, limit))]
    IN  {monthly} \cup {SpendRow("copilot", s, MonthEnd) : s \in addons}

\* kilo_rows, opencode_rows.
GatewayRow(p, s) ==
    CASE s.kind = "ungated" -> Row(p, s.name, NoNum)
      [] s.kind = "balance" /\ s.spent -> SpendRow(p, s, s.reset)
      [] s.kind = "balance" /\ ~s.spent -> [Row(p, "balance", s.amount) EXCEPT !.amount = s.amount, !.cur = s.cur]
      [] OTHER -> [Row(p, "budget", s.rem) EXCEPT !.amount = s.amount, !.cur = s.cur, !.reset = s.reset]
GatewayRows(p, snap) ==
    LET known == {s \in snap.scopes : s.kind # "unknown"}
    IN  IF snap.available /\ known # {} THEN {GatewayRow(p, s) : s \in known} ELSE {Row(p, "balance", NoNum)}
\* minimax_rows, and zai_rows alike.
WindowedRows(p, snap) ==
    IF snap.available /\ snap.scopes # {} THEN {WindowRow(p, s) : s \in snap.scopes} ELSE {Row(p, "5h", NoNum)}
ZaiRows(snap) == WindowedRows("zai", snap)

RowsOf(p, snap, limit) ==
    CASE p = "claude" -> ClaudeRows(snap) [] p = "codex" -> CodexRows(snap)
      [] p = "copilot" -> CopilotRows(snap, limit)
      [] p \in Gateways -> GatewayRows(p, snap)
      [] p = "zai" -> ZaiRows(snap) [] OTHER -> WindowedRows(p, snap)

\* Mutant: lifetime and foreign-currency spend is counted as well.
CountedLoosely(r) == r.spent /\ r.amount # NoNum
\* budget_total_row: this month's spend in the budget's currency.
Counted(r) == r.spent /\ r.amount # NoNum /\ r.reset > 0 /\ r.cur \in {"", BudgetCurrency}
NoTotal == NoNum
BudgetTotal(rows) ==
    LET matched == {r \in rows : Counted(r)}
    IN  IF matched = {} THEN NoTotal ELSE MapThenSumSet(LAMBDA r : r.amount, matched)

\* _build_usage_rows: no total while a provider is being read.
BuildUsageRows(visible, snaps, pending, limit) ==
    LET rows == UNION {IF p \in pending THEN {PendingRow(p)} ELSE RowsOf(p, snaps[p], limit) : p \in visible}
    IN  [rows |-> rows, total |-> IF pending # {} THEN NoTotal ELSE BudgetTotal(rows)]

-----------------------------------------------------------------------------
(* The service's payload. *)

\* A scope's extras carry the spent flag and the model.
ScopeToJson(s) ==
    [name |-> s.name, kind |-> s.kind, remaining_percent |-> s.rem, remaining_amount |-> s.amount, currency |-> s.cur,
     reset_epoch |-> s.reset, extras |-> [spent |-> s.spent, model |-> s.model]]
\* Mutant: a scope leaves its extras behind.
ScopeFromJsonBare(j) ==
    [Scope(j.name, j.kind) EXCEPT !.rem = j.remaining_percent, !.amount = j.remaining_amount, !.cur = j.currency,
        !.reset = j.reset_epoch]
ScopeFromJson(j) ==
    [Scope(j.name, j.kind) EXCEPT !.rem = j.remaining_percent, !.amount = j.remaining_amount, !.cur = j.currency,
        !.reset = j.reset_epoch, !.spent = j.extras.spent, !.model = j.extras.model]
SnapshotToJson(snap) ==
    [available |-> snap.available, reason |-> snap.reason, scopes |-> {ScopeToJson(s) : s \in snap.scopes},
     model_scopes |-> {ScopeToJson(s) : s \in snap.models}]
SnapshotFromJson(j) ==
    [available |-> j.available, reason |-> j.reason, scopes |-> {ScopeFromJson(s) : s \in j.scopes},
     models |-> {ScopeFromJson(s) : s \in j.model_scopes}]
\* Codex's data is JSON already.
ServicePayload(snaps) == [p \in DOMAIN snaps |-> IF p = "codex" THEN snaps[p] ELSE SnapshotToJson(snaps[p])]
ProviderDataFromPayload(payload) ==
    [p \in DOMAIN payload |-> IF p = "codex" THEN payload[p] ELSE SnapshotFromJson(payload[p])]

-----------------------------------------------------------------------------
(* One run: ProviderReads, the early table and the final one. *)

NoSnap == Unavailable("not-read")
NoTable == [rows |-> {}, total |-> NoTotal]
NewRun == [pc |-> "start", visible |-> {}, limit |-> NoNum, early |-> FALSE, running |-> {}, read |-> {}, pending |-> {},
           snaps |-> << >>, shown |-> NoTable]
TableInit == tbl = NewRun
Embedded == [running |-> FALSE, started |-> 0, next |-> 0, now |-> 0, seen |-> NoNum, data |-> NoNum, error |-> FALSE]
EmbInit == emb = Embedded

TableTypeOK ==
    /\ tbl.pc \in {"start", "reading", "cut", "early", "served", "done"}
    /\ tbl.read \subseteq tbl.visible /\ tbl.running \subseteq tbl.visible \ tbl.read
    /\ \A r \in tbl.shown.rows : r.rem \in NoNum .. 100 /\ r.provider \in tbl.visible
    /\ emb.now \in 0 .. MaxTime /\ emb.seen \in NoNum .. MaxTime

\* The providers to show are read in this process, on a pool of threads, or come from the service.
StartReads ==
    /\ tbl.pc = "start"
    /\ \E v \in Shown, limit \in SpendLimits, early \in BOOLEAN :
        tbl' = [tbl EXCEPT !.pc = "reading", !.visible = v, !.limit = limit, !.early = early, !.snaps = [p \in v |-> NoSnap]]
    /\ UNCHANGED emb
StartThread(p) ==
    /\ tbl.pc \in {"reading", "cut", "early"} /\ p \in tbl.visible \ (tbl.read \cup tbl.running)
    /\ Cardinality(tbl.running) < Parallel
    /\ tbl' = [tbl EXCEPT !.running = @ \cup {p}]
    /\ UNCHANGED emb
\* ProviderReads._run: a reader that raises leaves its fallback.
FinishRead(p) ==
    /\ tbl.pc \in {"reading", "cut", "early"} /\ p \in tbl.running
    /\ \E snap \in SnapshotsOf(p) \cup {Unavailable("reader-error")} :
        tbl' = [tbl EXCEPT !.running = @ \ {p}, !.read = @ \cup {p}, !.snaps[p] = snap]
    /\ UNCHANGED emb

\* first_table_wait has passed: the unfinished providers are listed ...
FirstTableDue ==
    /\ tbl.pc = "reading" /\ tbl.early /\ tbl.read # tbl.visible
    /\ tbl' = [tbl EXCEPT !.pc = "cut", !.pending = tbl.visible \ tbl.read]
    /\ UNCHANGED emb
\* ... and drawn as being read, if the table fits on the screen.
DrawEarly ==
    /\ tbl.pc = "cut"
    /\ \E fits \in BOOLEAN :
        tbl' = [tbl EXCEPT !.pc = "early",
            !.shown = IF fits THEN BuildUsageRows(tbl.visible, tbl.snaps, tbl.pending, tbl.limit) ELSE @]
    /\ UNCHANGED emb
DrawFinal ==
    /\ tbl.pc \in {"reading", "early"} /\ tbl.read = tbl.visible
    /\ tbl' = [tbl EXCEPT !.pc = "done", !.shown = BuildUsageRows(tbl.visible, tbl.snaps, {}, tbl.limit)]
    /\ UNCHANGED emb
\* The same data by way of the service.
DrawServed ==
    /\ tbl.pc = "done"
    /\ tbl' = [tbl EXCEPT !.pc = "served",
                 !.shown = BuildUsageRows(tbl.visible, ProviderDataFromPayload(ServicePayload(tbl.snaps)), {}, tbl.limit)]
    /\ UNCHANGED emb

-----------------------------------------------------------------------------
(* EmbeddedUsage: one refresh at a time; a failed one keeps the old data. *)

\* snapshot(): starts a refresh that is due; data is known by when it was collected.
Ask ==
    /\ ~emb.running /\ emb.now >= emb.next
    /\ emb' = [emb EXCEPT !.running = TRUE, !.started = emb.now, !.next = emb.now + Refresh]
    /\ UNCHANGED tbl
\* Mutant: the data is dated when it arrives.
CollectedLate ==
    /\ emb.running
    /\ \E t \in emb.started .. emb.now :
        emb' = [emb EXCEPT !.running = FALSE, !.data = t, !.seen = emb.now, !.error = FALSE]
    /\ UNCHANGED tbl
\* The collector read the providers at some time since it was started.
Collected ==
    /\ emb.running
    /\ \E t \in emb.started .. emb.now :
        emb' = [emb EXCEPT !.running = FALSE, !.data = t, !.seen = emb.started, !.error = FALSE]
    /\ UNCHANGED tbl
CollectFailed ==
    /\ emb.running
    /\ emb' = [emb EXCEPT !.running = FALSE, !.error = TRUE]
    /\ UNCHANGED tbl
EmbTick ==
    /\ emb.now < MaxTime
    /\ emb' = [emb EXCEPT !.now = @ + 1]
    /\ UNCHANGED tbl

TableNext ==
    \/ StartReads \/ FirstTableDue \/ DrawEarly \/ DrawFinal \/ DrawServed
    \/ \E p \in tbl.visible : StartThread(p) \/ FinishRead(p)
EmbNext ==
    \/ Ask \/ Collected \/ CollectFailed \/ EmbTick

TableSpec == TableInit /\ EmbInit /\ [][TableNext \/ EmbNext]_<<tbl, emb>>

-----------------------------------------------------------------------------
(* Properties. *)

\* The money a provider reports as spent this month in the budget's currency.
SpendOf(snap) ==
    LET mine == {s \in snap.scopes \cup snap.models : s.spent /\ s.cur \in {"", BudgetCurrency}}
    IN  IF snap.available THEN MapThenSumSet(LAMBDA s : s.amount, mine) ELSE 0

\* A total is shown only in a table of finished reads, and it is the month's
\* spend of all the providers shown, each counted once, whether they were read
\* here or came from the service, and even if a read ended while the early
\* table was drawn (_build_usage_rows, budget_total_row, ProviderReads).
TotalIsWhole ==
    tbl.shown.total # NoTotal =>
        /\ \A r \in tbl.shown.rows : ~r.pending
        /\ tbl.shown.total = MapThenSumSet(LAMBDA p : SpendOf(tbl.snaps[p]), tbl.visible)

\* The last table of a run has no row that is still being read, and it is the
\* same whether the data was read here or sent by the service (snapshot_to_json
\* and back keep what the rows need).
FinalTableAgrees ==
    tbl.pc \in {"done", "served"} =>
        tbl.shown = BuildUsageRows(tbl.visible, tbl.snaps, {}, tbl.limit)

\* A refused launch names a later time to try again, and by then every window
\* and budget that refused it has been reset (decide).
WaitIsLongEnough ==
    \A p \in tbl.read : \A window \in {"auto", "5h", "weekly"} :
        LET snap == LiveSnapshot(p, tbl.snaps[p])
            d    == UsageDecision(snap, window, "", TRUE)
        IN  ~d.usable => /\ d.wait > 0
                         /\ snap.available => \A s \in snap.scopes :
                              window \in {"auto", s.name} /\ s.kind \in {"reset_window", "budget"} /\ s.rem # NoNum
                                /\ s.rem <= MinPercent => d.wait >= s.reset

\* A provider whose windows have all been reset since they were measured is
\* not refused (_scope_blocked).
RolledOverIsUsable ==
    \A p \in tbl.read :
        LET snap == LiveSnapshot(p, tbl.snaps[p])
        IN  snap.available /\ snap.scopes # {} /\ (\A s \in snap.scopes : s.kind = "reset_window" /\ s.rem # NoNum /\ s.reset = 0)
              => UsageDecision(snap, "auto", "", TRUE).usable

\* A model that is pinned without fallback is launched only when the model's
\* own limit has room (model_decision_scopes).
PinIsHonoured ==
    \A p \in tbl.read : \A model \in {"Sonnet", "Spark"} :
        UsageDecision(tbl.snaps[p], "auto", model, FALSE).usable => ~ModelExhausted(tbl.snaps[p], "auto", model)

\* The five-hour figure of z.ai never comes from a limit that says it is longer
\* than a day, nor the weekly one from one that is not about a week
\* (_parse_zai_limits).
ZaiRowsAreTheirs ==
    tbl.pc = "reading" /\ tbl.running \cup tbl.read = {} => \A es \in BoundedSeq(ZaiEntries, 2) :
        LET named == ParseZaiLimits(es)
        IN  /\ named.five.hours # NoNum => named.five.hours <= ShortHours
            /\ named.week.hours # NoNum => named.week.hours \in WeekHours

\* A launch is decided on the limits that apply to it: neither refused for nothing nor for too short,
\* nor allowed against a model's own limit.
DecisionIsSound == WaitIsLongEnough /\ RolledOverIsUsable /\ PinIsHonoured /\ ZaiRowsAreTheirs

\* The age a console shows for its usage is never less than the age of the
\* data, also after refreshes that failed (EmbeddedUsage._refresh).
AgeIsNotUnderstated == emb.data # NoNum => emb.seen <= emb.data
\* What a table or a console shows is what was read, whole and with its age.
ShownIsTrue == TotalIsWhole /\ FinalTableAgrees /\ AgeIsNotUnderstated

=============================================================================

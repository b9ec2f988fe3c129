----------------------------- MODULE MCCapacity -----------------------------
(***************************************************************************)
(* The table of one llm-usage, the dashboard a console embeds, and the     *)
(* service with its clients; each case moves one of the three.             *)
(***************************************************************************)
EXTENDS UsageTable, UsageService

CONSTANTS c1, c2, e1, e2

VARIABLE mix
allVars == <<tbl, emb, mix, svars>>

MCShown == {{"claude"}, {"codex"}, {"minimax"}, {"kilo", "copilot"}, {"opencode", "zai"}}

MCLimits == {NoNum, 1}

Runs(kind, env) == [kind |-> kind, env |-> env]
Piped == Runs("piped", e1)
Case(other, starts, faults) ==
    [runs |-> [c \in Clients |-> IF c = c1 THEN Piped ELSE other], starts |-> starts, faults |-> faults, narrow |-> faults > 0]
\* One client beside a continuous service and one fault; clients of two
\* environments; a client whose sampler outlives it; two piped clients.
MCCases == {Case(Runs("none", e1), 1, 1), Case(Runs("tty", e2), 1, 0), Case(Runs("tty", e1), 0, 1), Case(Piped, 0, 0)}
Nobody == [c \in Clients |-> NewClient("none", e1)]

MCInit ==
    /\ mix \in {"table", "console", "service"}
    /\ TableInit /\ EmbInit
    /\ \/ mix = "service" /\ ServiceInit
       \/ /\ mix # "service" /\ svc = [s \in Services |-> OffService] /\ cl = Nobody /\ path = NoOne
          /\ latest = NoSample /\ narrow = FALSE /\ spare = [starts |-> 0, faults |-> 0]
MCNext ==
    \/ mix = "table" /\ TableNext /\ UNCHANGED <<mix, svars>>
    \/ mix = "console" /\ EmbNext /\ UNCHANGED <<mix, svars>>
    \/ mix = "service" /\ ServiceNext /\ UNCHANGED <<mix, tbl, emb>>
MCSpec == MCInit /\ [][MCNext]_allVars /\ ServiceFairness
=============================================================================

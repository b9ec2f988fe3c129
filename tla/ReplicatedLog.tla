--------------------------- MODULE ReplicatedLog ---------------------------
(***************************************************************************)
(* What event replication promises (docs/distributed/protocol.md, "Event   *)
(* replication"): the coordinator's copy of a worker's event log follows   *)
(* the log in order.  The worker's database is authoritative and changes   *)
(* as it likes; the coordinator only moves its cursor forward, and a move  *)
(* brings every durable event that it passes and touches no other row.     *)
(***************************************************************************)
EXTENDS Integers, FiniteSets

CONSTANTS
    MaxId,      \* highest event id
    Cap         \* events the coordinator keeps per worker

VARIABLES
    log,        \* id -> event of the worker's database
    copy,       \* id -> event of the coordinator's database
    cursor      \* the coordinator's event cursor

vars == <<log, copy, cursor>>

Ids == 1 .. MaxId
Gone == [kind |-> "gone", epoch |-> 0]

Init == log = [i \in Ids |-> Gone] /\ copy = [i \in Ids |-> Gone] /\ cursor = 0

\* The worker writes, prunes or restores.
Change == log' # log /\ UNCHANGED <<copy, cursor>>

\* The rows that the cap allows to be gone: Cap newer ones are kept.
Dropped(i) == copy'[i] = Gone /\ Cardinality({j \in Ids : j > i /\ copy'[j] # Gone}) >= Cap

\* The cursor moves to k.
Advance(k) ==
    /\ k > cursor /\ cursor' = k
    /\ \A i \in Ids \ (cursor + 1 .. k) : copy'[i] = copy[i] \/ Dropped(i)
    /\ \A i \in cursor + 1 .. k : log[i].kind = "durable" => copy'[i] = log[i] \/ Dropped(i)
    /\ Cardinality({i \in Ids : copy'[i] # Gone}) <= Cap
    /\ UNCHANGED log

Next == Change \/ \E k \in Ids : Advance(k)

Spec == Init /\ [][Next]_vars
=============================================================================

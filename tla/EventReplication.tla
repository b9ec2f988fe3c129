-------------------------- MODULE EventReplication --------------------------
(***************************************************************************)
(* A worker's event log and its copy on the coordinator: bridge_worker     *)
(* (WorkerSession, run), the coordinator's side of the connection, and     *)
(* what happens to the log meanwhile: new events, pruning, and a restore   *)
(* from a backup (bridge_backup).                                          *)
(*                                                                         *)
(* A connection is a FIFO channel in each direction.  The worker may give  *)
(* one up while the coordinator still reads what is left in it.  The       *)
(* coordinator is external Rust code under src/coordinator.                *)
(***************************************************************************)
EXTENDS Integers, Sequences, FiniteSets

CONSTANTS
    MaxId,      \* highest event id
    MaxConns,   \* bound on connections
    BatchSize,  \* EVENT_BATCH
    Cap,        \* events the coordinator keeps per worker
    MaxPings,   \* bound on pings without an answer
    MaxEpoch,   \* bound on restores
    Careful     \* a restore is neither interrupted nor raced by a writer

ASSUME ReplicationAssumption ==
    {MaxId, MaxConns, BatchSize, Cap, MaxPings} \subseteq Nat \ {0} /\ MaxEpoch \in Nat /\ Careful \in BOOLEAN

Ids == 1 .. MaxId
Conns == 1 .. MaxConns
Kinds == {"durable", "heartbeat", "refresh"}
Gone == [kind |-> "gone", epoch |-> 0]
Events == [kind : Kinds, epoch : 0 .. MaxEpoch] \cup {Gone}
Logs == [Ids -> Events]
Empty == [i \in Ids |-> Gone]
NoCursor == -1

VARIABLES
    log, last,      \* events table, and the highest id it has issued
    backup,         \* a backup of both
    restore,        \* the restore under way: its step and previous_sequence
    epoch,          \* restores so far
    copy, cursor,   \* the coordinator's events table and event_cursor
    issued,         \* the highest generation it has issued
    links,          \* per connection: what the coordinator has still to read
    worker,         \* WorkerSession, max_generation included
    down            \* what the worker has still to read

db == <<log, last, backup, restore, epoch>>
coord == <<copy, cursor, issued>>
vars == <<db, coord, links, worker, down>>

NoBatch == [after |-> NoCursor, through |-> NoCursor]
Unused == [state |-> "unused", gen |-> 0, up |-> <<>>]
Fresh(c, g) == [conn |-> c, gen |-> 0, max |-> g, cursor |-> NoCursor, inflight |-> NoBatch, pongs |-> <<>>]
NotRestoring == [step |-> "no", previous |-> 0]

Up(type, after, through, evs) == [type |-> type, after |-> after, through |-> through, evs |-> evs]
Down(type, gen, at) == [type |-> type, gen |-> gen, at |-> at]
Hello == Up("hello", 0, 0, {})
Ping == Up("ping", 0, 0, {})

TypeOK ==
    /\ log \in Logs /\ last \in 0 .. MaxId /\ epoch \in 0 .. MaxEpoch
    /\ backup \in [taken : BOOLEAN, log : Logs, last : 0 .. MaxId]
    /\ restore \in [step : {"no", "read", "copied"}, previous : 0 .. MaxId]
    /\ copy \in Logs /\ cursor \in 0 .. MaxId /\ issued \in 0 .. MaxConns
    /\ Cardinality({i \in Ids : copy[i] # Gone}) <= Cap
    /\ \A c \in Conns : links[c].state \in {"unused", "hello", "open", "closed"} /\ links[c].gen \in 0 .. MaxConns
    /\ worker.conn \in 0 .. MaxConns /\ {worker.gen, worker.max} \subseteq 0 .. issued
    /\ worker.cursor \in NoCursor .. MaxId /\ Len(worker.pongs) <= MaxPings + 1

Init ==
    /\ log = Empty /\ last = 0 /\ backup = [taken |-> FALSE, log |-> Empty, last |-> 0]
    /\ restore = NotRestoring /\ epoch = 0
    /\ copy = Empty /\ cursor = 0 /\ issued = 0
    /\ links = [c \in Conns |-> Unused]
    /\ worker = Fresh(0, 0) /\ down = <<>>

-----------------------------------------------------------------------------
(* The worker's database. *)

Write(kind) ==
    /\ last < MaxId
    /\ Careful => restore.step = "no"
    /\ last' = last + 1
    /\ log' = [log EXCEPT ![last + 1] = [kind |-> kind, epoch |-> epoch]]
    /\ UNCHANGED <<backup, restore, epoch, coord, links, worker, down>>

Newest(kind) == {i \in Ids : log[i].kind = kind /\ \A j \in Ids : j > i => log[j].kind # kind}

\* prune_plumbing_events
Prune(i) ==
    /\ log[i].kind \in {"heartbeat", "refresh"} /\ i \notin Newest(log[i].kind)
    /\ log' = [log EXCEPT ![i] = Gone]
    /\ UNCHANGED <<last, backup, restore, epoch, coord, links, worker, down>>

TakeBackup ==
    /\ ~backup.taken /\ restore.step = "no" /\ MaxEpoch > 0
    /\ backup' = [taken |-> TRUE, log |-> log, last |-> last]
    /\ UNCHANGED <<log, last, restore, epoch, coord, links, worker, down>>

\* restore: the sequence of the database is read, ...
RestoreRead ==
    /\ backup.taken /\ epoch < MaxEpoch /\ restore.step = "no"
    /\ restore' = [step |-> "read", previous |-> last]
    /\ UNCHANGED <<log, last, backup, epoch, coord, links, worker, down>>

\* ... the backup takes its place, ...
RestoreCopy ==
    /\ restore.step = "read"
    /\ log' = backup.log /\ last' = backup.last
    /\ epoch' = epoch + 1
    /\ restore' = [restore EXCEPT !.step = "copied"]
    /\ UNCHANGED <<backup, coord, links, worker, down>>

\* Mutant: the sequence is left as the backup has it.
RestoreRaiseNot ==
    /\ restore.step = "copied"
    /\ restore' = NotRestoring
    /\ UNCHANGED <<log, last, backup, epoch, coord, links, worker, down>>

\* ... and its sequence is raised, unless the restore is interrupted.
RestoreRaise ==
    /\ restore.step = "copied"
    /\ \E done \in (IF Careful THEN {TRUE} ELSE BOOLEAN) :
          last' = IF done /\ restore.previous > last THEN restore.previous ELSE last
    /\ restore' = NotRestoring
    /\ UNCHANGED <<log, backup, epoch, coord, links, worker, down>>

-----------------------------------------------------------------------------
(* The worker. *)

Send(c, msgs) == links' = [links EXCEPT ![c].up = @ \o msgs]

\* run: a new connection starts with hello and a fresh session.
Connect ==
    /\ worker.conn = 0
    /\ \E c \in Conns :
          /\ links[c].state = "unused" /\ \A d \in Conns : links[d].state = "unused" => c <= d
          /\ links' = [links EXCEPT ![c] = [state |-> "hello", gen |-> 0, up |-> <<Hello>>]]
          /\ worker' = Fresh(c, worker.max)
    /\ down' = <<>>
    /\ UNCHANGED <<db, coord>>

\* The connection is lost, or the worker was silent for too long, or it restarts.
Disconnect ==
    /\ worker.conn # 0
    /\ worker.conn < MaxConns
    /\ worker' = Fresh(0, worker.max) /\ down' = <<>>
    /\ UNCHANGED <<db, coord, links>>

Welcomed == worker.conn # 0 /\ worker.gen # 0

Receive(type) == worker.conn # 0 /\ down # <<>> /\ Head(down).type = type /\ down' = Tail(down)

\* A generation that is not newer is refused and ends the connection.
ReceiveWelcome ==
    /\ Receive("welcome")
    /\ LET m == Head(down)
       IN  worker' = IF m.gen <= worker.max THEN Fresh(0, worker.max)
                     ELSE [Fresh(worker.conn, m.gen) EXCEPT !.gen = m.gen, !.cursor = m.at]
    /\ UNCHANGED <<db, coord, links>>

\* No ping that is under way fences a batch any more.
NoFence == [k \in 1 .. Len(worker.pongs) |-> FALSE]

\* Mutant: any pong confirms the batch in flight.
ReceivePongAny ==
    /\ Receive("pong")
    /\ worker' = IF worker.inflight # NoBatch
                 THEN [worker EXCEPT !.cursor = worker.inflight.through, !.inflight = NoBatch, !.pongs = Tail(NoFence)]
                 ELSE [worker EXCEPT !.pongs = Tail(@)]
    /\ UNCHANGED <<db, coord, links>>

\* Mutant: a confirmed batch stays in flight.
ReceivePongHeld ==
    /\ Receive("pong")
    /\ worker' = [worker EXCEPT !.cursor = IF Head(worker.pongs) THEN worker.inflight.through ELSE @, !.pongs = Tail(@)]
    /\ UNCHANGED <<db, coord, links>>

\* _pong: the pong of the ping behind the batch in flight confirms it.
ReceivePong ==
    /\ Receive("pong")
    /\ worker' = IF Head(worker.pongs)
                 THEN [worker EXCEPT !.cursor = worker.inflight.through, !.inflight = NoBatch, !.pongs = Tail(NoFence)]
                 ELSE [worker EXCEPT !.pongs = Tail(@)]
    /\ UNCHANGED <<db, coord, links>>

\* _nack: rewind, unless it answers a batch that was superseded.
ReceiveNack ==
    /\ Receive("nack")
    /\ LET expected == Head(down).at
       IN  worker' = IF worker.inflight = NoBatch \/ expected = worker.inflight.after THEN worker
                     ELSE [worker EXCEPT !.cursor = expected, !.inflight = NoBatch, !.pongs = NoFence]
    /\ UNCHANGED <<db, coord, links>>

\* Mutant: a refresh is skipped like a heartbeat.
ReplicableDurable(i) == log[i].kind = "durable"

\* A heartbeat and a superseded refresh are not replicated.
Replicable(i) == log[i].kind = "durable" \/ (log[i].kind = "refresh" /\ i \in Newest("refresh"))

Selected(after, k) == {i \in after + 1 .. k : Replicable(i)}

\* _replicable_events: as many rows as one batch holds.
Through(after) ==
    LET rows == {after} \cup {i \in Ids : i > after /\ log[i] # Gone}
        fits == {k \in rows : Cardinality(Selected(after, k)) <= BatchSize}
    IN  CHOOSE k \in fits : \A j \in fits : j <= k

\* next_events and barrier_ping.  A batch without new rows carries a mission
\* summary only.
SendEvents ==
    /\ Welcomed /\ worker.inflight = NoBatch /\ Len(worker.pongs) < MaxPings
    /\ LET k == Through(worker.cursor)
           evs == {[id |-> i, ev |-> log[i]] : i \in Selected(worker.cursor, k)}
       IN  /\ Send(worker.conn, <<Up("events", worker.cursor, k, evs), Ping>>)
           /\ worker' = [worker EXCEPT !.inflight = [after |-> worker.cursor, through |-> k],
                                       !.pongs = Append(NoFence, TRUE)]
    /\ UNCHANGED <<db, coord, down>>

\* The keepalive.
SendPing ==
    /\ Welcomed /\ Len(worker.pongs) < MaxPings
    /\ Send(worker.conn, <<Ping>>)
    /\ worker' = [worker EXCEPT !.pongs = Append(@, FALSE)]
    /\ UNCHANGED <<db, coord, down>>

-----------------------------------------------------------------------------
(* The coordinator. *)

Reply(c, m) == down' = IF c = worker.conn THEN Append(down, m) ELSE down

Read(c, type) ==
    /\ links[c].state = (IF type = "hello" THEN "hello" ELSE "open")
    /\ links[c].up # <<>> /\ Head(links[c].up).type = type

\* worker_hello: a new generation; the welcome has the stored cursor.
HandleHello(c) ==
    /\ Read(c, "hello")
    /\ issued' = issued + 1
    /\ links' = [links EXCEPT ![c] = [state |-> "open", gen |-> issued + 1, up |-> Tail(@.up)]]
    /\ Reply(c, Down("welcome", issued + 1, cursor))
    /\ UNCHANGED <<db, copy, cursor, worker>>

\* The oldest rows beyond the cap.
Excess(c) == {i \in Ids : c[i] # Gone /\ Cardinality({j \in Ids : j > i /\ c[j] # Gone}) >= Cap}
Capped(c) == [i \in Ids |-> IF i \in Excess(c) THEN Gone ELSE c[i]]

\* Mutant: a batch is stored wherever it starts.
HandleEventsAnywhere(c) ==
    /\ Read(c, "events")
    /\ LET m == Head(links[c].up)
           full == [i \in Ids |-> IF \E e \in m.evs : e.id = i THEN (CHOOSE e \in m.evs : e.id = i).ev ELSE copy[i]]
       IN  copy' = Capped(full) /\ cursor' = m.through /\ down' = down
    /\ links' = [links EXCEPT ![c].up = Tail(@)]
    /\ UNCHANGED <<db, issued, worker>>

\* events_store: a batch that does not start at the cursor is refused.
HandleEvents(c) ==
    /\ Read(c, "events")
    /\ LET m == Head(links[c].up)
           full == [i \in Ids |-> IF \E e \in m.evs : e.id = i THEN (CHOOSE e \in m.evs : e.id = i).ev ELSE copy[i]]
       IN  IF m.after # cursor
           THEN Reply(c, Down("nack", 0, cursor)) /\ UNCHANGED <<copy, cursor>>
           ELSE copy' = Capped(full) /\ cursor' = m.through /\ down' = down
    /\ links' = [links EXCEPT ![c].up = Tail(@)]
    /\ UNCHANGED <<db, issued, worker>>

HandlePing(c) ==
    /\ Read(c, "ping")
    /\ Reply(c, Down("pong", 0, 0))
    /\ links' = [links EXCEPT ![c].up = Tail(@)]
    /\ UNCHANGED <<db, coord, worker>>

\* A connection that the worker gave up, or that a newer one replaced, ends; what
\* is left in it is lost.
CloseLink(c) ==
    /\ links[c].state \in {"hello", "open"} /\ c # worker.conn
    /\ links' = [links EXCEPT ![c] = [state |-> "closed", gen |-> 0, up |-> <<>>]]
    /\ UNCHANGED <<db, coord, worker, down>>

Deliver(c) == HandleHello(c) \/ HandleEvents(c) \/ HandlePing(c)
WorkerReads == ReceiveWelcome \/ ReceivePong \/ ReceiveNack
Replicate == SendEvents /\ Through(worker.cursor) > worker.cursor

Next ==
    \/ \E kind \in Kinds : Write(kind)
    \/ \E i \in Ids : Prune(i)
    \/ TakeBackup \/ RestoreRead \/ RestoreCopy \/ RestoreRaise
    \/ Connect \/ Disconnect \/ WorkerReads \/ SendEvents \/ SendPing
    \/ \E c \in Conns : Deliver(c) \/ CloseLink(c)

\* The worker reconnects, both sides read what arrives, and the worker sends what
\* is new whenever no batch is in flight (keepalives cannot crowd it out).
Fairness ==
    /\ WF_vars(Connect) /\ WF_vars(WorkerReads) /\ SF_vars(Replicate)
    /\ \A c \in Conns : WF_vars(Deliver(c))

Spec == Init /\ [][Next]_vars /\ Fairness

-----------------------------------------------------------------------------
(* Properties. *)

\* Every durable event the cursor has passed is in the coordinator's copy (or
\* fell to the cap), and so is the newest refresh while nothing was restored.
NothingLost ==
    \A i \in 1 .. cursor :
        log[i].kind = "durable" \/ (i \in Newest("refresh") /\ epoch = 0) =>
            copy[i] = log[i] \/ Cardinality({j \in Ids : j > i /\ copy[j] # Gone}) >= Cap

\* Detailed replication implements the abstract one.
Abstract == INSTANCE ReplicatedLog WITH log <- log, copy <- copy, cursor <- cursor
FollowsLog == Abstract!Spec

\* Once the connection stays up, every durable event passes to the coordinator.
EventsArrive == \A i \in Ids : log[i].kind = "durable" ~> (log[i] = Gone \/ cursor >= i)
=============================================================================

----------------------------- MODULE ViewProofs -----------------------------
(* Proofs about what is shown of a database that others write, for every       *)
(* instance.                                                                   *)
(*  1. EventReplication, for every log, cap, batch size and number of          *)
(*     connections and restores, where a restore is careful: nothing is lost,  *)
(*     and detailed replication implements ReplicatedLog.                      *)
(*  2. Console, for every set of tasks, views and contents of the store: what  *)
(*     the operator was told is kept is on disk, and threads that end late     *)
(*     change nothing.                                                         *)
EXTENDS EventReplication, Console, SequenceTheorems, FiniteSetTheorems, WellFoundedInduction, TLAPS

-----------------------------------------------------------------------------
(* 1. EventReplication *)

----------------------------------------------------------------------------
(* Finite sets of numbers: extremes, and what is left of a set when only its   *)
(* largest members are kept.                                                   *)

\* A set of natural numbers has a least element.
LEMMA Minimum ==
  ASSUME NEW S, S \subseteq Nat, S # {} PROVE \E m \in S : \A k \in S : m <= k
<1>1. PICK m \in S : \A k \in S : <<k, m>> \notin OpToRel(<, Nat)
  BY NatLessThanWellFounded, WFMin
<1>2. \A k \in S : ~(k < m)
  BY <1>1 DEF OpToRel
<1> QED BY <1>2

\* A set of integers with a bound has a largest element.
LEMMA Maximum ==
  ASSUME NEW S, NEW a \in Int, NEW b \in Int, S \subseteq a .. b, S # {} PROVE \E m \in S : \A k \in S : k <= m
<1> DEFINE T == {b - k : k \in S}
<1>1. T \subseteq Nat /\ T # {}
  OBVIOUS
<1>2. PICK t \in T : \A u \in T : t <= u
  BY <1>1, Minimum
<1>3. PICK m \in S : t = b - m
  OBVIOUS
<1>4. \A k \in S : t <= b - k
  BY <1>2
<1> QED BY <1>3, <1>4

\* Of a set of numbers, those with fewer than n greater ones.
Above(S, i) == {j \in S : j > i}
Top(S, n) == {i \in S : Cardinality(Above(S, i)) < n}

\* What is above is finite.
LEMMA AboveFinite ==
  ASSUME NEW S, IsFiniteSet(S), NEW i
  PROVE  /\ IsFiniteSet(Above(S, i)) /\ Cardinality(Above(S, i)) \in Nat
         /\ Cardinality(Above(S, i)) <= Cardinality(S)
<1>1. Above(S, i) \in SUBSET S
  BY DEF Above
<1> QED BY <1>1, FS_Subset, FS_CardinalityType

\* The largest n members are at most n.
LEMMA TopIsSmall ==
  ASSUME NEW S, S \subseteq Nat, IsFiniteSet(S), NEW n \in Nat PROVE Cardinality(Top(S, n)) <= n
<1> DEFINE T == Top(S, n)
<1>1. CASE T = {}
  BY <1>1, FS_EmptySet
<1>2. CASE T # {}
  <2>1. T \subseteq Nat
    BY DEF Top
  <2>2. PICK m \in T : \A k \in T : m <= k
    BY <1>2, <2>1, Minimum
  <2>3. Cardinality(Above(S, m)) < n /\ IsFiniteSet(Above(S, m)) /\ Cardinality(Above(S, m)) \in Nat
    BY <2>2, AboveFinite DEF Top
  <2>4. T \in SUBSET (Above(S, m) \cup {m})
    BY <2>1, <2>2 DEF Above, Top
  <2>5. IsFiniteSet(Above(S, m) \cup {m}) /\ Cardinality(Above(S, m) \cup {m}) <= Cardinality(Above(S, m)) + 1
    <3>1. m \notin Above(S, m)
      BY <2>1, <2>2 DEF Above
    <3>2. IsFiniteSet(Above(S, m) \cup {m}) /\ Cardinality(Above(S, m) \cup {m}) = Cardinality(Above(S, m)) + 1
      BY <2>3, <3>1, FS_AddElement
    <3> QED BY <2>3, <3>2
  <2>6. Cardinality(T) <= Cardinality(Above(S, m) \cup {m}) /\ IsFiniteSet(T)
    BY <2>4, <2>5, FS_Subset
  <2>7. Cardinality(T) \in Nat /\ Cardinality(Above(S, m) \cup {m}) \in Nat
    BY <2>5, <2>6, FS_CardinalityType
  <2> QED BY <2>3, <2>5, <2>6, <2>7
<1> QED BY <1>1, <1>2

\* Nothing is dropped from a set that is small already.
LEMMA TopOfSmall ==
  ASSUME NEW S, S \subseteq Nat, IsFiniteSet(S), NEW n \in Nat, Cardinality(S) <= n PROVE Top(S, n) = S
<1> SUFFICES ASSUME NEW i \in S PROVE Cardinality(Above(S, i)) < n
  BY DEF Top
<1>1. Above(S, i) \in SUBSET S /\ i \notin Above(S, i)
  BY DEF Above
<1>2. Cardinality(Above(S, i)) # Cardinality(S)
  BY <1>1, FS_Subset
<1> QED BY <1>2, AboveFinite, FS_CardinalityType

\* A dropped member has n kept ones above it.
LEMMA TopAbove ==
  ASSUME NEW b \in Nat, NEW S, S \subseteq 1 .. b, IsFiniteSet(S),
         NEW n \in Nat \ {0}, NEW i \in Nat, Cardinality(Above(S, i)) >= n
  PROVE  Cardinality(Above(Top(S, n), i)) >= n
<1> DEFINE U == Above(S, i)
           From(j) == {k \in U : k >= j}
           J == {j \in U : Cardinality(From(j)) >= n}
<1>1. U \subseteq Nat /\ U \subseteq 1 .. b /\ IsFiniteSet(U) /\ Cardinality(U) >= n
  <2>1. U \subseteq S
    BY DEF Above
  <2>2. IsFiniteSet(U) /\ Cardinality(U) >= n
    BY AboveFinite
  <2> HIDE DEF U
  <2> QED BY <2>1, <2>2
<1>2. \A j : /\ IsFiniteSet(From(j)) /\ Cardinality(From(j)) \in Nat
             /\ \A k : k \in From(j) <=> k \in U /\ k >= j
  <2> TAKE j
  <2>1. From(j) \in SUBSET U
    OBVIOUS
  <2> QED BY <1>1, <2>1, FS_Subset, FS_CardinalityType
<1>3. J \subseteq U /\ \A j \in U : j \in J <=> Cardinality(From(j)) >= n
  OBVIOUS
<1>4. \A k : k \in U <=> k \in S /\ k > i
  BY DEF Above
<1> HIDE DEF U, From, J
<1>5. J # {}
  <2>1. U # {}
    BY <1>1, FS_EmptySet
  <2>2. PICK j \in U : \A k \in U : j <= k
    BY <1>1, <2>1, Minimum
  <2>3. From(j) = U
    BY <1>1, <1>2, <2>2
  <2> QED BY <1>1, <1>3, <2>2, <2>3
<1>6. PICK m \in J : \A j \in J : j <= m
  <2>1. J \subseteq 1 .. b
    BY <1>1, <1>3
  <2>2. 1 \in Int /\ b \in Int
    OBVIOUS
  <2> QED BY <1>5, <2>1, <2>2, Maximum
<1>7. m \in U /\ m \in From(m) /\ Cardinality(From(m)) >= n /\ m \in Nat
  BY <1>1, <1>2, <1>3, <1>6
<1>8. Cardinality(From(m)) = n
  <2> DEFINE V == From(m) \ {m}
  <2>1. IsFiniteSet(V) /\ Cardinality(V) = Cardinality(From(m)) - 1 /\ V \subseteq Nat /\ V \subseteq U
    <3>1. IsFiniteSet(From(m))
      BY <1>2
    <3>2. IsFiniteSet(V) /\ Cardinality(V) = Cardinality(From(m)) - 1
      BY <1>7, <3>1, FS_RemoveElement
    <3> QED BY <1>1, <1>2, <3>2
  <2>2. SUFFICES ASSUME Cardinality(V) >= n PROVE FALSE
    BY <1>2, <1>7, <2>1
  <2>3. V # {}
    BY <2>2, FS_EmptySet
  <2>4. PICK j \in V : \A k \in V : j <= k
    <3> HIDE DEF V
    <3> QED BY <2>1, <2>3, Minimum
  <2>5. \A k : k \in V <=> k \in U /\ k > m
    <3>1. \A k \in U : k >= m /\ k # m <=> k > m
      BY <1>1, <1>7
    <3>2. \A k : k \in V <=> k \in U /\ k >= m /\ k # m
      BY <1>2
    <3> QED BY <3>1, <3>2
  <2>6. From(j) = V
    <3>1. j > m /\ j \in Nat
      BY <1>1, <2>5
    <3>2. \A k \in U : k >= j <=> k > m
      BY <1>1, <1>7, <2>4, <2>5, <3>1
    <3> QED BY <1>2, <2>5, <3>2
  <2>7. j \in J /\ j > m
    BY <1>3, <2>2, <2>5, <2>6
  <2> QED BY <1>1, <1>3, <1>6, <1>7, <2>7
<1>9. From(m) \subseteq Above(Top(S, n), i)
  <2> SUFFICES ASSUME NEW k \in From(m) PROVE k \in Top(S, n) /\ k > i
    BY DEF Above
  <2>1. k \in S /\ k > i /\ k >= m /\ k \in Nat
    BY <1>1, <1>2, <1>4
  <2>2. Above(S, k) \in SUBSET (From(m) \ {k})
    <3> SUFFICES ASSUME NEW l \in Above(S, k) PROVE l \in From(m) /\ l # k
      OBVIOUS
    <3>1. l \in S /\ l > k /\ l \in Nat
      BY DEF Above
    <3>2. l > i /\ l >= m /\ l # k
      BY <1>7, <2>1, <3>1
    <3> QED BY <1>2, <1>4, <3>1, <3>2
  <2>3. IsFiniteSet(From(m) \ {k}) /\ Cardinality(From(m) \ {k}) = n - 1
    <3>1. IsFiniteSet(From(m))
      BY <1>2
    <3>2. Cardinality(From(m) \ {k}) = Cardinality(From(m)) - 1 /\ IsFiniteSet(From(m) \ {k})
      BY <3>1, FS_RemoveElement
    <3> QED BY <1>8, <3>2
  <2>4. Cardinality(Above(S, k)) <= n - 1 /\ Cardinality(Above(S, k)) \in Nat
    BY <2>2, <2>3, FS_Subset, AboveFinite
  <2> QED BY <2>1, <2>4 DEF Top
<1>10. IsFiniteSet(Above(Top(S, n), i)) /\ Cardinality(Above(Top(S, n), i)) \in Nat
  <2>1. Top(S, n) \in SUBSET S
    BY DEF Top
  <2>2. IsFiniteSet(Top(S, n))
    BY <2>1, FS_Subset
  <2> QED BY <2>2, AboveFinite
<1>11. Cardinality(From(m)) <= Cardinality(Above(Top(S, n), i))
  BY <1>9, <1>10, FS_Subset
<1> QED BY <1>8, <1>10, <1>11

----------------------------------------------------------------------------
(* The cap *)

Rows(c) == {i \in Ids : c[i] # Gone}

\* Newer rows of c than i are Cap at least.
Full(c, i) == Cardinality(Above(Rows(c), i)) >= Cap

LEMMA RowsAbove == \A c, i : Above(Rows(c), i) = {j \in Ids : j > i /\ c[j] # Gone}
BY DEF Above, Rows

LEMMA RowsFinite ==
  ASSUME NEW c PROVE /\ Rows(c) \subseteq 1 .. MaxId /\ Rows(c) \subseteq Nat /\ IsFiniteSet(Rows(c))
                     /\ Cardinality(Rows(c)) \in Nat
                     /\ \A i : IsFiniteSet(Above(Rows(c), i)) /\ Cardinality(Above(Rows(c), i)) \in Nat
<1>1. 1 \in Int /\ MaxId \in Int
  BY ReplicationAssumption
<1>2. Rows(c) \in SUBSET (1 .. MaxId)
  BY DEF Rows, Ids
<1>3. IsFiniteSet(Rows(c))
  BY <1>1, <1>2, FS_Interval, FS_Subset
<1>4. Rows(c) \subseteq Nat
  BY <1>1, <1>2
<1> QED BY <1>2, <1>3, <1>4, FS_CardinalityType, AboveFinite

\* The cap drops a row only if as many newer ones stay, and nothing from a table
\* within it.
LEMMA CappedIs ==
  ASSUME NEW c \in Logs
  PROVE  /\ Capped(c) \in Logs /\ Cardinality(Rows(Capped(c))) <= Cap
         /\ \A i \in Ids : Capped(c)[i] = c[i] \/ (Capped(c)[i] = Gone /\ Full(Capped(c), i))
         /\ \A i \in Ids : Full(c, i) => Full(Capped(c), i)
         /\ Cardinality(Rows(c)) <= Cap => Capped(c) = c
<1>1. Cap \in Nat \ {0} /\ MaxId \in Nat /\ Ids \subseteq Nat
  BY ReplicationAssumption DEF Ids
<1>2. \A i \in Ids : i \in Excess(c) <=> c[i] # Gone /\ Full(c, i)
  BY RowsAbove DEF Excess, Full
<1>3. Capped(c) \in Logs
  BY DEF Capped, Logs, Events
<1>4. Rows(Capped(c)) = Top(Rows(c), Cap)
  <2>1. \A i \in Ids : Capped(c)[i] # Gone <=> c[i] # Gone /\ ~Full(c, i)
    BY <1>2 DEF Capped
  <2>2. \A i \in Ids : ~Full(c, i) <=> Cardinality(Above(Rows(c), i)) < Cap
    BY <1>1, RowsFinite DEF Full
  <2> QED BY <2>1, <2>2 DEF Rows, Top
<1>5. \A i \in Ids : Full(c, i) => Full(Capped(c), i)
  BY <1>1, <1>4, RowsFinite, TopAbove DEF Full
<1>6. Cardinality(Rows(Capped(c))) <= Cap
  BY <1>1, <1>4, RowsFinite, TopIsSmall
<1>7. \A i \in Ids : Capped(c)[i] = c[i] \/ (Capped(c)[i] = Gone /\ Full(Capped(c), i))
  BY <1>2, <1>5 DEF Capped
<1>8. ASSUME Cardinality(Rows(c)) <= Cap PROVE Capped(c) = c
  <2>1. Rows(Capped(c)) = Rows(c)
    BY <1>1, <1>4, <1>8, RowsFinite, TopOfSmall
  <2>2. \A i \in Ids : Capped(c)[i] = c[i]
    BY <1>7, <2>1 DEF Rows
  <2> QED BY <1>3, <2>2 DEF Logs
<1> QED BY <1>3, <1>5, <1>6, <1>7, <1>8

----------------------------------------------------------------------------
(* The inductive invariant *)

\* The highest id that was ever issued; a restore comes back to it.
High == IF restore.step = "no" THEN last ELSE restore.previous

\* The event must reach the coordinator.
Wanted(i) == log[i].kind = "durable" \/ (i \in Newest("refresh") /\ epoch = 0)

\* The worker's database.  A durable event that a restore would bring back is the
\* one the log has.
DbInv ==
  /\ log \in Logs /\ last \in 0 .. MaxId /\ epoch \in 0 .. MaxEpoch
  /\ backup \in [taken : BOOLEAN, log : Logs, last : 0 .. MaxId]
  /\ restore \in [step : {"no", "read", "copied"}, previous : 0 .. MaxId]
  /\ last <= High /\ backup.last <= High
  /\ \A i \in Ids : (log[i] # Gone => i <= High) /\ (backup.log[i] # Gone => i <= High)
  /\ \A i \in Ids : backup.log[i].kind = "durable" => log[i] = backup.log[i]
  /\ restore.step = "read" => epoch < MaxEpoch

\* A batch under way has whatever the log still wants of its range.
Carries(m) ==
  m.type = "events" /\ m.after \in Nat =>
    /\ m.through \in m.after .. High
    /\ \A e \in m.evs : e.id \in m.after + 1 .. m.through /\ e.ev \in Events \ {Gone}
    /\ \A e, f \in m.evs : e.id = f.id => e = f
    /\ \A i \in m.after + 1 .. m.through : Wanted(i) => \E e \in m.evs : e.id = i /\ e.ev = log[i]

LinksInv ==
  /\ links = [c \in Conns |-> links[c]]
  /\ \A c \in Conns :
        /\ links[c] = [state |-> links[c].state, gen |-> links[c].gen, up |-> links[c].up]
        /\ \E M : links[c].up \in Seq(M)
        /\ \A k \in 1 .. Len(links[c].up) : Carries(links[c].up[k])

\* No cursor is ahead of the log.
WorkerInv ==
  /\ worker = [conn |-> worker.conn, gen |-> worker.gen, max |-> worker.max, cursor |-> worker.cursor,
               inflight |-> worker.inflight, pongs |-> worker.pongs]
  /\ worker.cursor \in NoCursor .. High /\ worker.inflight.through \in NoCursor .. High
  /\ \E M : down \in Seq(M)
  /\ \A k \in 1 .. Len(down) : down[k].at \in 0 .. High

CopyInv ==
  /\ copy \in Logs /\ Cardinality(Rows(copy)) <= Cap /\ cursor \in 0 .. High
  /\ \A i \in 1 .. cursor : Wanted(i) => copy[i] = log[i] \/ Full(copy, i)

ReplicationInv == DbInv /\ LinksInv /\ WorkerInv /\ CopyInv

Moved == Next \/ UNCHANGED vars

----------------------------------------------------------------------------
(* The worker's database *)

\* What a step may do to it: ids advance, and what is wanted was wanted before.
DbStep ==
  /\ DbInv' /\ High \in 0 .. MaxId /\ High <= High'
  /\ \A i \in Ids : i <= High /\ Wanted(i)' => Wanted(i) /\ log'[i] = log[i]

\* Writing, pruning, and every step of a careful restore do that.
LEMMA DbMoves == ASSUME Careful, DbInv, Moved PROVE DbStep
<1> USE DEF DbInv, DbStep, High, Ids
<1> DEFINE Same == \A i \in Ids : i <= High /\ Wanted(i)' => Wanted(i) /\ log'[i] = log[i]
<1>1. MaxId \in Nat /\ MaxEpoch \in Nat /\ High \in 0 .. MaxId
  BY ReplicationAssumption
<1>2. CASE UNCHANGED db
  BY <1>1, <1>2 DEF db, Wanted, Newest
<1>3. CASE \E kind \in Kinds : Write(kind)
  <2> PICK kind \in Kinds : Write(kind)
    BY <1>3
  <2>1. /\ restore.step = "no" /\ last + 1 \in Ids /\ last' = last + 1 /\ log[last + 1] = Gone
        /\ log' = [log EXCEPT ![last + 1] = [kind |-> kind, epoch |-> epoch]]
        /\ UNCHANGED <<backup, restore, epoch>>
    BY <1>1 DEF Write
  <2>2. log' \in Logs
    BY <1>1, <2>1 DEF Logs, Events
  <2>3. Same
    BY <1>1, <2>1 DEF Wanted, Newest, Logs, Gone
  <2>4. \A i \in Ids : backup.log[i].kind = "durable" => log'[i] = backup.log[i]
    BY <1>1, <2>1 DEF Gone
  <2> QED BY <1>1, <2>1, <2>2, <2>3, <2>4
<1>4. CASE \E i \in Ids : Prune(i)
  <2> PICK k \in Ids : Prune(k)
    BY <1>4
  <2>1. /\ log[k].kind \in {"heartbeat", "refresh"} /\ k \notin Newest(log[k].kind)
        /\ log' = [log EXCEPT ![k] = Gone] /\ UNCHANGED <<last, backup, restore, epoch>>
    BY DEF Prune
  <2>2. log' \in Logs
    BY <2>1 DEF Logs, Events
  <2>3. \A i \in Ids : log'[i].kind = "durable" => log[i].kind = "durable" /\ log'[i] = log[i]
    BY <2>1 DEF Logs, Gone
  <2>4. \A i \in Newest("refresh")' : i \in Newest("refresh") /\ log'[i] = log[i]
    BY <1>1, <2>1 DEF Newest, Logs, Gone
  <2>5. Same
    BY <2>1, <2>3, <2>4 DEF Wanted
  <2>6. \A i \in Ids : backup.log[i].kind = "durable" => log'[i] = backup.log[i]
    BY <2>1 DEF Logs
  <2> QED BY <1>1, <2>1, <2>2, <2>5, <2>6
<1>5. CASE TakeBackup
  BY <1>1, <1>5 DEF TakeBackup, Wanted, Newest
<1>6. CASE RestoreRead
  BY <1>1, <1>6 DEF RestoreRead, Wanted, Newest
<1>7. CASE RestoreCopy
  <2>1. /\ restore.step = "read" /\ log' = backup.log /\ last' = backup.last /\ epoch' = epoch + 1
        /\ restore' = [restore EXCEPT !.step = "copied"] /\ backup' = backup
    BY <1>7 DEF RestoreCopy
  <2>2. restore'.step = "copied" /\ restore'.previous = restore.previous
    BY <2>1
  <2>3. epoch' # 0 /\ epoch' \in 0 .. MaxEpoch
    BY <1>1, <2>1
  <2>4. Same
    BY <2>1, <2>3 DEF Wanted
  <2> QED BY <1>1, <2>1, <2>2, <2>3, <2>4
<1>8. CASE RestoreRaise
  <2>1. /\ restore.step = "copied" /\ UNCHANGED <<log, backup, epoch>> /\ restore' = NotRestoring
        /\ last' = IF restore.previous > last THEN restore.previous ELSE last
    BY <1>8 DEF RestoreRaise
  <2>2. High = restore.previous /\ last' = restore.previous /\ High' = last'
    BY <1>1, <2>1 DEF NotRestoring
  <2>3. Same
    BY <2>1 DEF Wanted, Newest
  <2> QED BY <1>1, <2>1, <2>2, <2>3 DEF NotRestoring
<1>9. \/ UNCHANGED db \/ (\E kind \in Kinds : Write(kind)) \/ (\E i \in Ids : Prune(i))
      \/ TakeBackup \/ RestoreRead \/ RestoreCopy \/ RestoreRaise
  BY DEF Moved, Next, vars, Connect, Disconnect, WorkerReads, ReceiveWelcome, ReceivePong, ReceiveNack,
     SendEvents, SendPing, Deliver, HandleHello, HandleEvents, HandlePing, CloseLink
<1> QED BY <1>2, <1>3, <1>4, <1>5, <1>6, <1>7, <1>8, <1>9

\* What was carried is carried on.
LEMMA CarriesStays ==
  ASSUME DbStep, NEW m, Carries(m) PROVE Carries(m)'
<1> SUFFICES ASSUME m.type = "events", m.after \in Nat
             PROVE  /\ m.through \in m.after .. High'
                    /\ \A e \in m.evs : e.id \in m.after + 1 .. m.through /\ e.ev \in Events \ {Gone}
                    /\ \A e, f \in m.evs : e.id = f.id => e = f
                    /\ \A i \in m.after + 1 .. m.through : Wanted(i)' => \E e \in m.evs : e.id = i /\ e.ev = log'[i]
  BY DEF Carries
<1>1. High' \in 0 .. MaxId /\ High <= High' /\ High \in 0 .. MaxId /\ MaxId \in Nat
  BY ReplicationAssumption DEF DbStep, DbInv, High
<1>2. m.through \in m.after .. High
  BY DEF Carries
<1>3. ASSUME NEW i \in m.after + 1 .. m.through, Wanted(i)' PROVE \E e \in m.evs : e.id = i /\ e.ev = log'[i]
  <2>1. i \in Ids /\ i <= High
    BY <1>1, <1>2 DEF Ids
  <2>2. Wanted(i) /\ log'[i] = log[i]
    BY <1>3, <2>1 DEF DbStep
  <2> QED BY <2>2 DEF Carries
<1> QED BY <1>1, <1>2, <1>3 DEF Carries

----------------------------------------------------------------------------
(* The connections *)

\* The next batch carries what the log wants of its range, and no later row.
LEMMA BatchCarries ==
  ASSUME DbInv, NEW after \in NoCursor .. High
  PROVE  /\ Through(after) \in after .. High
         /\ Carries(Up("events", after, Through(after), {[id |-> i, ev |-> log[i]] : i \in Selected(after, Through(after))}))
<1> DEFINE rows == {after} \cup {i \in Ids : i > after /\ log[i] # Gone}
           fits == {k \in rows : Cardinality(Selected(after, k)) <= BatchSize}
           k == Through(after)
           evs == {[id |-> i, ev |-> log[i]] : i \in Selected(after, k)}
<1>1. MaxId \in Nat /\ High \in 0 .. MaxId /\ BatchSize \in Nat /\ after \in Int
  BY ReplicationAssumption DEF DbInv, High, NoCursor
<1>2. rows \subseteq after .. High
  BY <1>1 DEF DbInv, Ids
<1>3. after \in fits
  <2>1. Selected(after, after) = {}
    BY <1>1 DEF Selected
  <2> QED BY <1>1, <2>1, FS_EmptySet
<1>4. \E m \in fits : \A j \in fits : j <= m
  <2>1. fits \subseteq after .. High /\ fits # {} /\ High \in Int
    BY <1>1, <1>2, <1>3
  <2> HIDE DEF fits
  <2> QED BY <1>1, <2>1, Maximum
<1>5. k \in fits
  BY <1>4 DEF Through
<1>6. k \in after .. High
  BY <1>2, <1>5
<1> HIDE DEF k
<1>7. ASSUME after \in Nat
      PROVE  /\ \A e \in evs : e.id \in after + 1 .. k /\ e.ev \in Events \ {Gone}
             /\ \A e, f \in evs : e.id = f.id => e = f
             /\ \A i \in after + 1 .. k : Wanted(i) => \E e \in evs : e.id = i /\ e.ev = log[i]
  <2>1. \A i \in after + 1 .. k : i \in Ids
    BY <1>1, <1>6, <1>7 DEF Ids
  <2>2. \A i \in Selected(after, k) : i \in after + 1 .. k /\ log[i] \in Events \ {Gone}
    BY <2>1 DEF Selected, Replicable, Newest, DbInv, Logs, Gone
  <2>3. \A i \in after + 1 .. k : Wanted(i) => i \in Selected(after, k)
    BY <2>1 DEF Selected, Replicable, Newest, Wanted
  <2>4. \A e \in evs : e.id \in Selected(after, k) /\ e.ev = log[e.id] /\ e = [id |-> e.id, ev |-> e.ev]
    OBVIOUS
  <2>5. \A i \in Selected(after, k) : [id |-> i, ev |-> log[i]] \in evs
    OBVIOUS
  <2> HIDE DEF evs
  <2>6. \A e, f \in evs : e.id = f.id => e = f
    BY <2>4
  <2>7. \A e \in evs : e.id \in after + 1 .. k /\ e.ev \in Events \ {Gone}
    BY <2>2, <2>4
  <2>8. ASSUME NEW i \in after + 1 .. k, Wanted(i) PROVE \E e \in evs : e.id = i /\ e.ev = log[i]
    <3>1. PICK e : e = [id |-> i, ev |-> log[i]]
      OBVIOUS
    <3>2. e \in evs /\ e.id = i /\ e.ev = log[i]
      BY <2>3, <2>5, <2>8, <3>1
    <3> QED BY <3>2
  <2> QED BY <2>6, <2>7, <2>8
<1>8. Carries(Up("events", after, k, evs))
  BY <1>6, <1>7 DEF Carries, Up
<1> QED BY <1>6, <1>8 DEF k

\* What a step may make of a connection: new messages carry what they must.
NewUp(c, up) ==
  \/ up \in {<<>>, <<Hello>>}
  \/ links[c].up # <<>> /\ up = Tail(links[c].up)
  \/ up = links[c].up \o <<Ping>>
  \/ \E m : up = links[c].up \o <<m, Ping>> /\ Carries(m)

LinkStep(c) ==
  \/ links'[c] = links[c]
  \/ /\ links'[c] = [state |-> links'[c].state, gen |-> links'[c].gen, up |-> links'[c].up]
     /\ NewUp(c, links'[c].up)

\* A step that changes one connection.
LEMMA OneLink ==
  ASSUME LinksInv, NEW d, NEW s, NEW g, NEW up,
         links' = [links EXCEPT ![d] = [state |-> s, gen |-> g, up |-> up]],
         d \in Conns => NewUp(d, up)
  PROVE  links' = [c \in Conns |-> links'[c]] /\ \A c \in Conns : LinkStep(c)
BY DEF LinksInv, LinkStep

\* Every step of the program does one of these.
LEMMA LinksMove ==
  ASSUME DbInv, LinksInv, WorkerInv, Moved
  PROVE  links' = [c \in Conns |-> links'[c]] /\ \A c \in Conns : LinkStep(c)
<1> DEFINE Goal == links' = [c \in Conns |-> links'[c]] /\ \A c \in Conns : LinkStep(c)
<1>1. CASE links' = links
  BY <1>1 DEF LinksInv, LinkStep
<1>2. CASE Connect
  <2> PICK c \in Conns : links' = [links EXCEPT ![c] = [state |-> "hello", gen |-> 0, up |-> <<Hello>>]]
    BY <1>2 DEF Connect
  <2>1. NewUp(c, <<Hello>>)
    BY DEF NewUp
  <2> QED BY <2>1, OneLink
<1>3. ASSUME NEW c, NEW t, links' = [links EXCEPT ![c].up = t], c \in Conns => NewUp(c, t) PROVE Goal
  <2>1. links' = [links EXCEPT ![c] = [state |-> links[c].state, gen |-> links[c].gen, up |-> t]]
    <3>1. CASE c \in Conns
      <4>1. links[c] = [state |-> links[c].state, gen |-> links[c].gen, up |-> links[c].up]
        BY <3>1 DEF LinksInv
      <4>2. [links[c] EXCEPT !.up = t] = [state |-> links[c].state, gen |-> links[c].gen, up |-> t]
        BY <4>1
      <4>3. links' = [links EXCEPT ![c] = [links[c] EXCEPT !.up = t]]
        BY <1>3
      <4> QED BY <4>2, <4>3
    <3>2. CASE c \notin Conns
      BY <1>3, <3>2 DEF LinksInv
    <3> QED BY <3>1, <3>2
  <2> HIDE DEF Goal
  <2> QED BY <1>3, <2>1, OneLink DEF Goal
<1>4. CASE SendPing
  <2>1. links' = [links EXCEPT ![worker.conn].up = links[worker.conn].up \o <<Ping>>]
    BY <1>4 DEF SendPing, Send
  <2>2. NewUp(worker.conn, links[worker.conn].up \o <<Ping>>)
    BY DEF NewUp
  <2> QED BY <1>3, <2>1, <2>2
<1>5. CASE SendEvents
  <2> DEFINE k == Through(worker.cursor)
             evs == {[id |-> i, ev |-> log[i]] : i \in Selected(worker.cursor, k)}
             m == Up("events", worker.cursor, k, evs)
  <2>1. Carries(m)
    BY BatchCarries DEF WorkerInv
  <2>2. links' = [links EXCEPT ![worker.conn].up = links[worker.conn].up \o <<m, Ping>>]
    BY <1>5 DEF SendEvents, Send
  <2> HIDE DEF m
  <2>3. NewUp(worker.conn, links[worker.conn].up \o <<m, Ping>>)
    BY <2>1 DEF NewUp
  <2> QED BY <1>3, <2>2, <2>3
<1>6. CASE \E c \in Conns : HandleHello(c)
  <2> PICK c \in Conns : HandleHello(c)
    BY <1>6
  <2>1. links' = [links EXCEPT ![c] = [state |-> "open", gen |-> issued + 1, up |-> Tail(links[c].up)]]
    BY DEF HandleHello
  <2>2. NewUp(c, Tail(links[c].up))
    BY DEF HandleHello, Read, NewUp
  <2> QED BY <2>1, <2>2, OneLink
<1>7. CASE \E c \in Conns : HandleEvents(c) \/ HandlePing(c)
  <2> PICK c \in Conns : HandleEvents(c) \/ HandlePing(c)
    BY <1>7
  <2>1. links' = [links EXCEPT ![c].up = Tail(links[c].up)]
    BY DEF HandleEvents, HandlePing
  <2>2. NewUp(c, Tail(links[c].up))
    BY DEF HandleEvents, HandlePing, Read, NewUp
  <2> QED BY <1>3, <2>1, <2>2
<1>8. CASE \E c \in Conns : CloseLink(c)
  <2> PICK c \in Conns : links' = [links EXCEPT ![c] = [state |-> "closed", gen |-> 0, up |-> <<>>]]
    BY <1>8 DEF CloseLink
  <2>1. NewUp(c, <<>>)
    BY DEF NewUp
  <2> QED BY <2>1, OneLink
<1>9. \/ links' = links \/ Connect \/ SendPing \/ SendEvents \/ (\E c \in Conns : HandleHello(c))
      \/ (\E c \in Conns : HandleEvents(c) \/ HandlePing(c)) \/ (\E c \in Conns : CloseLink(c))
  BY DEF Moved, Next, vars, coord, Write, Prune, TakeBackup, RestoreRead, RestoreCopy, RestoreRaise, Disconnect,
     WorkerReads, ReceiveWelcome, ReceivePong, ReceiveNack, Deliver
<1> HIDE DEF Goal
<1> QED BY <1>1, <1>2, <1>4, <1>5, <1>6, <1>7, <1>8, <1>9 DEF Goal

\* A message that is read, and what is left.
LEMMA ReadOff ==
  ASSUME NEW M, NEW s \in Seq(M), s # <<>>
  PROVE  /\ Head(s) = s[1] /\ 1 \in 1 .. Len(s) /\ Tail(s) \in Seq(M)
         /\ \A k \in 1 .. Len(Tail(s)) : k + 1 \in 1 .. Len(s) /\ Tail(s)[k] = s[k + 1]
<1>1. Len(s) \in Nat \ {0}
  BY EmptySeq
<1>2. Tail(s) \in Seq(M) /\ Len(Tail(s)) = Len(s) - 1 /\ \A k \in 1 .. Len(Tail(s)) : Tail(s)[k] = s[k + 1]
  BY HeadTailProperties
<1> QED BY <1>1, <1>2

\* Messages that are sent.
LEMMA PutOn ==
  ASSUME NEW M, NEW s \in Seq(M), NEW N, NEW t \in Seq(N)
  PROVE  /\ s \o t \in Seq(M \cup N)
         /\ \A k \in 1 .. Len(s \o t) : \/ k \in 1 .. Len(s) /\ (s \o t)[k] = s[k]
                                        \/ \E l \in 1 .. Len(t) : (s \o t)[k] = t[l]
<1>1. s \in Seq(M \cup N) /\ t \in Seq(M \cup N)
  BY SeqMonotonic
<1>2. Len(s) \in Nat /\ Len(t) \in Nat
  BY LenProperties
<1>3. /\ s \o t \in Seq(M \cup N) /\ Len(s \o t) = Len(s) + Len(t)
      /\ \A k \in 1 .. Len(s) + Len(t) : (s \o t)[k] = IF k <= Len(s) THEN s[k] ELSE t[k - Len(s)]
  BY <1>1, ConcatProperties
<1>4. \A k \in 1 .. Len(s) + Len(t) : IF k <= Len(s) THEN k \in 1 .. Len(s) ELSE k - Len(s) \in 1 .. Len(t)
  BY <1>2
<1> QED BY <1>3, <1>4

\* Every message of s carries what it must.
Sound(s) == (\E S : s \in Seq(S)) /\ \A k \in 1 .. Len(s) : Carries(s[k])

LEMMA OneSound == ASSUME NEW m, Carries(m) PROVE Sound(<<m>>)
<1>1. <<m>> \in Seq({m}) /\ \A k \in 1 .. Len(<<m>>) : <<m>>[k] = m
  OBVIOUS
<1> QED BY <1>1 DEF Sound

LEMMA TwoSound == ASSUME NEW m, NEW n, Carries(m), Carries(n) PROVE Sound(<<m, n>>)
<1>1. <<m, n>> \in Seq({m, n}) /\ \A k \in 1 .. Len(<<m, n>>) : <<m, n>>[k] \in {m, n}
  OBVIOUS
<1> QED BY <1>1 DEF Sound

LEMMA BothSound == ASSUME NEW s, NEW t, Sound(s), Sound(t) PROVE Sound(s \o t)
<1> PICK M, N : s \in Seq(M) /\ t \in Seq(N)
  BY DEF Sound
<1>1. s \o t \in Seq(M \cup N)
  BY PutOn
<1>2. \A k \in 1 .. Len(s \o t) : Carries((s \o t)[k])
  BY PutOn DEF Sound
<1> QED BY <1>1, <1>2 DEF Sound

\* Batches under way carry what they must after any step.
LEMMA LinksKeep == ASSUME Careful, DbInv, LinksInv, WorkerInv, Moved PROVE LinksInv'
<1>1. DbStep /\ links' = [c \in Conns |-> links'[c]] /\ \A c \in Conns : LinkStep(c)
  BY DbMoves, LinksMove
<1>2. \A c \in Conns : Sound(links[c].up)
  BY DEF LinksInv, Sound
<1>3. \A c \in Conns : Sound(links'[c].up)
  <2> SUFFICES ASSUME NEW c \in Conns, NewUp(c, links'[c].up) PROVE Sound(links'[c].up)
    BY <1>1, <1>2 DEF LinkStep
  <2>1. Carries(Hello) /\ Carries(Ping)
    BY DEF Carries, Hello, Ping, Up
  <2>2. CASE links'[c].up \in {<<>>, <<Hello>>}
    <3>1. Sound(<<>>) /\ Sound(<<Hello>>)
      BY <2>1, OneSound DEF Sound
    <3> QED BY <2>2, <3>1
  <2>3. CASE links[c].up # <<>> /\ links'[c].up = Tail(links[c].up)
    BY <1>2, <2>3, ReadOff DEF Sound
  <2>4. CASE links'[c].up = links[c].up \o <<Ping>>
    BY <1>2, <2>1, <2>4, OneSound, BothSound
  <2>5. CASE \E m : links'[c].up = links[c].up \o <<m, Ping>> /\ Carries(m)
    BY <1>2, <2>1, <2>5, TwoSound, BothSound
  <2> QED BY <2>2, <2>3, <2>4, <2>5 DEF NewUp
<1>5. \A c \in Conns : links'[c] = [state |-> links'[c].state, gen |-> links'[c].gen, up |-> links'[c].up]
  BY <1>1 DEF LinksInv, LinkStep
<1>6. ASSUME NEW c \in Conns, NEW k \in 1 .. Len(links'[c].up) PROVE Carries(links[c].up[k])'
  <2> PICK m : m = links'[c].up[k]
    OBVIOUS
  <2>1. Carries(m)
    BY <1>3 DEF Sound
  <2>2. Carries(m)'
    BY <1>1, <2>1, CarriesStays
  <2> QED BY <2>2 DEF Carries
<1> QED BY <1>1, <1>3, <1>5, <1>6 DEF LinksInv, Sound

----------------------------------------------------------------------------
(* The coordinator's copy *)

\* Storing a batch that carries what it must, and starts at the cursor, moves the
\* cursor over rows that are there, or that the cap may drop.
LEMMA Stored ==
  ASSUME DbInv, CopyInv, NEW m, Carries(m), m.type = "events", m.after = cursor, NEW new,
         new = Capped([i \in Ids |-> IF \E e \in m.evs : e.id = i THEN (CHOOSE e \in m.evs : e.id = i).ev ELSE copy[i]])
  PROVE  /\ new \in Logs /\ Cardinality(Rows(new)) <= Cap /\ m.through \in cursor .. High
         /\ \A i \in 1 .. m.through : Wanted(i) => new[i] = log[i] \/ (new[i] = Gone /\ Full(new, i)) \/ (i <= cursor /\ Full(new, i))
         /\ \A i \in Ids : i \in cursor + 1 .. m.through \/ new[i] = copy[i] \/ (new[i] = Gone /\ Full(new, i))
         /\ m.through = cursor => new = copy
<1> DEFINE full == [i \in Ids |-> IF \E e \in m.evs : e.id = i THEN (CHOOSE e \in m.evs : e.id = i).ev ELSE copy[i]]
<1>1. MaxId \in Nat /\ High \in 0 .. MaxId /\ cursor \in 0 .. High /\ copy \in Logs /\ Cap \in Nat \ {0}
  BY ReplicationAssumption DEF DbInv, CopyInv, High
<1>2. /\ m.through \in cursor .. High
      /\ \A e \in m.evs : e.id \in cursor + 1 .. m.through /\ e.ev \in Events \ {Gone}
      /\ \A e, f \in m.evs : e.id = f.id => e = f
      /\ \A i \in cursor + 1 .. m.through : Wanted(i) => \E e \in m.evs : e.id = i /\ e.ev = log[i]
  BY <1>1 DEF Carries
<1>3. \A e \in m.evs : e.id \in Ids => full[e.id] = e.ev
  <2> SUFFICES ASSUME NEW e \in m.evs, e.id \in Ids PROVE (CHOOSE f \in m.evs : f.id = e.id).ev = e.ev
    OBVIOUS
  <2>1. (CHOOSE f \in m.evs : f.id = e.id) = e
    BY <1>2
  <2> QED BY <2>1
<1>4. \A i \in Ids : full[i] = copy[i] \/ \E e \in m.evs : e.id = i /\ full[i] = e.ev
  BY <1>3
<1>5. full \in Logs
  <2>1. \A i \in Ids : full[i] \in Events
    BY <1>1, <1>2, <1>4 DEF Logs
  <2> QED BY <2>1 DEF Logs
<1>6. new = Capped(full)
  OBVIOUS
<1>7. \A i \in Ids \ (cursor + 1 .. m.through) : full[i] = copy[i]
  <2> SUFFICES ASSUME NEW i \in Ids, i \notin cursor + 1 .. m.through PROVE ~\E e \in m.evs : e.id = i
    OBVIOUS
  <2> QED BY <1>2
<1> HIDE DEF full
<1>8. /\ new \in Logs /\ Cardinality(Rows(new)) <= Cap
      /\ \A i \in Ids : new[i] = full[i] \/ (new[i] = Gone /\ Full(new, i))
      /\ \A i \in Ids : Full(full, i) => Full(new, i)
      /\ Cardinality(Rows(full)) <= Cap => new = full
  <2>1. /\ Capped(full) \in Logs /\ Cardinality(Rows(Capped(full))) <= Cap
        /\ \A i \in Ids : Capped(full)[i] = full[i] \/ (Capped(full)[i] = Gone /\ Full(Capped(full), i))
        /\ \A i \in Ids : Full(full, i) => Full(Capped(full), i)
        /\ Cardinality(Rows(full)) <= Cap => Capped(full) = full
    BY <1>5, CappedIs
  <2> QED BY <1>6, <2>1
<1>9. \A i \in Ids : Full(copy, i) => Full(new, i)
  <2> SUFFICES ASSUME NEW i \in Ids, Full(copy, i) PROVE Full(full, i)
    BY <1>8
  <2>1. Above(Rows(copy), i) \in SUBSET Above(Rows(full), i)
    BY <1>2, <1>4 DEF Above, Rows
  <2>2. Cardinality(Above(Rows(copy), i)) <= Cardinality(Above(Rows(full), i))
    BY <2>1, RowsFinite, FS_Subset
  <2> QED BY <1>1, <2>2, RowsFinite DEF Full
<1>10. ASSUME NEW i \in 1 .. m.through, Wanted(i)
       PROVE  new[i] = log[i] \/ (new[i] = Gone /\ Full(new, i)) \/ (i <= cursor /\ Full(new, i))
  <2>1. i \in Ids
    BY <1>1, <1>2 DEF Ids
  <2>2. CASE i \in cursor + 1 .. m.through
    <3>1. full[i] = log[i]
      BY <1>2, <1>3, <1>10, <2>1, <2>2
    <3> QED BY <1>8, <2>1, <3>1
  <2>3. CASE i \in 1 .. cursor
    <3>1. full[i] = copy[i]
      BY <1>1, <1>7, <2>1, <2>3
    <3>2. copy[i] = log[i] \/ Full(copy, i)
      BY <1>10, <2>3 DEF CopyInv
    <3> QED BY <1>1, <1>8, <1>9, <2>1, <2>3, <3>1, <3>2
  <2> QED BY <1>1, <1>2, <2>2, <2>3
<1>11. ASSUME m.through = cursor PROVE new = copy
  <2>1. \A i \in Ids : full[i] = copy[i]
    BY <1>1, <1>7, <1>11
  <2>2. full = copy
    BY <1>1, <1>5, <2>1 DEF Logs
  <2> QED BY <1>8, <2>2 DEF CopyInv
<1> QED BY <1>2, <1>7, <1>8, <1>10, <1>11

\* What a step may do to the copy: nothing, or it stores a batch.
CopyStep ==
  \/ UNCHANGED <<copy, cursor>>
  \/ /\ UNCHANGED db
     /\ \E m : /\ Carries(m) /\ m.type = "events" /\ m.after = cursor /\ cursor' = m.through
               /\ copy' = Capped([i \in Ids |-> IF \E e \in m.evs : e.id = i THEN (CHOOSE e \in m.evs : e.id = i).ev
                                                ELSE copy[i]])

LEMMA CopyMoves == ASSUME LinksInv, Moved PROVE CopyStep
<1>1. CASE UNCHANGED <<copy, cursor>>
  BY <1>1 DEF CopyStep
<1>2. CASE \E c \in Conns : HandleEvents(c)
  <2> PICK c \in Conns : HandleEvents(c)
    BY <1>2
  <2> DEFINE m == Head(links[c].up)
  <2>1. Carries(m) /\ m.type = "events"
    <3>1. links[c].up # <<>> /\ m.type = "events"
      BY DEF HandleEvents, Read
    <3>2. PICK M : links[c].up \in Seq(M)
      BY DEF LinksInv
    <3> QED BY <3>1, <3>2, ReadOff DEF LinksInv
  <2>2. CASE m.after # cursor
    BY <2>2 DEF HandleEvents, CopyStep
  <2>3. CASE m.after = cursor
    <3>1. /\ cursor' = m.through /\ UNCHANGED db
          /\ copy' = Capped([i \in Ids |-> IF \E e \in m.evs : e.id = i THEN (CHOOSE e \in m.evs : e.id = i).ev ELSE copy[i]])
      BY <2>3 DEF HandleEvents
    <3> HIDE DEF m
    <3> QED BY <2>1, <2>3, <3>1 DEF CopyStep
  <2> QED BY <2>2, <2>3
<1>3. UNCHANGED <<copy, cursor>> \/ \E c \in Conns : HandleEvents(c)
  BY DEF Moved, Next, vars, coord, Write, Prune, TakeBackup, RestoreRead, RestoreCopy, RestoreRaise, Connect, Disconnect,
     WorkerReads, ReceiveWelcome, ReceivePong, ReceiveNack, SendEvents, SendPing, Deliver, HandleHello, HandlePing, CloseLink
<1> QED BY <1>1, <1>2, <1>3

\* The copy has what the cursor passed after any step.
LEMMA CopyKeeps == ASSUME Careful, DbInv, LinksInv, CopyInv, Moved PROVE CopyInv'
<1>1. DbStep /\ CopyStep /\ MaxId \in Nat
  BY DbMoves, CopyMoves, ReplicationAssumption
<1>2. CASE UNCHANGED <<copy, cursor>>
  <2>1. cursor \in 0 .. High'
    BY <1>1 DEF CopyInv, DbStep, DbInv, High
  <2>2. ASSUME NEW i \in 1 .. cursor, Wanted(i)' PROVE copy[i] = log'[i] \/ Full(copy, i)
    <3>1. i \in Ids /\ i <= High
      BY <1>1 DEF CopyInv, DbStep, Ids
    <3> QED BY <1>1, <2>2, <3>1 DEF CopyInv, DbStep
  <2> QED BY <1>2, <2>1, <2>2 DEF CopyInv, Full, Rows
<1>3. CASE ~UNCHANGED <<copy, cursor>>
  <2> PICK m : /\ UNCHANGED db
               /\ Carries(m) /\ m.type = "events" /\ m.after = cursor /\ cursor' = m.through
               /\ copy' = Capped([i \in Ids |-> IF \E e \in m.evs : e.id = i THEN (CHOOSE e \in m.evs : e.id = i).ev
                                                ELSE copy[i]])
    BY <1>1, <1>3 DEF CopyStep
  <2>1. /\ copy' \in Logs /\ Cardinality(Rows(copy')) <= Cap /\ cursor' \in cursor .. High
        /\ \A i \in 1 .. cursor' : Wanted(i) => copy'[i] = log[i] \/ Full(copy', i)
    BY Stored
  <2>2. High' = High /\ cursor' \in 0 .. High
    BY <1>1, <2>1 DEF db, High, CopyInv, DbStep
  <2>3. \A i : Wanted(i)' <=> Wanted(i)
    BY DEF db, Wanted, Newest
  <2> QED BY <2>1, <2>2, <2>3 DEF CopyInv, Full, Rows, db
<1> QED BY <1>2, <1>3

----------------------------------------------------------------------------
(* The worker *)

\* What the coordinator answers is not ahead of the log.
Answered == (\E M : down \in Seq(M)) /\ \A k \in 1 .. Len(down) : down[k].at \in 0 .. High

DownStep ==
  \/ down' \in {down, <<>>}
  \/ down # <<>> /\ down' = Tail(down)
  \/ \E m : m.at \in 0 .. High /\ down' = Append(down, m)

LEMMA DownMoves == ASSUME DbInv, CopyInv, Moved PROVE DownStep
<1> USE DEF DownStep
<1>1. 0 \in 0 .. High /\ cursor \in 0 .. High
  BY ReplicationAssumption DEF DbInv, CopyInv, High
<1>2. ASSUME NEW c, NEW type, NEW gen, NEW at \in 0 .. High, Reply(c, Down(type, gen, at)) PROVE DownStep
  <2> DEFINE m == Down(type, gen, at)
  <2>1. m.at \in 0 .. High /\ down' \in {down, Append(down, m)}
    BY <1>2 DEF Down, Reply
  <2> HIDE DEF m
  <2> QED BY <2>1
<1>3. CASE \E c \in Conns : HandleHello(c)
  BY <1>1, <1>2, <1>3 DEF HandleHello
<1>4. CASE \E c \in Conns : HandleEvents(c)
  <2> PICK c \in Conns : HandleEvents(c)
    BY <1>4
  <2>1. down' = down \/ Reply(c, Down("nack", 0, cursor))
    BY DEF HandleEvents
  <2> QED BY <1>1, <1>2, <2>1
<1>5. CASE \E c \in Conns : HandlePing(c)
  BY <1>1, <1>2, <1>5 DEF HandlePing
<1>6. CASE Connect \/ Disconnect
  BY <1>6 DEF Connect, Disconnect
<1>7. CASE WorkerReads
  BY <1>7 DEF WorkerReads, ReceiveWelcome, ReceivePong, ReceiveNack, Receive
<1>8. CASE down' = down
  BY <1>8
<1>9. \/ down' = down \/ Connect \/ Disconnect \/ WorkerReads
      \/ \E c \in Conns : HandleHello(c) \/ HandleEvents(c) \/ HandlePing(c)
  BY DEF Moved, Next, vars, Write, Prune, TakeBackup, RestoreRead, RestoreCopy, RestoreRaise,
     SendEvents, SendPing, Deliver, CloseLink
<1> QED BY <1>3, <1>4, <1>5, <1>6, <1>7, <1>8, <1>9

LEMMA DownKeeps == ASSUME Careful, DbInv, CopyInv, Answered, Moved PROVE Answered'
<1>1. DbStep /\ DownStep /\ High' \in Nat /\ High \in Nat /\ High <= High'
  BY DbMoves, DownMoves, ReplicationAssumption DEF DbStep, DbInv, High
<1>2. PICK M : down \in Seq(M)
  BY DEF Answered
<1> SUFFICES (\E N : down' \in Seq(N)) /\ \A k \in 1 .. Len(down') : down'[k].at \in 0 .. High
  BY <1>1 DEF Answered
<1>3. CASE down' \in {down, <<>>}
  <2>1. Len(<<>>) = 0 /\ <<>> \in Seq(M)
    BY EmptySeq
  <2>2. CASE down' = down
    BY <2>2 DEF Answered
  <2>3. CASE down' = <<>>
    <3>1. \A k \in 1 .. Len(down') : FALSE
      BY <2>1, <2>3
    <3> QED BY <2>1, <2>3, <3>1
  <2> QED BY <1>3, <2>2, <2>3
<1>4. CASE down # <<>> /\ down' = Tail(down)
  <2>1. /\ down' \in Seq(M)
        /\ \A k \in 1 .. Len(down') : k + 1 \in 1 .. Len(down) /\ down'[k] = down[k + 1]
    BY <1>2, <1>4, ReadOff
  <2> QED BY <2>1 DEF Answered
<1>5. CASE \E m : m.at \in 0 .. High /\ down' = Append(down, m)
  <2> PICK m : m.at \in 0 .. High /\ down' = Append(down, m)
    BY <1>5
  <2>1. down \in Seq(M \cup {m})
    BY <1>2, SeqMonotonic
  <2>2. /\ down' \in Seq(M \cup {m}) /\ Len(down') = Len(down) + 1 /\ down'[Len(down) + 1] = m
        /\ \A k \in 1 .. Len(down) : down'[k] = down[k]
    BY <2>1, AppendProperties
  <2>3. Len(down) \in Nat
    BY <1>2, LenProperties
  <2>4. \A k \in 1 .. Len(down) + 1 : k \in 1 .. Len(down) \/ k = Len(down) + 1
    BY <2>3
  <2> QED BY <2>2, <2>4 DEF Answered
<1> QED BY <1>1, <1>3, <1>4, <1>5 DEF DownStep

\* The worker's cursor and its batch come from the coordinator or from the log.
LEMMA WorkerKeeps == ASSUME Careful, DbInv, CopyInv, WorkerInv, Moved PROVE WorkerInv'
<1>1. DbStep /\ High' \in Nat /\ High \in Nat /\ High <= High'
  BY DbMoves, ReplicationAssumption DEF DbStep, DbInv, High
<1>2. Answered /\ Answered'
  BY DownKeeps DEF WorkerInv, Answered
<1> DEFINE Made(c, g, m, cur, batch, p) == [conn |-> c, gen |-> g, max |-> m, cursor |-> cur,
                                           inflight |-> batch, pongs |-> p]
           Sane(w) == /\ w = Made(w.conn, w.gen, w.max, w.cursor, w.inflight, w.pongs)
                      /\ w.cursor \in NoCursor .. High /\ w.inflight.through \in NoCursor .. High
<1>a. \A c, g, m, cur, batch, p :
         cur \in NoCursor .. High /\ batch.through \in NoCursor .. High => Sane(Made(c, g, m, cur, batch, p))
  OBVIOUS
<1>b. NoBatch.through = NoCursor /\ NoCursor \in NoCursor .. High
  BY <1>1 DEF NoBatch, NoCursor
<1>c. \A c, g : Fresh(c, g) = Made(c, 0, g, NoCursor, NoBatch, <<>>)
  BY DEF Fresh
<1>d. worker = Made(worker.conn, worker.gen, worker.max, worker.cursor, worker.inflight, worker.pongs)
  BY DEF WorkerInv
<1>e. worker.cursor \in NoCursor .. High /\ worker.inflight.through \in NoCursor .. High
  BY DEF WorkerInv
<1>3. Sane(worker) /\ \A c, g : Sane(Fresh(c, g))
  BY <1>a, <1>b, <1>c, <1>d, <1>e
<1> HIDE DEF Made, Sane
<1>4. Sane(worker')
  <2>1. CASE worker' = worker \/ \E c, g : worker' = Fresh(c, g)
    BY <1>3, <2>1
  <2>2. CASE ReceiveWelcome
    <3>1. Head(down).at \in 0 .. High
      <4>1. down # <<>>
        BY <2>2 DEF ReceiveWelcome, Receive
      <4> QED BY <1>2, <4>1, ReadOff DEF Answered
    <3>2. Head(down).at \in NoCursor .. High
      BY <1>1, <3>1 DEF NoCursor
    <3> DEFINE g == Head(down).gen
    <3>4. \/ worker' = Fresh(0, worker.max)
          \/ worker' = [Fresh(worker.conn, g) EXCEPT !.gen = g, !.cursor = Head(down).at]
      BY <2>2 DEF ReceiveWelcome
    <3>5. CASE worker' = Fresh(0, worker.max)
      BY <1>3, <3>5
    <3>6. CASE worker' = [Fresh(worker.conn, g) EXCEPT !.gen = g, !.cursor = Head(down).at]
      <4>1. worker' = Made(worker.conn, g, g, Head(down).at, NoBatch, <<>>)
        BY <3>6 DEF Fresh, Made
      <4> QED BY <1>a, <1>b, <3>2, <4>1
    <3> QED BY <3>4, <3>5, <3>6
  <2>3. CASE ReceivePong
    <3>1. CASE Head(worker.pongs)
      <4>1. worker' = Made(worker.conn, worker.gen, worker.max, worker.inflight.through, NoBatch, Tail(NoFence))
        BY <1>d, <2>3, <3>1 DEF ReceivePong, Made
      <4> QED BY <1>a, <1>b, <1>e, <4>1
    <3>2. CASE ~Head(worker.pongs)
      <4>1. worker' = Made(worker.conn, worker.gen, worker.max, worker.cursor, worker.inflight, Tail(worker.pongs))
        BY <1>d, <2>3, <3>2 DEF ReceivePong, Made
      <4> QED BY <1>a, <1>e, <4>1
    <3> QED BY <3>1, <3>2
  <2>4. CASE ReceiveNack
    <3>1. Head(down).at \in 0 .. High
      <4>1. down # <<>>
        BY <2>4 DEF ReceiveNack, Receive
      <4> QED BY <1>2, <4>1, ReadOff DEF Answered
    <3>2. Head(down).at \in NoCursor .. High
      BY <1>1, <3>1 DEF NoCursor
    <3>3. CASE worker' = [worker EXCEPT !.cursor = Head(down).at, !.inflight = NoBatch, !.pongs = NoFence]
      <4>1. worker' = Made(worker.conn, worker.gen, worker.max, Head(down).at, NoBatch, NoFence)
        BY <1>d, <3>3 DEF Made
      <4> QED BY <1>a, <1>b, <3>2, <4>1
    <3> QED BY <1>3, <2>4, <3>3 DEF ReceiveNack
  <2>5. CASE SendEvents
    <3> DEFINE k == Through(worker.cursor)
    <3>1. k \in worker.cursor .. High
      BY BatchCarries DEF WorkerInv
    <3> DEFINE batch == [after |-> worker.cursor, through |-> k]
    <3>2. worker' = [worker EXCEPT !.inflight = batch, !.pongs = Append(NoFence, TRUE)]
      BY <2>5 DEF SendEvents
    <3> HIDE DEF k
    <3>3. k \in NoCursor .. High /\ batch.through = k
      BY <1>1, <1>e, <3>1 DEF NoCursor
    <3> HIDE DEF batch
    <3>4. worker' = Made(worker.conn, worker.gen, worker.max, worker.cursor, batch, Append(NoFence, TRUE))
      BY <1>d, <3>2 DEF Made
    <3> QED BY <1>a, <1>e, <3>3, <3>4
  <2>6. CASE SendPing
    <3>1. worker' = Made(worker.conn, worker.gen, worker.max, worker.cursor, worker.inflight,
                         Append(worker.pongs, FALSE))
      BY <1>d, <2>6 DEF SendPing, Made
    <3> QED BY <1>a, <1>e, <3>1
  <2>7. \/ worker' = worker \/ (\E c, g : worker' = Fresh(c, g)) \/ ReceiveWelcome \/ ReceivePong \/ ReceiveNack
        \/ SendEvents \/ SendPing
    BY DEF Moved, Next, vars, Write, Prune, TakeBackup, RestoreRead, RestoreCopy, RestoreRaise, Connect, Disconnect,
       WorkerReads, Deliver, HandleHello, HandleEvents, HandlePing, CloseLink
  <2> QED BY <2>1, <2>2, <2>3, <2>4, <2>5, <2>6, <2>7
<1>5. /\ worker' = Made(worker'.conn, worker'.gen, worker'.max, worker'.cursor, worker'.inflight, worker'.pongs)
      /\ worker'.cursor \in NoCursor .. High /\ worker'.inflight.through \in NoCursor .. High
  BY <1>4 DEF Sane
<1>6. \A v : v \in NoCursor .. High => v \in NoCursor .. High'
  BY <1>1 DEF NoCursor
<1> QED BY <1>2, <1>5, <1>6 DEF WorkerInv, Answered, Made

----------------------------------------------------------------------------
(* The theorems *)

LEMMA ReplicationInit == ASSUME Init PROVE ReplicationInv
<1> USE ReplicationAssumption DEF Init
<1>1. DbInv
  BY DEF DbInv, Logs, Events, Empty, Gone, NotRestoring, High
<1>2. LinksInv
  <2>1. \A c \in Conns : links[c] = Unused
    OBVIOUS
  <2>2. Unused.up = <<>> /\ Unused = [state |-> Unused.state, gen |-> Unused.gen, up |-> Unused.up]
    BY DEF Unused
  <2>3. Len(<<>>) = 0 /\ <<>> \in Seq({}) /\ \A k \in 1 .. 0 : FALSE
    BY EmptySeq
  <2>4. links = [c \in Conns |-> links[c]]
    OBVIOUS
  <2> HIDE DEF Unused, Init
  <2> QED BY <2>1, <2>2, <2>3, <2>4 DEF LinksInv
<1>3. WorkerInv
  BY DEF WorkerInv, Fresh, NoBatch, NoCursor, High, NotRestoring
<1>4. CopyInv
  <2>1. Rows(copy) = {}
    BY DEF Rows, Empty
  <2>2. Cardinality(Rows(copy)) = 0 /\ Cap \in Nat /\ High = 0
    BY <2>1, FS_EmptySet DEF High, NotRestoring
  <2>3. copy \in Logs
    BY DEF Logs, Events, Empty
  <2> QED BY <2>2, <2>3 DEF CopyInv
<1> QED BY <1>1, <1>2, <1>3, <1>4 DEF ReplicationInv

LEMMA ReplicationStep == ASSUME Careful, ReplicationInv, Moved PROVE ReplicationInv'
BY DbMoves, LinksKeep, WorkerKeeps, CopyKeeps DEF ReplicationInv, DbStep

LEMMA ReplicationInvariant == ASSUME Careful PROVE Spec => []ReplicationInv
<1>1. Init => ReplicationInv
  BY ReplicationInit
<1>2. ReplicationInv /\ [Next]_vars => ReplicationInv'
  BY ReplicationStep DEF Moved
<1> QED BY <1>1, <1>2, PTL DEF Spec

\* Whatever connections break and however often batches are sent again, every
\* durable event that the cursor has passed is in the coordinator's copy, or so many
\* newer ones are; and so is the newest refresh before a restore.
THEOREM NothingLostHolds == ASSUME Careful PROVE Spec => []NothingLost
<1>1. ReplicationInv => NothingLost
  <2> SUFFICES ASSUME ReplicationInv, NEW i \in 1 .. cursor,
                      log[i].kind = "durable" \/ (i \in Newest("refresh") /\ epoch = 0)
               PROVE  copy[i] = log[i] \/ Cardinality({j \in Ids : j > i /\ copy[j] # Gone}) >= Cap
    BY DEF NothingLost
  <2>1. copy[i] = log[i] \/ Full(copy, i)
    BY DEF ReplicationInv, CopyInv, Wanted
  <2> QED BY <2>1, RowsAbove DEF Full
<1> QED BY <1>1, ReplicationInvariant, PTL

\* The instance counts as this module does.
LEMMA SameCardinality == \A S : Abstract!Cardinality(S) = Cardinality(S)
BY DEF Abstract!Cardinality, Cardinality

\* Every step of detailed replication is a step of the abstract log or a stutter.
LEMMA StepsFollow ==
  ASSUME Careful, ReplicationInv, Moved PROVE Abstract!Next \/ UNCHANGED <<log, copy, cursor>>
<1> USE DEF ReplicationInv
<1>1. CopyStep
  BY CopyMoves
<1>2. CASE UNCHANGED <<copy, cursor>>
  BY <1>2 DEF Abstract!Next, Abstract!Change
<1>3. CASE ~UNCHANGED <<copy, cursor>>
  <2> PICK m : /\ UNCHANGED db
               /\ Carries(m) /\ m.type = "events" /\ m.after = cursor /\ cursor' = m.through
               /\ copy' = Capped([i \in Ids |-> IF \E e \in m.evs : e.id = i THEN (CHOOSE e \in m.evs : e.id = i).ev
                                                ELSE copy[i]])
    BY <1>1, <1>3 DEF CopyStep
  <2>1. /\ Cardinality(Rows(copy')) <= Cap /\ cursor' \in cursor .. High
        /\ \A i \in 1 .. cursor' : Wanted(i) => copy'[i] = log[i] \/ (copy'[i] = Gone /\ Full(copy', i)) \/ (i <= cursor /\ Full(copy', i))
        /\ \A i \in Ids : i \in cursor + 1 .. cursor' \/ copy'[i] = copy[i] \/ (copy'[i] = Gone /\ Full(copy', i))
        /\ cursor' = cursor => copy' = copy
    BY Stored
  <2>2. MaxId \in Nat /\ cursor \in Nat /\ High \in 0 .. MaxId /\ log' = log
    BY ReplicationAssumption DEF CopyInv, DbInv, High, db
  <2>3. cursor' > cursor /\ cursor' \in Ids
    BY <1>3, <2>1, <2>2 DEF Ids
  <2>4. \A i \in Ids : copy'[i] = Gone /\ Full(copy', i) => Abstract!Dropped(i)
    BY RowsAbove, SameCardinality DEF Full, Abstract!Dropped, Abstract!Ids, Abstract!Gone, Ids, Gone
  <2>5. \A i \in Ids \ (cursor + 1 .. cursor') : copy'[i] = copy[i] \/ Abstract!Dropped(i)
    BY <2>1, <2>4
  <2>6. \A i \in cursor + 1 .. cursor' : log[i].kind = "durable" => copy'[i] = log[i] \/ Abstract!Dropped(i)
    <3> SUFFICES ASSUME NEW i \in cursor + 1 .. cursor', log[i].kind = "durable"
                 PROVE  copy'[i] = log[i] \/ Abstract!Dropped(i)
      OBVIOUS
    <3>1. i \in Ids /\ i \in 1 .. cursor' /\ ~(i <= cursor)
      BY <2>1, <2>2 DEF Ids
    <3> QED BY <2>1, <2>4, <3>1 DEF Wanted
  <2>7. Cardinality({i \in Abstract!Ids : copy'[i] # Abstract!Gone}) <= Cap
    BY <2>1, SameCardinality DEF Rows, Abstract!Ids, Abstract!Gone, Ids, Gone
  <2>8. Abstract!Advance(cursor')
    BY <2>2, <2>3, <2>5, <2>6, <2>7, SameCardinality DEF Abstract!Advance, Abstract!Ids, Ids
  <2> QED BY <2>3, <2>8 DEF Abstract!Next, Abstract!Ids, Ids
<1> QED BY <1>2, <1>3

\* Detailed replication, with all its connections, batches, pings and refusals,
\* implements the log that is followed in order.
THEOREM FollowsLogHolds == ASSUME Careful PROVE Spec => FollowsLog
<1>1. Init => Abstract!Init
  BY DEF Init, Abstract!Init, Empty, Abstract!Ids, Abstract!Gone, Ids, Gone
<1>2. ReplicationInv /\ [Next]_vars => [Abstract!Next]_<<log, copy, cursor>>
  BY StepsFollow DEF Moved
<1> QED BY <1>1, <1>2, ReplicationInvariant, PTL DEF Spec, FollowsLog, Abstract!Spec, Abstract!vars

-----------------------------------------------------------------------------
(* 2. Console *)

-----------------------------------------------------------------------------
(* The inductive invariant *)

AnyText == [src : Tasks \cup {"none", "blank", "paste", "objective"}, n : Nat]
Documents == Tasks \cup {"none", "objective"}
Data == [list : Seq(Tasks), done : SUBSET Tasks, ended : BOOLEAN]
Tokens == [rev : Int, view : Views \cup {"none"}]

Screens ==
  [view : Views, sel : Nat \ {0}, screen : {"none", "response", "confirm"}, confirm : BOOLEAN,
   viewer : Documents \cup {"help"}, docTask : Documents, edit : {"no", "fresh", "now"},
   text : AnyText, paste : BOOLEAN, stale : BOOLEAN]
Snapshots == [view : Views \cup {"none"}, rev : Int, data : Data, token : Tokens, loaded : BOOLEAN]
Readers ==
  [st : {"idle", "started", "done"}, token : Tokens, ok : BOOLEAN,
   view : Views \cup {"none"}, rev : Int, data : Data, aged : BOOLEAN]

ScreenTyped ==
  /\ ui \in Screens /\ snap \in Snapshots /\ reader \in Readers
  /\ store \in [rev : Nat, data : Data]

DocumentTyped ==
  /\ doc \in [gen : Nat, pending : BOOLEAN, edit : BOOLEAN, result : [task : Documents, ok : BOOLEAN]]
  /\ reads \subseteq [gen : Nat, task : Documents \ {"none"}]
  /\ want \in [task : Documents, edit : BOOLEAN]

DraftTyped ==
  /\ pc \in {"loop", "compose", "closed", "gone"}
  /\ comp \in [id : 0 .. MaxDrafts, how : {"paste", "edit", "key"}, target : Documents, buf : AnyText,
               checkpointed : AnyText, seq : Nat, written : Nat]
  /\ writers \subseteq [id : Drafts, text : AnyText, seq : Nat, off : BOOLEAN, written : Nat]
  /\ ck \in [Drafts -> AnyText] /\ owed \in [Drafts -> AnyText]
  /\ cmd \in [st : {"none", "running", "done"}, draft : 0 .. MaxDrafts,
              out : {"none", "applied", "rejected", "unknown", "view"}, long : BOOLEAN]

ResultIsWanted ==
  /\ doc.result # NoResult => doc.pending /\ doc.result.task = want.task /\ doc.edit = want.edit
  /\ \A r \in reads : r.gen <= doc.gen
  /\ \A r \in reads : r.gen = doc.gen =>
       doc.result = NoResult /\ doc.pending /\ r.task = want.task /\ doc.edit = want.edit
  /\ \A r, q \in reads : r.gen = q.gen => r = q

OpenDraft ==
  pc = "compose" =>
    /\ comp.id \in Drafts /\ owed[comp.id] = NoText /\ ck[comp.id] # NoText /\ comp.buf # NoText
    /\ ck[comp.id].n <= comp.buf.n /\ comp.written <= comp.seq
    /\ \A w \in writers : w.id = comp.id =>
         ~w.off /\ w.seq <= comp.seq /\ w.text.n <= comp.buf.n

\* The thread may still write: its composer, as it last saw it, has neither
\* discarded the draft nor written anything newer.
Writable(w) ==
  ~w.off /\ w.seq >= (IF comp.id = w.id /\ pc = "compose" THEN comp.written ELSE w.written)

LateWrites ==
  /\ \A w \in writers : w.id <= comp.id /\ w.text # NoText
  /\ \A w, v \in writers : w.id = v.id => w = v
  /\ \A w \in writers : Writable(w) =>
        owed[w.id] = NoText /\ ck[w.id] # NoText /\ ck[w.id].n <= w.text.n

Kept ==
  /\ \A d \in Drafts : d > comp.id => owed[d] = NoText /\ ck[d] = NoText
  /\ cmd.draft # 0 => owed[cmd.draft] # NoText /\ cmd.st # "none"
  /\ \A d \in Drafts : owed[d] # NoText => ck[d] = owed[d]

-----------------------------------------------------------------------------
(* What is displayed and what is read are well typed *)

\* Nothing read is a snapshot, and so on.
LEMMA FreshIs ==
  /\ FreshUi \in Screens /\ NoSnap \in Snapshots /\ NoReader \in Readers
  /\ NoToken \in Tokens /\ NoText \in AnyText /\ Blank \in AnyText /\ NoData \in Data
<1>1. NoToken \in Tokens /\ NoText \in AnyText /\ Blank \in AnyText /\ NoData \in Data
  BY DEF NoToken, Tokens, NoText, Blank, AnyText, NoData, Data
<1>2. FreshUi \in Screens
  BY <1>1, ConsoleAssumption DEF FreshUi, Screens, Documents
<1>3. NoSnap \in Snapshots /\ NoReader \in Readers
  BY <1>1 DEF NoSnap, Snapshots, NoReader, Readers
<1> QED BY <1>1, <1>2, <1>3

\* The highlight moves to the row of its task.
LEMMA ReselectIs ==
  ASSUME NEW l \in Seq(Tasks), NEW key, NEW sel \in Nat \ {0}
  PROVE /\ ReselectTask(l, key, sel) \in Nat \ {0}
        /\ (\E i \in 1 .. Len(l) : l[i] = key) =>
             ReselectTask(l, key, sel) \in 1 .. Len(l) /\ l[ReselectTask(l, key, sel)] = key
<1> DEFINE Has(i) == l[i] = key
<1>1. CASE \E i \in 1 .. Len(l) : Has(i)
  <2>1. ReselectTask(l, key, sel) = CHOOSE i \in 1 .. Len(l) : Has(i)
    BY <1>1 DEF ReselectTask
  <2> HIDE DEF Has
  <2>2. (CHOOSE i \in 1 .. Len(l) : Has(i)) \in 1 .. Len(l) /\ Has(CHOOSE i \in 1 .. Len(l) : Has(i))
    BY <1>1
  <2>3. Len(l) \in Nat
    OBVIOUS
  <2> QED BY <2>1, <2>2, <2>3 DEF Has
<1>2. CASE ~\E i \in 1 .. Len(l) : Has(i)
  BY <1>2 DEF ReselectTask
<1> QED BY <1>1, <1>2

\* What publishing a document, a snapshot and a command's answer leaves of the screen.
LEMMA AfterDocumentIs ==
  ASSUME DocumentTyped, NEW u \in Screens
  PROVE AfterDocument(u) \in Screens /\ AfterDocument(u).view = u.view /\ AfterDocument(u).sel = u.sel
<1>1. doc.result.task \in Documents
  BY DEF DocumentTyped
<1> DEFINE t == doc.result.task
<1> DEFINE v == [u EXCEPT !.docTask = IF t = "objective" THEN "none" ELSE t]
<1>2. v \in Screens /\ v.view = u.view /\ v.sel = u.sel
  BY <1>1 DEF Screens, Documents
<1>3. Source(t) \in AnyText
  BY <1>1 DEF Source, AnyText, Documents
<1> HIDE DEF v
<1>4. /\ [v EXCEPT !.text = Source(t), !.edit = "fresh"] \in Screens
      /\ [v EXCEPT !.text = Source(t), !.edit = "fresh"].view = v.view
      /\ [v EXCEPT !.text = Source(t), !.edit = "fresh"].sel = v.sel
  BY <1>2, <1>3 DEF Screens
<1>5. [v EXCEPT !.viewer = t] \in Screens /\ [v EXCEPT !.viewer = t].view = v.view /\ [v EXCEPT !.viewer = t].sel = v.sel
  BY <1>1, <1>2 DEF Screens
<1>6. AfterDocument(u) \in {u, v, [v EXCEPT !.text = Source(t), !.edit = "fresh"], [v EXCEPT !.viewer = t]}
  BY DEF AfterDocument, v
<1> QED BY <1>2, <1>4, <1>5, <1>6

\* Publishing a snapshot moves nothing but the highlight.
LEMMA AfterSnapshotIs ==
  ASSUME ScreenTyped, NEW u \in Screens
  PROVE /\ AfterSnapshot(u) \in Screens /\ AfterSnapshot(u).view = u.view
        /\ AfterSnapshot(u).sel =
             IF reader.st = "done" /\ reader.ok /\ u.view = "Tasks" /\ snap.data.list # <<>>
             THEN ReselectTask(reader.data.list, SelectedTask(snap, u.sel), u.sel) ELSE u.sel
<1>1. reader.data.list \in Seq(Tasks) /\ u.sel \in Nat \ {0}
  BY DEF ScreenTyped, Readers, Data, Screens
<1> DEFINE k == ReselectTask(reader.data.list, SelectedTask(snap, u.sel), u.sel)
<1>2. k \in Nat \ {0}
  BY <1>1, ReselectIs
<1> HIDE DEF k
<1>3. [u EXCEPT !.sel = k] \in Screens /\ [u EXCEPT !.sel = k].view = u.view /\ [u EXCEPT !.sel = k].sel = k
  BY <1>2 DEF Screens
<1>4. AfterSnapshot(u) = IF reader.st = "done" /\ reader.ok /\ u.view = "Tasks" /\ snap.data.list # <<>>
                         THEN [u EXCEPT !.sel = k] ELSE u
  BY DEF AfterSnapshot, k
<1> QED BY <1>3, <1>4 DEF k

\* A view that is chosen starts at its first row.
LEMMA ChooseViewIs ==
  ASSUME NEW u \in Screens, NEW v \in Views PROVE ChooseView(u, v) \in Screens
<1>1. [u EXCEPT !.view = v] \in Screens
  BY DEF Screens
<1>2. \A w \in Screens : [w EXCEPT !.sel = 1] \in Screens
  BY DEF Screens
<1> QED BY <1>1, <1>2 DEF ChooseView

\* A command's answer leaves the highlight, unless it shows a view.
LEMMA AfterCommandIs ==
  ASSUME NEW u \in Screens
  PROVE /\ AfterCommand(u) \in Screens
        /\ cmd.out # "view" => AfterCommand(u).view = u.view /\ AfterCommand(u).sel = u.sel
<1> DEFINE v == IF cmd.out = "view" THEN ChooseView(u, "Tasks") ELSE u
<1> DEFINE s(x) == IF cmd.long THEN "response" ELSE x
<1>1. v \in Screens /\ (cmd.out # "view" => v = u)
  BY ChooseViewIs, ConsoleAssumption
<1> HIDE DEF v
<1>2. /\ [v EXCEPT !.stale = TRUE, !.screen = s(@)] \in Screens
      /\ [v EXCEPT !.stale = TRUE, !.screen = s(@)].view = v.view
      /\ [v EXCEPT !.stale = TRUE, !.screen = s(@)].sel = v.sel
  BY <1>1 DEF Screens
<1>3. AfterCommand(u) \in {u, [v EXCEPT !.stale = TRUE, !.screen = s(@)]}
  BY DEF AfterCommand, v
<1> QED BY <1>1, <1>2, <1>3

\* The snapshot after publishing is the one read, or the one displayed.
LEMMA SnapshotAfterIs ==
  ASSUME ScreenTyped
  PROVE /\ SnapshotAfter \in Snapshots
        /\ SnapshotAfter.data = IF reader.st = "done" /\ reader.ok THEN reader.data ELSE snap.data
<1>1. snap \in Snapshots /\ reader \in Readers /\ NoToken \in Tokens
  BY FreshIs DEF ScreenTyped
<1>2. CASE reader.st # "done"
  BY <1>1, <1>2 DEF SnapshotAfter
<1>3. CASE reader.st = "done" /\ reader.ok
  BY <1>1, <1>3 DEF SnapshotAfter, Snapshots, Readers
<1>4. CASE reader.st = "done" /\ ~reader.ok
  BY <1>1, <1>4 DEF SnapshotAfter, Snapshots, Readers
<1> QED BY <1>2, <1>3, <1>4

\* What refresh() makes of the screen, the snapshot and the reader.
LEMMA RefreshIs ==
  ASSUME ScreenTyped, DocumentTyped, NEW force \in BOOLEAN, NEW due \in BOOLEAN, Refresh(force, due, ui)
  PROVE /\ ui' \in Screens /\ snap' \in Snapshots /\ reader' \in Readers
        /\ snap' = SnapshotAfter
        /\ cmd.out # "view" =>
             ui'.sel = (IF reader.st = "done" /\ reader.ok /\ ui.view = "Tasks" /\ snap.data.list # <<>>
                        THEN ReselectTask(reader.data.list, SelectedTask(snap, ui.sel), ui.sel) ELSE ui.sel)
<1>1. ui \in Screens /\ reader \in Readers /\ store.rev \in Nat
  BY DEF ScreenTyped
<1> DEFINE u == AfterCommand(AfterSnapshot(AfterDocument(ui)))
<1>2. AfterDocument(ui) \in Screens /\ AfterDocument(ui).view = ui.view /\ AfterDocument(ui).sel = ui.sel
  BY <1>1, AfterDocumentIs
<1>3. /\ AfterSnapshot(AfterDocument(ui)) \in Screens
      /\ AfterSnapshot(AfterDocument(ui)).sel =
             IF reader.st = "done" /\ reader.ok /\ ui.view = "Tasks" /\ snap.data.list # <<>>
             THEN ReselectTask(reader.data.list, SelectedTask(snap, ui.sel), ui.sel) ELSE ui.sel
  BY <1>2, AfterSnapshotIs
<1>4. u \in Screens /\ (cmd.out # "view" => u.sel = AfterSnapshot(AfterDocument(ui)).sel)
  BY <1>3, AfterCommandIs
<1> HIDE DEF u
<1>5. snap' = SnapshotAfter /\ snap' \in Snapshots
  BY SnapshotAfterIs DEF Refresh
<1>6. PICK tok \in {[rev |-> store.rev, view |-> u.view]} \cup {NoToken} :
        /\ ui' \in {u, [u EXCEPT !.stale = FALSE]}
        /\ reader' \in {reader, [NoReader EXCEPT !.st = "started", !.token = tok],
                        [NoReader EXCEPT !.aged = reader.aged]}
  BY DEF Refresh, u
<1>7. tok \in Tokens
  BY <1>1, <1>4, FreshIs DEF Tokens, Screens
<1>8. reader' \in Readers
  BY <1>1, <1>6, <1>7, FreshIs DEF Readers
<1>9. [u EXCEPT !.stale = FALSE] \in Screens /\ [u EXCEPT !.stale = FALSE].sel = u.sel
  BY <1>4 DEF Screens
<1> QED BY <1>3, <1>4, <1>5, <1>6, <1>8, <1>9

-----------------------------------------------------------------------------
(* Every step keeps them well typed *)

\* A key leaves a well-typed screen.
LEMMA KeyIs == ASSUME ui \in Screens, NEW u \in Screens PROVE Key(u) \in Screens
<1>1. ui.edit \in {"no", "fresh", "now"}
  BY DEF Screens
<1> QED BY <1>1 DEF Key, Screens

\* The task at the highlight.
LEMMA SelectedIs ==
  ASSUME ScreenTyped, NEW sel \in Nat \ {0} PROVE SelectedTask(snap, sel) \in Tasks \cup {"none"}
<1>1. snap.data.list \in Seq(Tasks)
  BY DEF ScreenTyped, Snapshots, Data
<1> QED BY <1>1 DEF SelectedTask

\* Every step of the console keeps what is displayed well typed.
LEMMA ScreenStep ==
  ScreenTyped /\ DocumentTyped /\ DraftTyped /\ [ConsoleNext]_consoleVars => ScreenTyped'
<1> SUFFICES ASSUME ScreenTyped, DocumentTyped, DraftTyped, [ConsoleNext]_consoleVars PROVE ScreenTyped'
  OBVIOUS
<1>0. /\ ui \in Screens /\ snap \in Snapshots /\ reader \in Readers
      /\ store \in [rev : Nat, data : Data] /\ "Tasks" \in Views
  BY ConsoleAssumption DEF ScreenTyped
<1>1. CASE LoopRefresh \/ ClosedRefresh
  BY <1>0, <1>1, RefreshIs DEF LoopRefresh, ClosedRefresh, ScreenTyped
<1>2. CASE Age
  <2>1. reader' \in Readers
    BY <1>0, <1>2 DEF Age, Readers
  <2> QED BY <1>0, <1>2, <2>1 DEF Age, ScreenTyped
<1>3. CASE StoreWrite
  <2>1. Projections \subseteq Data
    BY ConsoleAssumption DEF Data
  <2>2. store' \in [rev : Nat, data : Data]
    BY <1>0, <1>3, <2>1 DEF StoreWrite
  <2> QED BY <1>0, <1>3, <2>2 DEF StoreWrite, ScreenTyped
<1>4. CASE ReadSnapshot
  <2>1. reader' \in Readers
    <3>1. ui.view \in Views /\ store.rev \in Int /\ store.data \in Data
      BY <1>0 DEF Screens
    <3> QED BY <1>0, <1>4, <3>1 DEF ReadSnapshot, Readers
  <2> QED BY <1>0, <1>4, <2>1 DEF ReadSnapshot, ScreenTyped
<1>5. CASE RunCommand \/ ReadDocument \/ BackgroundWrite \/ StartCheckpoint \/ ComposerEdit \/ ComposerPaste
  BY <1>0, <1>5 DEF RunCommand, ReadDocument, BackgroundWrite, StartCheckpoint, ComposerEdit, ComposerPaste,
                    ScreenTyped
<1>6. CASE KeyView
  BY <1>0, <1>6, ChooseViewIs, KeyIs DEF KeyView, OnlyUi, ScreenTyped
<1>7. CASE KeySelect
  <2>1. PICK i \in Nat \ {0} : ui' = Key([ui EXCEPT !.sel = i])
    <3>1. Len(snap.data.list) \in Nat
      BY <1>0 DEF Snapshots, Data
    <3> QED BY <1>7, <3>1 DEF KeySelect
  <2>2. [ui EXCEPT !.sel = i] \in Screens
    BY <1>0 DEF Screens
  <2> QED BY <1>0, <1>7, <2>1, <2>2, KeyIs DEF KeySelect, OnlyUi, ScreenTyped
<1>8. CASE KeyEnter
  <2>1. \A v \in Views : [ChooseView(ui, v) EXCEPT !.stale = TRUE] \in Screens
    BY <1>0, ChooseViewIs DEF Screens
  <2>2. [ui EXCEPT !.confirm = TRUE, !.screen = "confirm"] \in Screens
    BY <1>0 DEF Screens
  <2>3. ui' \in Screens
    BY <1>0, <1>8, <2>1, <2>2, KeyIs DEF KeyEnter
  <2> QED BY <1>0, <1>8, <2>3 DEF KeyEnter, ScreenTyped
<1>9. CASE KeyConfirm \/ KeyDismiss
  <2>1. [ui EXCEPT !.confirm = FALSE, !.screen = "none"] \in Screens /\ [ui EXCEPT !.screen = "none"] \in Screens
    BY <1>0 DEF Screens
  <2> QED BY <1>0, <1>9, <2>1, KeyIs DEF KeyConfirm, KeyDismiss, OnlyUi, ScreenTyped
<1>10. CASE KeyDocument
  BY <1>0, <1>10, KeyIs DEF KeyDocument, ScreenTyped
<1>11. CASE KeyHelp
  <2>1. [ui EXCEPT !.viewer = "help", !.docTask = "none"] \in Screens
    BY <1>0 DEF Screens, Documents
  <2> QED BY <1>0, <1>11, <2>1, KeyIs DEF KeyHelp, ScreenTyped
<1>12. CASE KeyViewer
  <2>1. [ui EXCEPT !.viewer = "none"] \in Screens /\ [ui EXCEPT !.viewer = "none", !.edit = "now"] \in Screens
    BY <1>0 DEF Screens, Documents
  <2> QED BY <1>0, <1>12, <2>1, KeyIs DEF KeyViewer, ScreenTyped
<1>13. CASE KeyCompose
  <2>1. [ui EXCEPT !.paste = TRUE] \in Screens
        /\ [ui EXCEPT !.docTask = "none", !.text = Blank, !.edit = "now"] \in Screens
    BY <1>0, FreshIs DEF Screens, Documents
  <2> QED BY <1>0, <1>13, <2>1, KeyIs DEF KeyCompose, OnlyUi, ScreenTyped
<1>14. ASSUME Leave PROVE ScreenTyped'
  BY <1>0, <1>14, FreshIs DEF Leave, ScreenTyped
<1>15. ASSUME NEW u \in Screens, Closed(u) PROVE ScreenTyped'
  <2>1. [u EXCEPT !.text = IF comp.how = "edit" THEN NoText ELSE @] \in Screens
    BY FreshIs DEF Screens
  <2> QED BY <1>0, <1>15, <2>1 DEF Closed, ScreenTyped
<1>16. CASE OpenComposer
  <2> DEFINE Taken(how) == [ui EXCEPT !.paste = @ /\ how # "paste", !.edit = IF how = "edit" THEN "no" ELSE Key(ui).edit]
  <2>1. Key(ui) \in Screens
    BY <1>0, KeyIs
  <2>2. \A how \in {"paste", "edit", "key"} : Taken(how) \in Screens
    BY <1>0, <2>1 DEF Screens
  <2>3. \A u \in Screens, h \in BOOLEAN : [u EXCEPT !.text = IF h THEN NoText ELSE @] \in Screens
    BY FreshIs DEF Screens
  <2>4. PICK how \in {"paste", "edit", "key"} :
          ui' \in {Taken(how), [Taken(how) EXCEPT !.text = IF how = "edit" THEN NoText ELSE @]}
    BY <1>16 DEF OpenComposer
  <2> HIDE DEF Taken
  <2>5. ui' \in Screens
    BY <2>2, <2>3, <2>4
  <2> QED BY <1>0, <1>16, <2>5 DEF OpenComposer, ScreenTyped
<1>17. CASE ComposerSave
  <2>1. comp.buf \in AnyText
    BY DEF DraftTyped
  <2>2. [ui EXCEPT !.text = comp.buf] \in Screens
    BY <1>0, <2>1 DEF Screens
  <2> QED BY <1>0, <1>15, <1>17, <2>2 DEF ComposerSave
<1>18. CASE ComposerDiscard \/ ComposerKeep
  BY <1>0, <1>14, <1>15, <1>18 DEF ComposerDiscard, ComposerKeep
<1>19. CASE KeyExit \/ HangUp
  BY <1>14, <1>19 DEF KeyExit, HangUp
<1>20. CASE UNCHANGED consoleVars
  BY <1>0, <1>20 DEF consoleVars, ScreenTyped
<1> QED
  BY <1>1, <1>2, <1>3, <1>4, <1>5, <1>6, <1>7, <1>8, <1>9, <1>10, <1>11, <1>12, <1>13, <1>16, <1>17, <1>18,
     <1>19, <1>20 DEF ConsoleNext, Threads, Keys, Composer

-----------------------------------------------------------------------------
(* Documents: what is published is what was last asked for *)

DocumentInv == DocumentTyped /\ ResultIsWanted

\* Steps that have nothing to do with documents.
LEMMA DocumentStays ==
  ASSUME DocumentInv, doc' = doc, reads' = reads, want' = want PROVE DocumentInv'
BY DEF DocumentInv, DocumentTyped, ResultIsWanted

\* Requests and cancellations end the generation of a read in flight.
LEMMA InvalidateIs ==
  ASSUME DocumentTyped
  PROVE /\ InvalidateDocumentRead(doc) = [gen |-> doc.gen + 1, pending |-> FALSE, edit |-> FALSE, result |-> NoResult]
        /\ NoResult \in [task : Documents, ok : BOOLEAN]
        /\ NoDoc \in [task : Documents, edit : BOOLEAN]
<1>1. NoResult \in [task : Documents, ok : BOOLEAN] /\ NoDoc \in [task : Documents, edit : BOOLEAN]
  BY DEF NoResult, NoDoc, Documents
<1>2. doc \in [gen : Nat, pending : BOOLEAN, edit : BOOLEAN, result : [task : Documents, ok : BOOLEAN]]
  BY DEF DocumentTyped
<1>3. InvalidateDocumentRead(doc) = [gen |-> doc.gen + 1, pending |-> FALSE, edit |-> FALSE, result |-> NoResult]
  <2>1. [doc EXCEPT !.gen = doc.gen + 1]
          = [gen |-> doc.gen + 1, pending |-> doc.pending, edit |-> doc.edit, result |-> doc.result]
    BY <1>2
  <2>2. InvalidateDocumentRead(doc) = [[doc EXCEPT !.gen = doc.gen + 1] EXCEPT !.result = NoResult,
                                                                              !.pending = FALSE, !.edit = FALSE]
    BY DEF InvalidateDocumentRead
  <2> HIDE DEF InvalidateDocumentRead
  <2> QED BY <2>1, <2>2
<1> QED BY <1>1, <1>3

\* Every step keeps the document read to what was last asked for.
LEMMA DocumentStep ==
  ScreenTyped /\ DocumentInv /\ [ConsoleNext]_consoleVars => DocumentInv'
<1> SUFFICES ASSUME ScreenTyped, DocumentInv, [ConsoleNext]_consoleVars PROVE DocumentInv'
  OBVIOUS
<1>0. DocumentTyped /\ ResultIsWanted
  BY DEF DocumentInv
<1>a. /\ doc \in [gen : Nat, pending : BOOLEAN, edit : BOOLEAN, result : [task : Documents, ok : BOOLEAN]]
      /\ reads \subseteq [gen : Nat, task : Documents \ {"none"}]
      /\ want \in [task : Documents, edit : BOOLEAN]
  BY <1>0 DEF DocumentTyped
<1>b. NoResult \in [task : Documents, ok : BOOLEAN] /\ NoDoc \in [task : Documents, edit : BOOLEAN]
  BY <1>0, InvalidateIs
<1>c. ASSUME doc' = InvalidateDocumentRead(doc), want' = NoDoc, reads' = reads PROVE DocumentInv'
  <2>1. doc' = [gen |-> doc.gen + 1, pending |-> FALSE, edit |-> FALSE, result |-> NoResult]
    BY <1>0, <1>c, InvalidateIs
  <2>2. DocumentTyped'
    BY <1>a, <1>b, <1>c, <2>1 DEF DocumentTyped
  <2>3. \A r \in reads : r.gen \in Nat /\ r.gen < doc'.gen
    BY <1>0, <1>a, <2>1 DEF ResultIsWanted
  <2>4. ResultIsWanted'
    <3>1. doc.gen \in Nat /\ doc'.gen = doc.gen + 1 /\ doc'.result = NoResult /\ reads' = reads
      BY <1>a, <1>c, <2>1
    <3>2. \A r \in reads : r.gen <= doc'.gen /\ r.gen # doc'.gen
      BY <2>3, <3>1
    <3> QED BY <1>0, <3>1, <3>2 DEF ResultIsWanted
  <2> QED BY <2>2, <2>4 DEF DocumentInv
<1>1. ASSUME NEW force \in BOOLEAN, NEW due \in BOOLEAN, Refresh(force, due, ui), reads' = reads PROVE DocumentInv'
  <2>1. CASE doc.result = NoResult
    <3>1. doc' = doc /\ want' = want
      <4>1. doc' = [doc EXCEPT !.result = NoResult, !.pending = @, !.edit = @] /\ want' = want
        BY <1>1, <2>1 DEF Refresh
      <4> QED BY <1>a, <4>1, <2>1
    <3> QED BY <1>1, <3>1, DocumentStays
  <2>2. CASE doc.result # NoResult
    <3>1. doc' = [gen |-> doc.gen, pending |-> FALSE, edit |-> FALSE, result |-> NoResult] /\ want' = NoDoc
      <4>1. doc' = [doc EXCEPT !.result = NoResult, !.pending = FALSE, !.edit = FALSE] /\ want' = NoDoc
        BY <1>1, <2>2 DEF Refresh
      <4> QED BY <1>a, <4>1
    <3>2. DocumentTyped'
      BY <1>a, <1>b, <1>1, <3>1 DEF DocumentTyped
    <3>3. \A r \in reads : r.gen # doc.gen
      BY <1>0, <2>2 DEF ResultIsWanted
    <3>4. ResultIsWanted'
      BY <1>0, <1>1, <3>1, <3>3 DEF ResultIsWanted
    <3> QED BY <3>2, <3>4 DEF DocumentInv
  <2> QED BY <2>1, <2>2
<1>2. CASE LoopRefresh \/ ClosedRefresh
  BY <1>1, <1>2 DEF LoopRefresh, ClosedRefresh
<1>3. CASE ReadDocument
  <2>1. PICK r \in reads, ok \in BOOLEAN :
          /\ reads' = reads \ {r} /\ want' = want
          /\ doc' = IF r.gen = doc.gen THEN [doc EXCEPT !.result = [task |-> r.task, ok |-> ok]] ELSE doc
    BY <1>3 DEF ReadDocument
  <2>2. CASE r.gen = doc.gen
    <3>1. doc' = [gen |-> doc.gen, pending |-> doc.pending, edit |-> doc.edit, result |-> [task |-> r.task, ok |-> ok]]
      BY <1>a, <2>1, <2>2
    <3>2. DocumentTyped'
      BY <1>a, <2>1, <3>1 DEF DocumentTyped
    <3>3. doc.pending /\ r.task = want.task /\ doc.edit = want.edit
      BY <1>0, <2>2 DEF ResultIsWanted
    <3>4. \A q \in reads' : q.gen # doc.gen
      BY <1>0, <2>1, <2>2 DEF ResultIsWanted
    <3>5. ResultIsWanted'
      BY <1>0, <2>1, <3>1, <3>3, <3>4 DEF ResultIsWanted
    <3> QED BY <3>2, <3>5 DEF DocumentInv
  <2>3. CASE r.gen # doc.gen
    BY <1>0, <2>1, <2>3 DEF DocumentInv, DocumentTyped, ResultIsWanted
  <2> QED BY <2>2, <2>3
<1>4. CASE KeyDocument
  <2>1. PICK t \in Documents \ {"none"}, edit \in BOOLEAN : RequestDocument(t, edit)
    <3>1. CASE ui.view # "Tasks" /\ RequestDocument("objective", FALSE)
      BY <3>1, ConsoleAssumption DEF Documents
    <3>2. CASE /\ SelectedTask(snap, ui.sel) # "none"
               /\ \E edit \in BOOLEAN : RequestDocument(SelectedTask(snap, ui.sel), edit)
      <4>1. SelectedTask(snap, ui.sel) \in Documents
        BY SelectedIs DEF ScreenTyped, Screens, Documents
      <4> QED BY <3>2, <4>1
    <3> QED BY <1>4, <3>1, <3>2 DEF KeyDocument
  <2>2. /\ doc' \in [gen : Nat, pending : BOOLEAN, edit : BOOLEAN, result : [task : Documents, ok : BOOLEAN]]
        /\ doc'.gen = doc.gen + 1 /\ doc'.pending /\ doc'.edit = edit /\ doc'.result = NoResult
    <3> DEFINE D == [gen : Nat, pending : BOOLEAN, edit : BOOLEAN, result : [task : Documents, ok : BOOLEAN]]
    <3> DEFINE d == InvalidateDocumentRead(doc)
    <3>1. d = [gen |-> doc.gen + 1, pending |-> FALSE, edit |-> FALSE, result |-> NoResult]
      BY <1>0, InvalidateIs
    <3>2. d \in D /\ d.gen = doc.gen + 1 /\ d.result = NoResult
      BY <1>a, <1>b, <3>1
    <3>3. doc' = [d EXCEPT !.pending = TRUE, !.edit = edit]
      BY <2>1 DEF RequestDocument
    <3> HIDE DEF d
    <3> QED BY <3>2, <3>3
  <2>3. reads' = reads \cup {[gen |-> doc.gen + 1, task |-> t]} /\ want' = [task |-> t, edit |-> edit]
    <3>1. InvalidateDocumentRead(doc).gen = doc.gen + 1
      BY <1>0, InvalidateIs
    <3>2. want' = [task |-> t, edit |-> edit]
      BY <2>1 DEF RequestDocument
    <3>3. reads' = reads \cup {[gen |-> InvalidateDocumentRead(doc).gen, task |-> t]}
      BY <2>1 DEF RequestDocument
    <3> QED BY <3>1, <3>2, <3>3
  <2>4. DocumentTyped'
    BY <1>a, <1>b, <2>2, <2>3 DEF DocumentTyped
  <2>5. \A r \in reads : r.gen \in Nat /\ r.gen <= doc.gen /\ doc.gen \in Nat
    BY <1>0, <1>a DEF ResultIsWanted
  <2>6. ResultIsWanted'
    <3>1. doc.gen \in Nat /\ doc'.gen = doc.gen + 1 /\ doc'.result = NoResult /\ doc'.pending
          /\ doc'.edit = edit /\ want'.task = t /\ want'.edit = edit
      BY <1>a, <2>2, <2>3
    <3>2. \A r \in reads' : r \in reads \/ (r.gen = doc'.gen /\ r.task = t /\ r = [gen |-> doc.gen + 1, task |-> t])
      BY <2>3, <3>1
    <3>3. \A r \in reads : r.gen <= doc'.gen /\ r.gen # doc'.gen
      BY <2>5, <3>1
    <3>4. \A r, q \in reads' : r.gen = q.gen => r = q
      BY <1>0, <3>2, <3>3 DEF ResultIsWanted
    <3>5. \A r \in reads' : r.gen <= doc'.gen
      BY <3>1, <3>2, <3>3
    <3> QED BY <3>1, <3>2, <3>3, <3>4, <3>5 DEF ResultIsWanted
  <2> QED BY <2>4, <2>6 DEF DocumentInv
<1>5. CASE KeyHelp \/ KeyViewer
  BY <1>c, <1>5 DEF KeyHelp, KeyViewer
<1>6. ASSUME Leave PROVE DocumentInv'
  <2>1. doc' = FreshDoc /\ reads' = {} /\ want' = NoDoc
    BY <1>6 DEF Leave
  <2> QED BY <1>b, <2>1 DEF DocumentInv, DocumentTyped, ResultIsWanted, FreshDoc
<1>7. CASE KeyExit \/ HangUp
  BY <1>6, <1>7 DEF KeyExit, HangUp
<1>8. CASE ComposerKeep
  BY <1>6, <1>8, DocumentStays DEF ComposerKeep, Closed
<1>9. CASE ComposerDiscard \/ ComposerSave \/ OpenComposer \/ StartCheckpoint \/ ComposerEdit \/ ComposerPaste
  BY <1>9, DocumentStays DEF ComposerDiscard, ComposerSave, Closed, OpenComposer, StartCheckpoint, ComposerEdit,
                             ComposerPaste
<1>10. CASE Age \/ StoreWrite \/ RunCommand \/ ReadSnapshot \/ BackgroundWrite
  BY <1>10, DocumentStays DEF Age, StoreWrite, RunCommand, ReadSnapshot, BackgroundWrite
<1>11. CASE KeyView \/ KeySelect \/ KeyEnter \/ KeyConfirm \/ KeyDismiss \/ KeyCompose
  BY <1>11, DocumentStays DEF KeyView, KeySelect, KeyEnter, KeyConfirm, KeyDismiss, KeyCompose, OnlyUi
<1>12. CASE UNCHANGED consoleVars
  BY <1>12, DocumentStays DEF consoleVars
<1> QED
  BY <1>2, <1>3, <1>4, <1>5, <1>7, <1>8, <1>9, <1>10, <1>11, <1>12 DEF ConsoleNext, Threads, Keys, Composer

-----------------------------------------------------------------------------
(* Drafts: what is owed is kept, and files move on *)

Composers ==
  [id : 0 .. MaxDrafts, how : {"paste", "edit", "key"}, target : Documents, buf : AnyText,
   checkpointed : AnyText, seq : Nat, written : Nat]
Writers == [id : Drafts, text : AnyText, seq : Nat, off : BOOLEAN, written : Nat]
Commands ==
  [st : {"none", "running", "done"}, draft : 0 .. MaxDrafts,
   out : {"none", "applied", "rejected", "unknown", "view"}, long : BOOLEAN]

DraftInv == DraftTyped /\ OpenDraft /\ LateWrites /\ Kept

\* The types of drafts, by their names.
LEMMA DraftTypes ==
  DraftTyped <=>
    /\ pc \in {"loop", "compose", "closed", "gone"}
    /\ comp \in Composers /\ writers \subseteq Writers
    /\ ck \in [Drafts -> AnyText] /\ owed \in [Drafts -> AnyText]
    /\ cmd \in Commands
BY DEF DraftTyped, Composers, Writers, Commands

\* What the write of a thread depends on.
LEMMA SeenIs ==
  ASSUME DraftTyped, NEW w \in writers
  PROVE /\ Seen(w).id = w.id /\ Seen(w).text = w.text /\ Seen(w).seq = w.seq
        /\ MayWrite(Seen(w)) <=> Writable(w)
<1>1. w \in Writers
  BY DraftTypes
<1>2. [w EXCEPT !.written = comp.written].id = w.id /\ [w EXCEPT !.written = comp.written].text = w.text
      /\ [w EXCEPT !.written = comp.written].seq = w.seq /\ [w EXCEPT !.written = comp.written].off = w.off
      /\ [w EXCEPT !.written = comp.written].written = comp.written
  BY <1>1 DEF Writers
<1>3. CASE comp.id = w.id /\ pc = "compose"
  BY <1>2, <1>3 DEF Seen, MayWrite, Writable
<1>4. CASE ~(comp.id = w.id /\ pc = "compose")
  BY <1>4 DEF Seen, MayWrite, Writable
<1> QED BY <1>3, <1>4

\* A thread of a composer that closes, and what it will see of it.
Stamped(w, off, x) == IF w.id = comp.id THEN [w EXCEPT !.off = off, !.written = x] ELSE w

\* Each thread of a composer that closes is one it had, stamped with what it will see.
LEMMA DetachedIs ==
  ASSUME DraftTyped, NEW off \in BOOLEAN, NEW x \in Nat, NEW v \in Detached(off, x)
  PROVE \E w \in writers : /\ v = Stamped(w, off, x) /\ v \in Writers
                           /\ v.id = w.id /\ v.text = w.text /\ v.seq = w.seq
                           /\ w.id = comp.id => (v.off <=> off) /\ v.written = x
                           /\ w.id # comp.id => (v.off <=> w.off) /\ v.written = w.written
<1>1. PICK w \in writers : v = Stamped(w, off, x)
  BY DEF Detached, Stamped
<1>2. w \in Writers
  BY DraftTypes
<1>3. CASE w.id = comp.id
  <2>1. v = [w EXCEPT !.off = off, !.written = x]
    BY <1>1, <1>3 DEF Stamped
  <2>2. v \in Writers /\ v.id = w.id /\ v.text = w.text /\ v.seq = w.seq /\ (v.off <=> off) /\ v.written = x
    BY <1>2, <2>1 DEF Writers
  <2> QED BY <1>1, <1>3, <2>2
<1>4. CASE w.id # comp.id
  <2>1. v = w
    BY <1>1, <1>4 DEF Stamped
  <2> QED BY <1>1, <1>2, <1>4, <2>1
<1> QED BY <1>3, <1>4

\* Steps that leave composers, their threads and their files alone.
LEMMA DraftStays ==
  ASSUME DraftInv, comp' = comp, writers' = writers, ck' = ck, owed' = owed,
         pc' \in {"loop", "compose", "closed", "gone"}, pc' = "compose" <=> pc = "compose",
         cmd' \in Commands, cmd'.draft # 0 => cmd'.draft = cmd.draft /\ cmd'.st # "none"
  PROVE DraftInv'
<1>1. DraftTyped'
  BY DEF DraftInv, DraftTyped, Commands
<1>2. OpenDraft'
  BY DEF DraftInv, OpenDraft
<1>3. LateWrites'
  BY DEF DraftInv, LateWrites, Writable
<1>4. Kept'
  <2>1. cmd'.draft # 0 => owed[cmd'.draft] # NoText
    BY DEF DraftInv, Kept
  <2> QED BY <2>1 DEF DraftInv, Kept
<1> QED BY <1>1, <1>2, <1>3, <1>4 DEF DraftInv

\* Steps that leave drafts alone altogether.
LEMMA DraftUnchanged ==
  ASSUME DraftInv, comp' = comp, writers' = writers, ck' = ck, owed' = owed, cmd' = cmd,
         pc' \in {"loop", "compose", "closed", "gone"}, pc' = "compose" <=> pc = "compose"
  PROVE DraftInv'
<1>1. cmd \in Commands
  BY DraftTypes DEF DraftInv
<1>2. cmd.draft # 0 => cmd.st # "none"
  BY DEF DraftInv, Kept
<1> QED BY <1>1, <1>2, DraftStays

\* A composer that closes: its draft is gone, or owed as its recovery file has
\* it, and its threads write no more.
LEMMA CloseIs ==
  ASSUME DraftInv, pc = "compose", pc' = "closed", comp' = NoComposer(comp.id),
         NEW off \in BOOLEAN, NEW x \in Nat, writers' = Detached(off, x), off \/ x > comp.seq,
         NEW f \in {NoText, comp.buf},
         ck' = [ck EXCEPT ![comp.id] = f], owed' = [owed EXCEPT ![comp.id] = f],
         cmd' \in Commands,
         cmd'.draft # 0 => cmd'.st # "none" /\ (cmd'.draft = cmd.draft \/ (cmd'.draft = comp.id /\ f # NoText))
  PROVE DraftInv'
<1>1. /\ comp \in Composers /\ writers \subseteq Writers
      /\ ck \in [Drafts -> AnyText] /\ owed \in [Drafts -> AnyText]
  BY DraftTypes DEF DraftInv
<1>2. comp.id \in Drafts /\ comp.id \in 0 .. MaxDrafts /\ comp.seq \in Nat /\ f \in AnyText /\ owed[comp.id] = NoText
  BY <1>1, FreshIs DEF DraftInv, OpenDraft, Composers
<1>3. /\ ck'[comp.id] = f /\ owed'[comp.id] = f
      /\ \A d \in Drafts : d # comp.id => ck'[d] = ck[d] /\ owed'[d] = owed[d]
      /\ ck' \in [Drafts -> AnyText] /\ owed' \in [Drafts -> AnyText]
  BY <1>1, <1>2
<1>4. comp' \in Composers /\ comp'.id = comp.id
  BY <1>2, FreshIs DEF NoComposer, Composers, Documents
<1>5. \A v \in writers' : \E w \in writers :
        /\ v = Stamped(w, off, x) /\ v \in Writers
        /\ v.id = w.id /\ v.text = w.text /\ v.seq = w.seq
        /\ w.id = comp.id => (v.off <=> off) /\ v.written = x
        /\ w.id # comp.id => (v.off <=> w.off) /\ v.written = w.written
  BY DetachedIs DEF DraftInv
<1>6. DraftTyped'
  <2>1. writers' \subseteq Writers /\ pc' \in {"loop", "compose", "closed", "gone"}
    BY <1>5
  <2> QED BY <1>3, <1>4, <2>1 DEF DraftTyped, Composers, Writers, Commands
<1>7. OpenDraft'
  BY DEF OpenDraft
<1>8. LateWrites'
  <2>1. \A w, v \in writers : w.id = v.id => w = v
    BY DEF DraftInv, LateWrites
  <2>2. \A w \in writers : w.id <= comp.id /\ w.text # NoText
    BY DEF DraftInv, LateWrites
  <2>3. \A w, v \in writers' : w.id = v.id => w = v
    BY <1>5, <2>1
  <2>4. \A v \in writers' : v.id <= comp'.id /\ v.text # NoText
    BY <1>4, <1>5, <2>2
  <2>5. ASSUME NEW v \in writers', Writable(v)'
        PROVE owed'[v.id] = NoText /\ ck'[v.id] # NoText /\ ck'[v.id].n <= v.text.n
    <3>1. PICK w \in writers : /\ v.id = w.id /\ v.text = w.text /\ v.seq = w.seq
                               /\ w.id = comp.id => (v.off <=> off) /\ v.written = x
                               /\ w.id # comp.id => (v.off <=> w.off) /\ v.written = w.written
      BY <1>5
    <3>2. ~v.off /\ v.seq >= v.written
      BY <2>5 DEF Writable
    <3>3. w \in Writers /\ w.seq \in Nat /\ w.id \in Drafts
      BY <1>1 DEF Writers
    <3>4. w.id # comp.id
      <4>1. w.id = comp.id => w.seq <= comp.seq
        BY DEF DraftInv, OpenDraft
      <4> QED BY <1>2, <3>1, <3>2, <3>3, <4>1
    <3>5. Writable(w)
      BY <3>1, <3>2, <3>4 DEF Writable
    <3>6. owed[w.id] = NoText /\ ck[w.id] # NoText /\ ck[w.id].n <= w.text.n
      BY <3>5 DEF DraftInv, LateWrites
    <3> QED BY <1>3, <3>1, <3>3, <3>4, <3>6
  <2> QED BY <2>3, <2>4, <2>5 DEF LateWrites
<1>9. Kept'
  <2>1. \A d \in Drafts : d > comp'.id => owed'[d] = NoText /\ ck'[d] = NoText
    BY <1>2, <1>3, <1>4 DEF DraftInv, Kept
  <2>2. \A d \in Drafts : owed'[d] # NoText => ck'[d] = owed'[d]
    BY <1>3 DEF DraftInv, Kept
  <2>3. cmd'.draft # 0 => owed'[cmd'.draft] # NoText
    <3>1. ASSUME cmd'.draft # 0, cmd'.draft = cmd.draft PROVE owed'[cmd'.draft] # NoText
      <4>1. owed[cmd.draft] # NoText /\ cmd.draft \in 0 .. MaxDrafts
        BY <3>1, DraftTypes DEF DraftInv, Kept, Commands
      <4>2. cmd.draft # comp.id /\ cmd.draft \in Drafts
        BY <1>2, <3>1, <4>1, ConsoleAssumption DEF Drafts
      <4> QED BY <1>3, <3>1, <4>1, <4>2
    <3> QED BY <1>3, <3>1
  <2> QED BY <2>1, <2>2, <2>3 DEF Kept
<1> QED BY <1>6, <1>7, <1>8, <1>9 DEF DraftInv

\* The console that ends: what is on disk stays, and so do its threads.
LEMMA LeaveIs ==
  ASSUME DraftInv, Leave PROVE DraftInv'
<1>1. /\ comp \in Composers /\ writers \subseteq Writers
      /\ ck \in [Drafts -> AnyText] /\ owed \in [Drafts -> AnyText]
  BY DraftTypes DEF DraftInv
<1>0. PICK off \in BOOLEAN : off = FALSE
  OBVIOUS
<1>2. /\ pc' = "gone" /\ cmd' = NoCmd /\ comp' = NoComposer(comp.id) /\ ck' = ck /\ owed' = owed
      /\ writers' = IF pc = "compose" THEN Detached(off, comp.written) ELSE writers
  BY <1>0 DEF Leave
<1>3. comp.id \in 0 .. MaxDrafts /\ comp.written \in Nat
  BY <1>1 DEF Composers
<1>4. comp' \in Composers /\ comp'.id = comp.id /\ cmd' \in Commands /\ cmd'.draft = 0
  <2>1. comp' \in Composers /\ comp'.id = comp.id
    BY <1>2, <1>3, FreshIs DEF NoComposer, Composers, Documents
  <2>2. 0 \in 0 .. MaxDrafts
    BY ConsoleAssumption
  <2>3. cmd' \in Commands /\ cmd'.draft = 0
    BY <1>2, <2>2 DEF NoCmd, Commands
  <2> QED BY <2>1, <2>3
<1> DEFINE Copy(w) == IF pc = "compose" THEN Stamped(w, off, comp.written) ELSE w
<1>5. \A v \in writers' : \E w \in writers :
        /\ v = Copy(w) /\ v \in Writers
        /\ v.id = w.id /\ v.text = w.text /\ v.seq = w.seq
        /\ pc = "compose" /\ w.id = comp.id => (v.off <=> off) /\ v.written = comp.written
        /\ ~(pc = "compose" /\ w.id = comp.id) => (v.off <=> w.off) /\ v.written = w.written
  <2>1. CASE pc = "compose"
    <3>1. \A v \in Detached(off, comp.written) :
                       \E w \in writers : /\ v = Stamped(w, off, comp.written) /\ v \in Writers
                                          /\ v.id = w.id /\ v.text = w.text /\ v.seq = w.seq
                                          /\ w.id = comp.id => (v.off <=> off) /\ v.written = comp.written
                                          /\ w.id # comp.id => (v.off <=> w.off) /\ v.written = w.written
      BY <1>3, DetachedIs DEF DraftInv
    <3>2. writers' = Detached(off, comp.written) /\ \A w \in writers : Copy(w) = Stamped(w, off, comp.written)
      BY <1>2, <2>1
    <3> HIDE DEF Copy
    <3>3. ASSUME NEW v \in writers' PROVE \E w \in writers :
            /\ v = Copy(w) /\ v \in Writers
            /\ v.id = w.id /\ v.text = w.text /\ v.seq = w.seq
            /\ pc = "compose" /\ w.id = comp.id => (v.off <=> off) /\ v.written = comp.written
            /\ ~(pc = "compose" /\ w.id = comp.id) => (v.off <=> w.off) /\ v.written = w.written
      <4>1. PICK w \in writers : /\ v = Stamped(w, off, comp.written) /\ v \in Writers
                                 /\ v.id = w.id /\ v.text = w.text /\ v.seq = w.seq
                                 /\ w.id = comp.id => (v.off <=> off) /\ v.written = comp.written
                                 /\ w.id # comp.id => (v.off <=> w.off) /\ v.written = w.written
        BY <3>1, <3>2
      <4> QED BY <2>1, <3>2, <4>1
    <3> QED BY <3>3
  <2>2. CASE pc # "compose"
    BY <1>1, <1>2, <2>2
  <2> QED BY <2>1, <2>2
<1> HIDE DEF Copy
<1>6. DraftTyped'
  <2>1. writers' \subseteq Writers
    BY <1>5
  <2> QED BY <1>1, <1>2, <1>4, <2>1 DEF DraftTyped, Composers, Writers, Commands
<1>7. OpenDraft'
  BY <1>2 DEF OpenDraft
<1>8. LateWrites'
  <2>1. \A w, v \in writers : w.id = v.id => w = v
    BY DEF DraftInv, LateWrites
  <2>2. \A w \in writers : w.id <= comp.id /\ w.text # NoText
    BY DEF DraftInv, LateWrites
  <2>3. \A w, v \in writers' : w.id = v.id => w = v
    BY <1>5, <2>1
  <2>4. \A v \in writers' : v.id <= comp'.id /\ v.text # NoText
    BY <1>4, <1>5, <2>2
  <2>5. ASSUME NEW v \in writers', Writable(v)'
        PROVE owed'[v.id] = NoText /\ ck'[v.id] # NoText /\ ck'[v.id].n <= v.text.n
    <3>1. PICK w \in writers :
            /\ v.id = w.id /\ v.text = w.text /\ v.seq = w.seq
            /\ pc = "compose" /\ w.id = comp.id => (v.off <=> off) /\ v.written = comp.written
            /\ ~(pc = "compose" /\ w.id = comp.id) => (v.off <=> w.off) /\ v.written = w.written
      BY <1>5
    <3>2. ~v.off /\ v.seq >= v.written
      BY <1>2, <2>5 DEF Writable
    <3>3. pc = "compose" /\ w.id = comp.id => ~w.off
      BY DEF DraftInv, OpenDraft
    <3>4. Writable(w)
      BY <3>1, <3>2, <3>3 DEF Writable
    <3> QED BY <1>2, <3>1, <3>4 DEF DraftInv, LateWrites
  <2> QED BY <2>3, <2>4, <2>5 DEF LateWrites
<1>9. Kept'
  BY <1>2, <1>4 DEF DraftInv, Kept
<1> QED BY <1>6, <1>7, <1>8, <1>9 DEF DraftInv

\* A write by the thread of a composer.
LEMMA BackgroundWriteIs ==
  ASSUME DraftInv, BackgroundWrite PROVE DraftInv'
<1>1. /\ comp \in Composers /\ writers \subseteq Writers
      /\ ck \in [Drafts -> AnyText] /\ owed \in [Drafts -> AnyText]
  BY DraftTypes DEF DraftInv
<1>2. PICK w \in writers :
        /\ writers' = writers \ {w} /\ pc' = pc /\ owed' = owed /\ cmd' = cmd
        /\ \/ ck' = ck /\ comp' = comp
           \/ /\ Writable(w) /\ ck' = [ck EXCEPT ![w.id] = w.text]
              /\ comp' = IF comp.id = w.id /\ pc = "compose"
                         THEN [comp EXCEPT !.checkpointed = w.text, !.written = w.seq] ELSE comp
  <2>1. PICK w0 \in writers :
          /\ writers' = writers \ {w0} /\ pc' = pc /\ owed' = owed /\ cmd' = cmd
          /\ \/ ck' = ck /\ comp' = comp
             \/ /\ MayWrite(Seen(w0)) /\ ck' = [ck EXCEPT ![Seen(w0).id] = Seen(w0).text]
                /\ comp' = IF comp.id = Seen(w0).id /\ pc = "compose"
                           THEN [comp EXCEPT !.checkpointed = Seen(w0).text, !.written = Seen(w0).seq] ELSE comp
    BY DEF BackgroundWrite
  <2>2. /\ Seen(w0).id = w0.id /\ Seen(w0).text = w0.text /\ Seen(w0).seq = w0.seq
        /\ MayWrite(Seen(w0)) <=> Writable(w0)
    BY SeenIs DEF DraftInv
  <2> QED BY <2>1, <2>2
<1>3. w \in Writers /\ w.id \in Drafts /\ w.text \in AnyText /\ w.seq \in Nat
  BY <1>1 DEF Writers
<1>4. \A v \in writers' : v \in writers /\ v.id # w.id
  BY <1>2 DEF DraftInv, LateWrites
<1>5. CASE ck' = ck /\ comp' = comp
  <2>1. DraftTyped'
    BY <1>2, <1>5 DEF DraftInv, DraftTyped
  <2>2. OpenDraft' /\ LateWrites'
    BY <1>2, <1>4, <1>5 DEF DraftInv, OpenDraft, LateWrites, Writable
  <2>3. Kept'
    BY <1>2, <1>5 DEF DraftInv, Kept
  <2> QED BY <2>1, <2>2, <2>3 DEF DraftInv
<1>6. CASE /\ Writable(w) /\ ck' = [ck EXCEPT ![w.id] = w.text]
           /\ comp' = IF comp.id = w.id /\ pc = "compose"
                      THEN [comp EXCEPT !.checkpointed = w.text, !.written = w.seq] ELSE comp
  <2>1. ck' \in [Drafts -> AnyText] /\ ck'[w.id] = w.text /\ \A d \in Drafts : d # w.id => ck'[d] = ck[d]
    BY <1>1, <1>3, <1>6
  <2>2. /\ comp' \in Composers /\ comp'.id = comp.id /\ comp'.buf = comp.buf /\ comp'.seq = comp.seq
        /\ comp'.written = IF comp.id = w.id /\ pc = "compose" THEN w.seq ELSE comp.written
    <3>1. CASE comp.id = w.id /\ pc = "compose"
      <4>1. comp' = [comp EXCEPT !.checkpointed = w.text, !.written = w.seq]
        BY <1>6, <3>1
      <4> QED BY <1>1, <1>3, <3>1, <4>1 DEF Composers
    <3>2. CASE ~(comp.id = w.id /\ pc = "compose")
      BY <1>1, <1>6, <3>2
    <3> QED BY <3>1, <3>2
  <2>3. owed[w.id] = NoText /\ w.text # NoText /\ w.id <= comp.id
    BY <1>6 DEF DraftInv, LateWrites
  <2>4. DraftTyped'
    BY <1>1, <1>2, <2>1, <2>2, DraftTypes DEF DraftInv, DraftTyped, Composers, Writers, Commands
  <2>5. OpenDraft'
    <3>1. SUFFICES ASSUME pc = "compose"
                   PROVE /\ comp.id \in Drafts /\ owed[comp.id] = NoText /\ ck'[comp.id] # NoText
                         /\ comp.buf # NoText /\ ck'[comp.id].n <= comp.buf.n /\ comp'.written <= comp.seq
                         /\ \A v \in writers' : v.id = comp.id =>
                              ~v.off /\ v.seq <= comp.seq /\ v.text.n <= comp.buf.n
      BY <1>2, <2>2 DEF OpenDraft
    <3>2. /\ comp.id \in Drafts /\ owed[comp.id] = NoText /\ ck[comp.id] # NoText /\ comp.buf # NoText
          /\ ck[comp.id].n <= comp.buf.n /\ comp.written <= comp.seq
          /\ \A v \in writers : v.id = comp.id => ~v.off /\ v.seq <= comp.seq /\ v.text.n <= comp.buf.n
      BY <3>1 DEF DraftInv, OpenDraft
    <3> QED BY <1>4, <2>1, <2>2, <2>3, <3>2
  <2>6. LateWrites'
    <3>1. \A v \in writers' : Writable(v)' => Writable(v)
      BY <1>2, <1>4, <2>2 DEF Writable
    <3>2. \A v \in writers' : v.id \in Drafts /\ ck'[v.id] = ck[v.id]
      BY <1>1, <1>4, <2>1 DEF Writers
    <3> QED BY <1>2, <1>4, <2>2, <3>1, <3>2 DEF DraftInv, LateWrites
  <2>7. Kept'
    <3>1. \A d \in Drafts : d > comp.id => d # w.id
      BY <1>1, <1>3, <2>3, ConsoleAssumption DEF Composers, Drafts
    <3> QED BY <1>2, <2>1, <2>2, <2>3, <3>1 DEF DraftInv, Kept
  <2> QED BY <2>4, <2>5, <2>6, <2>7 DEF DraftInv
<1> QED BY <1>2, <1>5, <1>6

\* What the open composer does to its own text, its file and its threads.
LEMMA ComposingIs ==
  ASSUME DraftInv, StartCheckpoint \/ ComposerEdit \/ ComposerPaste PROVE DraftInv'
<1>1. /\ comp \in Composers /\ writers \subseteq Writers
      /\ ck \in [Drafts -> AnyText] /\ owed \in [Drafts -> AnyText] /\ cmd \in Commands
  BY DraftTypes DEF DraftInv
<1>2. pc = "compose" /\ pc' = "compose" /\ owed' = owed /\ cmd' = cmd
  BY DEF StartCheckpoint, ComposerEdit, ComposerPaste
<1>3. /\ comp.id \in Drafts /\ owed[comp.id] = NoText /\ ck[comp.id] # NoText /\ comp.buf # NoText
      /\ ck[comp.id].n <= comp.buf.n /\ comp.written <= comp.seq
      /\ \A w \in writers : w.id = comp.id => ~w.off /\ w.seq <= comp.seq /\ w.text.n <= comp.buf.n
  BY <1>2 DEF DraftInv, OpenDraft
<1>4. comp.seq \in Nat /\ comp.written \in Nat /\ comp.buf \in AnyText /\ comp.buf.n \in Nat /\ ck[comp.id].n \in Nat
  BY <1>1, <1>3 DEF Composers, AnyText
<1>5. Edited \in AnyText /\ Edited.n = comp.buf.n + 1 /\ Edited # NoText
  <2>1. Edited \in AnyText /\ Edited.n = comp.buf.n + 1
    BY <1>4 DEF Edited, AnyText
  <2>2. NoText.n = 0
    BY DEF NoText
  <2> QED BY <1>4, <2>1, <2>2
<1>6. \A w \in writers : w.text \in AnyText /\ w.text.n \in Nat /\ w.seq \in Nat /\ w.id \in Drafts
  BY <1>1 DEF Writers, AnyText
<1>7. /\ \A w \in writers : w.id <= comp.id /\ w.text # NoText
      /\ \A w, v \in writers : w.id = v.id => w = v
      /\ \A w \in writers : Writable(w) => owed[w.id] = NoText /\ ck[w.id] # NoText /\ ck[w.id].n <= w.text.n
  BY DEF DraftInv, LateWrites
<1>8. CASE StartCheckpoint
  <2> DEFINE new == [id |-> comp.id, text |-> comp.buf, seq |-> comp.seq + 1, off |-> FALSE, written |-> 0]
  <2>1. writers' = writers \cup {new} /\ ck' = ck /\ \A w \in writers : w.id # comp.id
    BY <1>8 DEF StartCheckpoint
  <2>2. /\ comp' \in Composers /\ comp'.id = comp.id /\ comp'.buf = comp.buf /\ comp'.seq = comp.seq + 1
        /\ comp'.written = comp.written
    BY <1>1, <1>4, <1>8 DEF StartCheckpoint, Composers
  <2>3. new \in Writers /\ new.id = comp.id /\ new.text = comp.buf /\ new.seq = comp.seq + 1 /\ ~new.off
    BY <1>3, <1>4 DEF Writers
  <2> HIDE DEF new
  <2>4. DraftTyped'
    BY <1>1, <1>2, <2>1, <2>2, <2>3 DEF DraftTyped, Composers, Writers, Commands
  <2>5. OpenDraft'
    BY <1>2, <1>3, <1>4, <2>1, <2>2, <2>3 DEF OpenDraft
  <2>6. LateWrites'
    <3>1. \A w \in writers : Writable(w)' => Writable(w)
      BY <2>1, <2>2, <1>2 DEF Writable
    <3>2. \A w \in writers' : w \in writers \/ w = new
      BY <2>1
    <3>3. \A w \in writers' : w.id <= comp'.id /\ w.text # NoText
      BY <1>1, <1>3, <1>7, <2>2, <2>3, <3>2 DEF Composers
    <3>4. \A w, v \in writers' : w.id = v.id => w = v
      BY <1>7, <2>1, <2>3, <3>2
    <3>5. \A w \in writers' : Writable(w)' => owed[w.id] = NoText /\ ck[w.id] # NoText /\ ck[w.id].n <= w.text.n
      BY <1>3, <1>7, <2>3, <3>1, <3>2
    <3> QED BY <1>2, <2>1, <3>3, <3>4, <3>5 DEF LateWrites
  <2>7. Kept'
    BY <1>2, <2>1, <2>2 DEF DraftInv, Kept
  <2> QED BY <2>4, <2>5, <2>6, <2>7 DEF DraftInv
<1>9. CASE ComposerEdit \/ ComposerPaste
  <2>1. /\ comp' \in Composers /\ comp'.id = comp.id /\ comp'.buf = Edited
        /\ \/ ck' = ck /\ comp'.seq \in {comp.seq, comp.seq + 1} /\ comp'.written = comp.written
           \/ ck' = [ck EXCEPT ![comp.id] = Edited] /\ comp'.seq = comp.seq + 1 /\ comp'.written = comp.seq + 1
    <3>1. CASE comp' = [comp EXCEPT !.buf = Edited] /\ ck' = ck
      BY <1>1, <1>5, <3>1 DEF Composers
    <3>2. CASE /\ comp' = [comp EXCEPT !.buf = Edited, !.checkpointed = Edited, !.seq = @ + 1, !.written = comp.seq + 1]
               /\ ck' = [ck EXCEPT ![comp.id] = Edited]
      <4> DEFINE c == [comp EXCEPT !.buf = Edited, !.checkpointed = Edited]
      <4>1. c \in Composers /\ c.id = comp.id /\ c.buf = Edited
        BY <1>1, <1>5 DEF Composers
      <4>2. comp' = [c EXCEPT !.seq = comp.seq + 1, !.written = comp.seq + 1]
        BY <3>2
      <4>3. PICK s \in Nat : s = comp.seq + 1
        BY <1>4
      <4> HIDE DEF c
      <4>4. comp' = [c EXCEPT !.seq = s, !.written = s]
        BY <4>2, <4>3
      <4>5. comp' \in Composers /\ comp'.id = comp.id /\ comp'.buf = Edited /\ comp'.seq = s /\ comp'.written = s
        BY <4>1, <4>4 DEF Composers
      <4> QED BY <3>2, <4>3, <4>5
    <3>3. CASE comp' = [comp EXCEPT !.buf = Edited, !.seq = @ + 1] /\ ck' = ck
      <4> DEFINE c == [comp EXCEPT !.buf = Edited]
      <4>1. c \in Composers /\ c.id = comp.id /\ c.buf = Edited /\ c.written = comp.written
        BY <1>1, <1>5 DEF Composers
      <4>2. comp' = [c EXCEPT !.seq = comp.seq + 1]
        BY <3>3
      <4>3. PICK s \in Nat : s = comp.seq + 1
        BY <1>4
      <4> HIDE DEF c
      <4>4. comp' = [c EXCEPT !.seq = s]
        BY <4>2, <4>3
      <4>5. comp' \in Composers /\ comp'.id = comp.id /\ comp'.buf = Edited /\ comp'.seq = s
            /\ comp'.written = comp.written
        BY <4>1, <4>4 DEF Composers
      <4> QED BY <3>3, <4>3, <4>5
    <3> QED BY <1>9, <3>1, <3>2, <3>3 DEF ComposerEdit, ComposerPaste
  <2>2. writers' = writers
    BY <1>9 DEF ComposerEdit, ComposerPaste
  <2>3. /\ ck' \in [Drafts -> AnyText] /\ ck'[comp.id] \in {ck[comp.id], Edited}
        /\ \A d \in Drafts : d # comp.id => ck'[d] = ck[d]
    BY <1>1, <1>3, <1>5, <2>1
  <2>4. DraftTyped'
    BY <1>1, <1>2, <2>1, <2>2, <2>3 DEF DraftTyped, Composers, Writers, Commands
  <2>5. OpenDraft'
    <3>1. \A w \in writers : w.id = comp.id => ~w.off /\ w.seq <= comp'.seq /\ w.text.n <= comp'.buf.n
      BY <1>3, <1>4, <1>5, <1>6, <2>1
    <3>2. ck'[comp.id] # NoText /\ ck'[comp.id].n <= comp'.buf.n /\ comp'.written <= comp'.seq
      BY <1>3, <1>4, <1>5, <2>1, <2>3
    <3> QED BY <1>2, <1>3, <1>5, <2>1, <2>2, <3>1, <3>2 DEF OpenDraft
  <2>6. LateWrites'
    <3>1. ASSUME NEW w \in writers, Writable(w)'
          PROVE owed[w.id] = NoText /\ ck'[w.id] # NoText /\ ck'[w.id].n <= w.text.n
      <4>1. CASE w.id # comp.id
        <5>1. Writable(w)
          BY <1>2, <2>1, <3>1, <4>1 DEF Writable
        <5> QED BY <1>6, <1>7, <2>3, <4>1, <5>1
      <4>2. CASE w.id = comp.id
        <5>1. w.seq >= comp'.written /\ ~w.off /\ w.seq <= comp.seq /\ w.seq \in Nat
          BY <1>2, <1>3, <1>6, <2>1, <3>1, <4>2 DEF Writable
        <5>2. ck' = ck /\ comp'.written = comp.written
          BY <1>4, <2>1, <5>1
        <5>3. Writable(w)
          BY <1>2, <4>2, <5>1, <5>2 DEF Writable
        <5> QED BY <1>7, <5>2, <5>3
      <4> QED BY <4>1, <4>2
    <3> QED BY <1>2, <1>7, <2>1, <2>2, <3>1 DEF LateWrites
  <2>7. Kept'
    <3>1. \A d \in Drafts : d > comp.id => d # comp.id
      BY <1>1 DEF Composers
    <3> QED BY <1>2, <1>3, <2>1, <2>3, <3>1 DEF DraftInv, Kept
  <2> QED BY <2>4, <2>5, <2>6, <2>7 DEF DraftInv
<1> QED BY <1>8, <1>9

\* A command that is acknowledged takes its draft with it.
LEMMA AcknowledgedIs ==
  ASSUME DraftInv, NEW force \in BOOLEAN, NEW due \in BOOLEAN, Refresh(force, due, ui),
         pc \in {"loop", "closed"}, pc' = "loop", comp' = comp, writers' = writers
  PROVE DraftInv'
<1>1. /\ comp \in Composers /\ writers \subseteq Writers
      /\ ck \in [Drafts -> AnyText] /\ owed \in [Drafts -> AnyText] /\ cmd \in Commands
  BY DraftTypes DEF DraftInv
<1>2. cmd' = (IF cmd.st = "done" THEN NoCmd ELSE cmd) /\ Cleanup
  BY DEF Refresh
<1>3. cmd' \in Commands /\ (cmd'.draft # 0 => cmd' = cmd /\ cmd.st # "done" /\ cmd'.st # "none")
  <2>1. NoCmd \in Commands /\ NoCmd.draft = 0
    <3>1. 0 \in 0 .. MaxDrafts
      BY ConsoleAssumption
    <3> QED BY <3>1 DEF NoCmd, Commands
  <2>2. cmd.draft # 0 => cmd.st # "none"
    BY DEF DraftInv, Kept
  <2> QED BY <1>1, <1>2, <2>1, <2>2
<1>4. CASE ~(Acknowledged(cmd) /\ cmd.draft # 0)
  BY <1>2, <1>3, <1>4, DraftStays DEF Cleanup
<1>5. CASE Acknowledged(cmd) /\ cmd.draft # 0
  <2> DEFINE d == cmd.draft
  <2>1. /\ ck' = [ck EXCEPT ![d] = NoText] /\ owed' = [owed EXCEPT ![d] = NoText] /\ cmd'.draft = 0
    BY <1>2, <1>5 DEF Cleanup, Acknowledged, NoCmd
  <2>2. d \in Drafts /\ owed[d] # NoText
    BY <1>1, <1>5, ConsoleAssumption DEF DraftInv, Kept, Commands, Drafts
  <2>3. /\ ck' \in [Drafts -> AnyText] /\ owed' \in [Drafts -> AnyText] /\ ck'[d] = NoText /\ owed'[d] = NoText
        /\ \A e \in Drafts : e # d => ck'[e] = ck[e] /\ owed'[e] = owed[e]
    BY <1>1, <2>1, <2>2, FreshIs
  <2>4. DraftTyped'
    BY <1>1, <1>3, <2>3 DEF DraftTyped, Composers, Writers, Commands
  <2>5. OpenDraft'
    BY DEF OpenDraft
  <2>6. LateWrites'
    <3>1. \A w \in writers : Writable(w)' => Writable(w)
      BY DEF Writable
    <3>2. \A w \in writers : w.id \in Drafts /\ (Writable(w) => w.id # d)
      BY <1>1, <2>2 DEF DraftInv, LateWrites, Writers
    <3> QED BY <2>3, <3>1, <3>2 DEF DraftInv, LateWrites
  <2>7. Kept'
    BY <2>1, <2>3 DEF DraftInv, Kept
  <2> QED BY <2>4, <2>5, <2>6, <2>7 DEF DraftInv
<1> QED BY <1>4, <1>5

\* A composer that opens: a new draft, which nobody is owed yet.
LEMMA OpenIs ==
  ASSUME DraftInv, ScreenTyped, OpenComposer PROVE DraftInv'
<1>1. /\ comp \in Composers /\ writers \subseteq Writers
      /\ ck \in [Drafts -> AnyText] /\ owed \in [Drafts -> AnyText] /\ cmd \in Commands
  BY DraftTypes DEF DraftInv
<1>2. pc = "loop" /\ writers' = writers /\ owed' = owed /\ cmd' = cmd
  BY DEF OpenComposer
<1>3. comp.id \in 0 .. MaxDrafts /\ MaxDrafts \in Nat
  BY <1>1, ConsoleAssumption DEF Composers
<1>4. CASE pc' = "closed" /\ comp' = comp /\ ck' = ck
  BY <1>2, <1>4, DraftUnchanged
<1>5. ASSUME comp.id < MaxDrafts, pc' = "compose",
             NEW how \in {"paste", "edit", "key"}, NEW target \in Documents, NEW text \in AnyText, text # NoText,
             comp' = [id |-> comp.id + 1, how |-> how, target |-> target, buf |-> text,
                      checkpointed |-> text, seq |-> 1, written |-> 1],
             ck' = [ck EXCEPT ![comp.id + 1] = text]
      PROVE DraftInv'
  <2> DEFINE d == comp.id + 1
  <2>1. d \in Drafts /\ d \in 0 .. MaxDrafts /\ d > comp.id
    BY <1>3, <1>5 DEF Drafts
  <2>2. /\ comp' \in Composers /\ comp'.id = d /\ comp'.buf = text /\ comp'.seq = 1 /\ comp'.written = 1
    BY <1>5, <2>1 DEF Composers
  <2>3. /\ owed[d] = NoText
        /\ \A w \in writers : w.id <= comp.id /\ w.id \in Drafts /\ w.id # d
    BY <1>1, <1>3, <2>1 DEF DraftInv, Kept, LateWrites, Writers, Drafts
  <2>4. /\ ck' \in [Drafts -> AnyText] /\ ck'[d] = text
        /\ \A e \in Drafts : e # d => ck'[e] = ck[e]
    BY <1>1, <1>5, <2>1
  <2> HIDE DEF d
  <2>5. DraftTyped'
    BY <1>1, <1>2, <1>5, <2>2, <2>4 DEF DraftTyped, Composers, Writers, Commands
  <2>6. OpenDraft'
    <3>1. text.n \in Nat
      BY <1>5 DEF AnyText
    <3> QED BY <1>2, <1>5, <2>1, <2>2, <2>3, <2>4, <3>1 DEF OpenDraft
  <2>7. LateWrites'
    <3>1. \A w \in writers : w.id <= comp'.id
      BY <1>3, <2>1, <2>2, <2>3 DEF Drafts
    <3>2. \A w \in writers : Writable(w)' => Writable(w)
      BY <1>2, <2>2, <2>3 DEF Writable
    <3> QED BY <1>2, <2>3, <2>4, <3>1, <3>2 DEF DraftInv, LateWrites
  <2>8. Kept'
    <3>1. \A e \in Drafts : e > comp'.id => e # d /\ e > comp.id
      BY <1>3, <2>1, <2>2 DEF Drafts
    <3>2. \A e \in Drafts : e > comp'.id => owed'[e] = NoText /\ ck'[e] = NoText
      BY <1>2, <2>4, <3>1 DEF DraftInv, Kept
    <3>3. \A e \in Drafts : owed'[e] # NoText => ck'[e] = owed'[e]
      BY <1>2, <2>3, <2>4 DEF DraftInv, Kept
    <3> QED BY <1>2, <3>2, <3>3 DEF DraftInv, Kept
  <2> QED BY <2>5, <2>6, <2>7, <2>8 DEF DraftInv
<1>6. ui.docTask \in Documents /\ ui.text \in AnyText /\ "none" \in Documents
  BY DEF ScreenTyped, Screens, Documents
<1>7. /\ Blank \in AnyText /\ Blank # NoText
      /\ [src |-> "paste", n |-> 0] \in AnyText /\ [src |-> "paste", n |-> 0] # NoText
  <2>1. Blank.src = "blank" /\ NoText.src = "none"
    BY DEF Blank, NoText
  <2> QED BY <2>1, FreshIs DEF AnyText
<1>8. (pc' = "closed" /\ comp' = comp /\ ck' = ck)
        \/ \E how \in {"paste", "edit", "key"}, target \in Documents, text \in AnyText :
             /\ comp.id < MaxDrafts /\ pc' = "compose" /\ text # NoText
             /\ comp' = [id |-> comp.id + 1, how |-> how, target |-> target, buf |-> text,
                         checkpointed |-> text, seq |-> 1, written |-> 1]
             /\ ck' = [ck EXCEPT ![comp.id + 1] = text]
  BY <1>6, <1>7 DEF OpenComposer
<1> QED BY <1>4, <1>5, <1>8

\* A composer that is left, by Ctrl-D, Esc or Ctrl-S.
LEMMA ClosingIs ==
  ASSUME DraftInv, ComposerDiscard \/ ComposerKeep \/ ComposerSave PROVE DraftInv'
<1>1. /\ comp \in Composers /\ owed \in [Drafts -> AnyText] /\ cmd \in Commands
  BY DraftTypes DEF DraftInv
<1>2. pc = "compose" /\ comp.seq \in Nat /\ comp.written \in Nat /\ comp.id \in Drafts /\ owed[comp.id] = NoText
      /\ comp.buf # NoText /\ (cmd.draft # 0 => cmd.st # "none") /\ comp.id \in 0 .. MaxDrafts
  BY <1>1 DEF DraftInv, OpenDraft, Kept, ComposerDiscard, ComposerKeep, ComposerSave, Composers
<1>0. PICK on \in BOOLEAN, off \in BOOLEAN : on = TRUE /\ off = FALSE
  OBVIOUS
<1>3. CASE ComposerDiscard
  <2>1. /\ ck' = [ck EXCEPT ![comp.id] = NoText] /\ writers' = Detached(on, comp.written)
        /\ pc' = "closed" /\ comp' = NoComposer(comp.id) /\ cmd' = cmd /\ owed' = owed
    BY <1>0, <1>3 DEF ComposerDiscard, Closed
  <2>2. owed' = [owed EXCEPT ![comp.id] = NoText]
    BY <1>1, <1>2, <2>1
  <2> QED BY <1>0, <1>1, <1>2, <2>1, <2>2, CloseIs
<1>4. CASE ComposerKeep
  <2>1. PICK failed \in 0 .. 2 :
          IF failed = 2
          THEN Leave
          ELSE /\ ck' = [ck EXCEPT ![comp.id] = comp.buf]
               /\ owed' = [owed EXCEPT ![comp.id] = comp.buf]
               /\ writers' = Detached(off, comp.seq + 1 + failed)
               /\ pc' = "closed" /\ comp' = NoComposer(comp.id) /\ cmd' = cmd
    BY <1>0, <1>4 DEF ComposerKeep, Closed
  <2>2. comp.seq + 1 + failed \in Nat /\ comp.seq + 1 + failed > comp.seq
    BY <1>2
  <2>3. CASE failed = 2
    BY <2>1, <2>3, LeaveIs
  <2> QED BY <1>0, <1>1, <1>2, <2>1, <2>2, <2>3, CloseIs
<1>5. CASE ComposerSave
  <2>1. /\ ck' = [ck EXCEPT ![comp.id] = comp.buf]
        /\ owed' = [owed EXCEPT ![comp.id] = comp.buf]
        /\ writers' = Detached(off, comp.seq + 1)
        /\ pc' = "closed" /\ comp' = NoComposer(comp.id)
        /\ cmd' = cmd \/ (cmd.st = "none" /\ cmd' = Dispatched(comp.id))
    BY <1>0, <1>5 DEF ComposerSave, Closed
  <2>2. comp.seq + 1 \in Nat /\ comp.seq + 1 > comp.seq
    BY <1>2
  <2>3. Dispatched(comp.id) \in Commands /\ Dispatched(comp.id).draft = comp.id
        /\ Dispatched(comp.id).st = "running"
    BY <1>2 DEF Dispatched, Commands
  <2> QED BY <1>0, <1>1, <1>2, <2>1, <2>2, <2>3, CloseIs
<1> QED BY <1>3, <1>4, <1>5

\* Every step keeps the drafts.
LEMMA DraftStep ==
  DraftInv /\ ScreenTyped /\ [ConsoleNext]_consoleVars => DraftInv'
<1> SUFFICES ASSUME DraftInv, ScreenTyped, [ConsoleNext]_consoleVars PROVE DraftInv'
  OBVIOUS
<1>0. /\ pc \in {"loop", "compose", "closed", "gone"} /\ cmd \in Commands
      /\ (cmd.draft # 0 => cmd.st # "none")
  BY DraftTypes DEF DraftInv, Kept
<1>1. CASE LoopRefresh
  <2>1. PICK due \in BOOLEAN : Refresh(FALSE, due, ui)
    BY <1>1 DEF LoopRefresh
  <2> QED BY <1>1, <2>1, AcknowledgedIs DEF LoopRefresh
<1>2. CASE ClosedRefresh
  BY <1>2, AcknowledgedIs DEF ClosedRefresh
<1>3. CASE RunCommand
  <2>1. cmd' \in Commands /\ cmd'.draft = cmd.draft /\ cmd'.st = "done"
    BY <1>0, <1>3 DEF RunCommand, Commands
  <2> QED BY <1>0, <1>3, <2>1, DraftStays DEF RunCommand
<1>4. CASE KeyEnter \/ KeyConfirm
  <2>1. Dispatched(0) \in Commands /\ Dispatched(0).draft = 0
    <3>1. 0 \in 0 .. MaxDrafts
      BY ConsoleAssumption
    <3> QED BY <3>1 DEF Dispatched, Commands
  <2>2. cmd' \in {cmd, Dispatched(0)}
    BY <1>4 DEF KeyEnter, KeyConfirm
  <2>3. pc' = pc /\ comp' = comp /\ writers' = writers /\ ck' = ck /\ owed' = owed
    BY <1>4 DEF KeyEnter, KeyConfirm
  <2> QED BY <1>0, <2>1, <2>2, <2>3, DraftStays
<1>5. CASE Age \/ StoreWrite \/ ReadSnapshot \/ ReadDocument \/ KeyView \/ KeySelect \/ KeyDismiss \/ KeyDocument
             \/ KeyHelp \/ KeyViewer \/ KeyCompose \/ UNCHANGED consoleVars
  <2>1. pc' = pc /\ comp' = comp /\ writers' = writers /\ ck' = ck /\ owed' = owed /\ cmd' = cmd
    BY <1>5 DEF Age, StoreWrite, ReadSnapshot, ReadDocument, KeyView, KeySelect, KeyDismiss, KeyDocument, KeyHelp,
                KeyViewer, KeyCompose, OnlyUi, consoleVars
  <2> QED BY <1>0, <2>1, DraftUnchanged
<1>6. CASE BackgroundWrite
  BY <1>6, BackgroundWriteIs
<1>7. CASE StartCheckpoint \/ ComposerEdit \/ ComposerPaste
  BY <1>7, ComposingIs
<1>8. CASE OpenComposer
  BY <1>8, OpenIs
<1>9. CASE ComposerDiscard \/ ComposerKeep \/ ComposerSave
  BY <1>9, ClosingIs
<1>10. CASE KeyExit \/ HangUp
  BY <1>10, LeaveIs DEF KeyExit, HangUp
<1> QED
  BY <1>1, <1>2, <1>3, <1>4, <1>5, <1>6, <1>7, <1>8, <1>9, <1>10 DEF ConsoleNext, Threads, Keys, Composer

-----------------------------------------------------------------------------
(* The inductive invariant, and the two properties *)

ConsoleInv == ScreenTyped /\ DocumentInv /\ DraftInv

\* A console that opens satisfies the inductive invariant.
LEMMA ConsoleStarts == ConsoleInit => ConsoleInv
<1> SUFFICES ASSUME ConsoleInit PROVE ConsoleInv
  OBVIOUS
<1>1. ScreenTyped
  <2>1. Projections \subseteq Data
    BY ConsoleAssumption DEF Data
  <2>2. ui \in Screens
    <3>1. FreshUi \in Screens /\ \E v \in Views : ui = [FreshUi EXCEPT !.view = v]
      BY FreshIs DEF ConsoleInit
    <3> QED BY <3>1 DEF Screens
  <2> QED BY <2>1, <2>2, FreshIs DEF ConsoleInit, ScreenTyped
<1>2. DocumentInv
  BY DEF ConsoleInit, DocumentInv, DocumentTyped, ResultIsWanted, FreshDoc, NoResult, NoDoc, Documents
<1>3. DraftInv
  <2>1. 0 \in 0 .. MaxDrafts /\ MaxDrafts \in Nat
    BY ConsoleAssumption
  <2>2. comp \in Composers /\ comp.id = 0 /\ cmd \in Commands /\ cmd.draft = 0
    BY <2>1, FreshIs DEF ConsoleInit, NoComposer, Composers, Documents, NoCmd, Commands
  <2>3. ck \in [Drafts -> AnyText] /\ owed \in [Drafts -> AnyText]
        /\ \A d \in Drafts : owed[d] = NoText /\ ck[d] = NoText
    BY FreshIs DEF ConsoleInit
  <2>4. pc = "loop" /\ writers = {}
    BY DEF ConsoleInit
  <2>5. DraftTyped
    BY <2>2, <2>3, <2>4, DraftTypes
  <2> QED BY <2>2, <2>3, <2>4, <2>5 DEF DraftInv, OpenDraft, LateWrites, Kept
<1> QED BY <1>1, <1>2, <1>3 DEF ConsoleInv

\* Every step keeps the inductive invariant.
LEMMA ConsoleStep == ConsoleInv /\ [ConsoleNext]_consoleVars => ConsoleInv'
BY ScreenStep, DocumentStep, DraftStep DEF ConsoleInv, DocumentInv, DraftInv

\* In every reachable state of the console (bridge_tui.py) the screen, the document read
\* and the drafts are well typed, a published document is the one last asked for, a thread
\* that may still write holds text no older than the file, and what is owed is on disk.
THEOREM ConsoleInvHolds == ConsoleSpec => []ConsoleInv
BY ConsoleStarts, ConsoleStep, PTL DEF ConsoleSpec

\* A text the operator saved, or left with the promise that it is kept, is on disk until
\* the command that carries it is acknowledged as applied (compose_document, refresh).
THEOREM DraftsOutliveFailureHolds == ConsoleSpec => []DraftsOutliveFailure
<1>1. ConsoleInv => DraftsOutliveFailure
  BY DEF ConsoleInv, DraftInv, Kept, DraftsOutliveFailure
<1> QED BY <1>1, ConsoleInvHolds, PTL

\* A step moves a recovery file on to newer text, or removes it for good.
LEMMA FilesAdvance ==
  ASSUME DraftInv, ScreenTyped, [ConsoleNext]_consoleVars, NEW d \in 1 .. comp.id
  PROVE (ck[d] = NoText => ck'[d] = NoText) /\ (ck'[d] = NoText \/ ck'[d].n >= ck[d].n)
<1>1. /\ comp \in Composers /\ writers \subseteq Writers /\ ck \in [Drafts -> AnyText] /\ cmd \in Commands
  BY DraftTypes DEF DraftInv
<1>2. d \in Drafts /\ comp.id \in 0 .. MaxDrafts /\ MaxDrafts \in Nat /\ d # comp.id + 1
  BY <1>1, ConsoleAssumption DEF Composers, Drafts
<1>3. ck[d] \in AnyText /\ ck[d].n \in Nat
  BY <1>1, <1>2 DEF AnyText
<1>4. CASE ck'[d] \in {ck[d], NoText}
  BY <1>3, <1>4
<1>5. CASE LoopRefresh \/ ClosedRefresh
  <2>1. Cleanup
    BY <1>5 DEF LoopRefresh, ClosedRefresh, Refresh
  <2>2. ck'[d] \in {ck[d], NoText}
    BY <1>1, <1>2, <2>1 DEF Cleanup
  <2> QED BY <1>4, <2>2
<1>6. CASE BackgroundWrite
  <2>1. PICK w \in writers :
          ck' = ck \/ (MayWrite(Seen(w)) /\ ck' = [ck EXCEPT ![Seen(w).id] = Seen(w).text])
    BY <1>6 DEF BackgroundWrite
  <2>2. /\ Seen(w).id = w.id /\ Seen(w).text = w.text
        /\ MayWrite(Seen(w)) <=> Writable(w)
    BY SeenIs DEF DraftInv
  <2>3. w.id \in Drafts /\ (Writable(w) => ck[w.id] # NoText /\ ck[w.id].n <= w.text.n)
        /\ w.text \in AnyText /\ w.text.n \in Nat
    BY <1>1 DEF DraftInv, LateWrites, Writers, AnyText
  <2>4. CASE ck' = ck
    BY <1>4, <2>4
  <2>5. CASE Writable(w) /\ ck' = [ck EXCEPT ![w.id] = w.text]
    BY <1>1, <1>2, <1>3, <2>3, <2>5
  <2> QED BY <2>1, <2>2, <2>4, <2>5
<1>7. CASE ComposerPaste
  <2>1. ck[comp.id] # NoText /\ ck[comp.id].n <= comp.buf.n /\ comp.buf.n \in Nat /\ comp.id \in Drafts
    BY <1>1, <1>7 DEF DraftInv, OpenDraft, ComposerPaste, Composers, AnyText
  <2>2. Edited.n = comp.buf.n + 1
    BY <1>1 DEF Edited, Composers, AnyText
  <2>3. ck' \in {ck, [ck EXCEPT ![comp.id] = Edited]}
    BY <1>7 DEF ComposerPaste
  <2> QED BY <1>1, <1>2, <1>3, <2>1, <2>2, <2>3
<1>8. CASE OpenComposer
  <2>1. PICK text : ck' \in {ck, [ck EXCEPT ![comp.id + 1] = text]}
    BY <1>8 DEF OpenComposer
  <2>2. ck'[d] = ck[d]
    BY <1>1, <1>2, <2>1
  <2> QED BY <1>4, <2>2
<1>9. CASE ComposerDiscard
  <2>1. ck'[d] \in {ck[d], NoText}
    BY <1>1, <1>2, <1>9 DEF ComposerDiscard
  <2> QED BY <1>4, <2>1
<1>10. CASE ComposerKeep \/ ComposerSave
  <2>1. ck[comp.id] # NoText /\ ck[comp.id].n <= comp.buf.n /\ comp.buf.n \in Nat /\ comp.id \in Drafts
    BY <1>1, <1>10 DEF DraftInv, OpenDraft, ComposerKeep, ComposerSave, Composers, AnyText
  <2>2. ck' \in {ck, [ck EXCEPT ![comp.id] = comp.buf]}
    BY <1>10 DEF ComposerKeep, ComposerSave, Leave
  <2> QED BY <1>1, <1>2, <1>3, <2>1, <2>2
<1>11. CASE Age \/ StoreWrite \/ RunCommand \/ ReadSnapshot \/ ReadDocument \/ KeyView \/ KeySelect \/ KeyEnter
              \/ KeyConfirm \/ KeyDismiss \/ KeyDocument \/ KeyHelp \/ KeyViewer \/ KeyCompose \/ StartCheckpoint
              \/ ComposerEdit \/ UNCHANGED consoleVars
  <2>1. ck' = ck
    BY <1>11 DEF Age, StoreWrite, RunCommand, ReadSnapshot, ReadDocument, KeyView, KeySelect, KeyEnter, KeyConfirm,
                 KeyDismiss, KeyDocument, KeyHelp, KeyViewer, KeyCompose, StartCheckpoint, ComposerEdit, OnlyUi, consoleVars
  <2> QED BY <1>4, <2>1
<1>12. CASE KeyExit \/ HangUp
  <2>1. ck' = ck
    BY <1>12 DEF KeyExit, HangUp, Leave
  <2> QED BY <1>4, <2>1
<1> QED
  BY <1>5, <1>6, <1>7, <1>8, <1>9, <1>10, <1>11, <1>12 DEF ConsoleNext, Threads, Keys, Composer

\* A new snapshot keeps the highlight on its task while that is listed.
LEMMA HighlightStays ==
  ASSUME ScreenTyped, DocumentTyped, [ConsoleNext]_consoleVars,
         snap' # snap, ui.view = "Tasks", cmd.out # "view",
         \E i \in 1 .. Len(snap'.data.list) : snap'.data.list[i] = SelectedTask(snap, ui.sel)
  PROVE SelectedTask(snap', ui'.sel) = SelectedTask(snap, ui.sel)
<1> DEFINE t == SelectedTask(snap, ui.sel)
<1>1. ui \in Screens /\ snap \in Snapshots /\ reader \in Readers /\ ui.sel \in Nat \ {0}
  BY DEF ScreenTyped, Screens
<1>2. t \in Tasks \cup {"none"}
  BY <1>1, SelectedIs
<1>3. PICK force \in BOOLEAN, due \in BOOLEAN : Refresh(force, due, ui)
  <2>1. ~Leave
    <3>1. Leave => snap'.data.list = <<>>
      BY DEF Leave, NoSnap, NoData
    <3> QED BY <3>1
  <2>2. LoopRefresh \/ ClosedRefresh
    BY <2>1 DEF ConsoleNext, Threads, Keys, Composer, consoleVars, Age, StoreWrite, RunCommand, ReadSnapshot, ReadDocument,
                BackgroundWrite, KeyView, KeySelect, KeyEnter, KeyConfirm, KeyDismiss, KeyDocument, KeyHelp, KeyViewer,
                KeyCompose, KeyExit, HangUp, OpenComposer, StartCheckpoint, ComposerEdit, ComposerPaste,
                ComposerDiscard, ComposerKeep, ComposerSave, Closed, OnlyUi
  <2> QED BY <2>2 DEF LoopRefresh, ClosedRefresh
<1>4. /\ snap' = SnapshotAfter /\ snap' \in Snapshots
      /\ ui'.sel = (IF reader.st = "done" /\ reader.ok /\ ui.view = "Tasks" /\ snap.data.list # <<>>
                    THEN ReselectTask(reader.data.list, t, ui.sel) ELSE ui.sel)
  BY <1>3, RefreshIs
<1>5. snap'.data = IF reader.st = "done" /\ reader.ok THEN reader.data ELSE snap.data
  BY <1>4, SnapshotAfterIs
<1>6. snap.data.list \in Seq(Tasks) /\ snap'.data.list \in Seq(Tasks)
  BY <1>1, <1>4 DEF Snapshots, Data
<1>7. t \in Tasks
  <2>1. PICK i \in 1 .. Len(snap'.data.list) : snap'.data.list[i] = t
    OBVIOUS
  <2> QED BY <1>6, <2>1
<1>8. snap.data.list # <<>>
  BY <1>7, ConsoleAssumption DEF SelectedTask
<1>9. CASE reader.st = "done" /\ reader.ok
  <2> DEFINE l == snap'.data.list
  <2>1. l = reader.data.list /\ ui'.sel = ReselectTask(l, t, ui.sel)
    BY <1>4, <1>5, <1>8, <1>9
  <2>2. l \in Seq(Tasks) /\ \E i \in 1 .. Len(l) : l[i] = t
    BY <1>6
  <2> HIDE DEF l, t
  <2>3. ui'.sel \in 1 .. Len(l) /\ l[ui'.sel] = t
    BY <1>1, <2>1, <2>2, ReselectIs
  <2>4. SelectedTask(snap', ui'.sel) = l[ui'.sel]
    <3>1. l # <<>> /\ Len(l) \in Nat /\ ~(ui'.sel > Len(l))
      BY <2>2, <2>3
    <3> QED BY <3>1 DEF SelectedTask, l
  <2> QED BY <2>3, <2>4 DEF t
<1>10. CASE ~(reader.st = "done" /\ reader.ok)
  <2>1. snap'.data = snap.data /\ ui'.sel = ui.sel
    BY <1>4, <1>5, <1>10
  <2> QED BY <2>1 DEF SelectedTask
<1> QED BY <1>9, <1>10

\* However late a thread ends: a recovery file only moves on to newer text and stays away
\* once removed (write_recovery), a published document is the one last asked for
\* (_document_generation), and the highlight stays on its task (refresh).
THEOREM LateThreadsAreHarmlessHolds == ConsoleSpec => LateThreadsAreHarmless
<1> DEFINE Harmless ==
      /\ \A d \in 1 .. comp.id : /\ ck[d] = NoText => ck'[d] = NoText
                                 /\ ck'[d] = NoText \/ ck'[d].n >= ck[d].n
      /\ doc'.result # NoResult =>
           doc'.pending /\ doc'.result.task = want'.task /\ doc'.edit = want'.edit
      /\ LET t == SelectedTask(snap, ui.sel)
         IN  snap' # snap /\ ui.view = "Tasks" /\ cmd.out # "view"
               /\ (\E i \in 1 .. Len(snap'.data.list) : snap'.data.list[i] = t)
             => SelectedTask(snap', ui'.sel) = t
<1>1. ConsoleInv /\ [ConsoleNext]_consoleVars => Harmless
  <2> SUFFICES ASSUME ConsoleInv, [ConsoleNext]_consoleVars PROVE Harmless
    OBVIOUS
  <2>1. ScreenTyped /\ DocumentTyped /\ DraftInv /\ DocumentInv'
    BY DocumentStep DEF ConsoleInv, DocumentInv
  <2>2. doc'.result # NoResult => doc'.pending /\ doc'.result.task = want'.task /\ doc'.edit = want'.edit
    BY <2>1 DEF DocumentInv, ResultIsWanted
  <2> QED BY <2>1, <2>2, FilesAdvance, HighlightStays
<1>2. ConsoleInv /\ [ConsoleNext]_consoleVars => [Harmless]_consoleVars
  BY <1>1
<1> QED BY <1>2, ConsoleInvHolds, PTL DEF ConsoleSpec, LateThreadsAreHarmless
=============================================================================

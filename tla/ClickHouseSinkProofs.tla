------------------------ MODULE ClickHouseSinkProofs ------------------------
(***************************************************************************)
(* The ClickHouse sink loses less than a batch with a process, repeats     *)
(* only what faults and a deleted durable make it repeat, and times rows   *)
(* by the stream's order: for every stream, every batch size and any       *)
(* number of faults.                                                       *)
(***************************************************************************)
EXTENDS ClickHouseSink, SequenceTheorems, FiniteSetTheorems, TLAPS

\* A process on its way out has given up what it fetched; one that has stopped
\* has no batch.
LeavesNothing ==
    /\ svc # "running" => queue = {}
    /\ svc = "stopped" => batch = <<>>

\* A batch that is full could not be inserted, and the message that filled it
\* was given back.
FullHasOpen ==
    Len(batch) = BatchSize => \E i \in 1..Len(batch) : batch[i].swap \notin acked

\* 1 while a message may still be delivered.
Open(m) == IF m \in acked THEN 0 ELSE 1

\* The rows of a swap, with the ones that may still come, against the faults.
\* While Run goes on, an insert that fails may double what is in the batch,
\* so that counts twice.
Paid(m) ==
    /\ table[m] + Copies(batch, m) + Open(m) <= 1 + 2 * faults + resets
    /\ table[m] + Copies(batch, m) + 2 * Open(m) <= 2 + 2 * faults + resets
    /\ svc = "running" =>
          table[m] + 2 * Copies(batch, m) + 2 * Open(m) <= 2 + 2 * faults + resets

Budget == \A m \in Swaps : Paid(m)

IsHead(h) == Stream[h].kind \in {"live", "dead"}

\* The last head of a slot among the messages of a set is a live one.
LastIsLive(msgs, s) ==
    \E h \in msgs :
        /\ Stream[h].kind = "live" /\ Stream[h].slot = s
        /\ \A k \in msgs : IsHead(k) /\ Stream[k].slot = s => k <= h

\* The stream is handled, fetched and waiting in order, and the times known
\* are those of the heads handled so far.  A process that has stopped comes
\* back with no times, to a durable that starts again.
Orderly ==
    /\ svc = "running" \/ (svc = "stopped" /\ acked = {})
    /\ acked \cup queue \cup avail = Messages
    /\ \A a \in acked, q \in queue \cup avail : a < q
    /\ \A q \in queue, v \in avail : q < v
    /\ svc = "running" => slotTimes = {s \in Slots : LastIsLive(acked, s)}

\* The next message to handle, now and after every restart, is one that cannot
\* be decoded.
Stuck ==
    \E b \in Messages \ acked :
        /\ Stream[b].kind = "bad"
        /\ \A k \in Messages \ acked : b <= k
        /\ b \in queue \/ (b \in avail /\ queue = {})

\* So it is while nothing has failed.
InOrder == faults = 0 => Orderly \/ Stuck

\* The inductive invariant.
ClickHouseInv ==
    /\ SinkInv
    /\ LossBounded
    /\ FullHasOpen
    /\ LeavesNothing
    /\ Budget
    /\ InOrder
-----------------------------------------------------------------------------
\* The rows of the batch.
RowType == [swap : Swaps, timed : BOOLEAN]

\* The constants, as the provers use them.
LEMMA StreamFacts ==
    /\ Len(Stream) \in Nat /\ MaxFaults \in Nat /\ MaxResets \in Nat
    /\ BatchSize \in Nat /\ BatchSize > 0
    /\ Messages \subseteq Nat /\ Swaps \subseteq Messages
    /\ \A m \in Messages : Stream[m].kind \in Kinds /\ Stream[m].slot \in Slots
  <1>1. Stream \in Seq([kind : Kinds, slot : Slots]) /\ Len(Stream) \in Nat
    BY SinkAssumption
  <1>2. \A m \in Messages : Stream[m].kind \in Kinds /\ Stream[m].slot \in Slots
    <2>1. \A m \in Messages : Stream[m] \in [kind : Kinds, slot : Slots]
      BY <1>1, ElementOfSeq DEF Messages
    <2>2. QED
      BY <2>1
  <1>3. Messages \subseteq Nat /\ Swaps \subseteq Messages
    BY <1>1 DEF Messages, Swaps
  <1>4. MaxFaults \in Nat /\ MaxResets \in Nat /\ BatchSize \in Nat /\ BatchSize > 0
    BY SinkAssumption
  <1>5. QED
    BY <1>1, <1>2, <1>3, <1>4

\* The copies of a swap among some rows are counted by a number, which is
\* positive for the swaps of the rows.
LEMMA CopiesFacts ==
    ASSUME NEW rows \in Seq(RowType), NEW m
    PROVE  /\ Copies(rows, m) \in Nat
           /\ Copies(rows, m) > 0 <=> m \in SwapsIn(rows)
           /\ SwapsIn(rows) \subseteq Swaps
  <1> DEFINE Places == {i \in 1..Len(rows) : rows[i].swap = m}
  <1>1. Len(rows) \in Nat
    OBVIOUS
  <1>2. IsFiniteSet(1..Len(rows))
    BY <1>1, FS_Interval
  <1>3. IsFiniteSet(Places)
    BY <1>2, FS_Subset
  <1>4. Cardinality(Places) \in Nat
    BY <1>3, FS_CardinalityType
  <1>5. Cardinality(Places) = 0 <=> Places = {}
    BY <1>3, FS_EmptySet
  <1>6. Places = {} <=> m \notin SwapsIn(rows)
    BY DEF SwapsIn
  <1>7. SwapsIn(rows) \subseteq Swaps
    <2>1. \A i \in 1..Len(rows) : rows[i] \in RowType
      BY ElementOfSeq
    <2>2. QED
      BY <2>1 DEF SwapsIn, RowType
  <1>8. Copies(rows, m) = Cardinality(Places)
    BY DEF Copies
  <1> HIDE DEF Places
  <1>9. QED
    BY <1>4, <1>5, <1>6, <1>7, <1>8

\* An empty batch has no copies.
LEMMA NoCopies ==
    ASSUME NEW m
    PROVE  Copies(<<>>, m) = 0 /\ SwapsIn(<<>>) = {}
  <1>1. 1..Len(<<>>) = {}
    OBVIOUS
  <1>2. QED
    BY <1>1, FS_EmptySet DEF Copies, SwapsIn

\* A row more is a copy more of its swap.
LEMMA CopiesAppend ==
    ASSUME NEW rows \in Seq(RowType), NEW r \in RowType, NEW m
    PROVE  /\ Copies(Append(rows, r), m) = IF m = r.swap THEN Copies(rows, m) + 1
                                           ELSE Copies(rows, m)
           /\ SwapsIn(Append(rows, r)) = SwapsIn(rows) \cup {r.swap}
  <1> DEFINE longer == Append(rows, r)
             Places == {i \in 1..Len(rows) : rows[i].swap = m}
  <1>1. /\ Len(rows) \in Nat /\ Len(longer) = Len(rows) + 1
        /\ \A i \in 1..Len(rows) : longer[i] = rows[i]
        /\ longer[Len(rows) + 1] = r
    BY AppendProperties
  <1>2. 1..Len(longer) = (1..Len(rows)) \cup {Len(rows) + 1} /\ Len(rows) + 1 \notin 1..Len(rows)
    BY <1>1
  <1>3. SwapsIn(longer) = SwapsIn(rows) \cup {r.swap}
    <2> HIDE DEF longer
    <2>1. QED
      BY <1>1, <1>2 DEF SwapsIn
  <1>4. IsFiniteSet(Places) /\ Len(rows) + 1 \notin Places
    <2>1. IsFiniteSet(1..Len(rows))
      BY <1>1, FS_Interval
    <2>2. QED
      BY <1>2, <2>1, FS_Subset
  <1>5. CASE m = r.swap
    <2>1. {i \in 1..Len(longer) : longer[i].swap = m} = Places \cup {Len(rows) + 1}
      <3> HIDE DEF longer
      <3>1. QED
        BY <1>1, <1>2, <1>5
    <2>2. Cardinality(Places \cup {Len(rows) + 1}) = Cardinality(Places) + 1
      BY <1>4, FS_AddElement
    <2>3. QED
      BY <1>3, <1>5, <2>1, <2>2 DEF Copies
  <1>6. CASE m # r.swap
    <2>1. {i \in 1..Len(longer) : longer[i].swap = m} = Places
      <3> HIDE DEF longer
      <3>1. QED
        BY <1>1, <1>2, <1>6
    <2>2. QED
      BY <1>3, <1>6, <2>1 DEF Copies
  <1>7. QED
    BY <1>5, <1>6

\* What an insert does to the table.
LEMMA InsertFacts ==
    ASSUME TypeOK, NEW rows \in Seq(RowType), Insert(rows)
    PROVE  /\ table' \in [Swaps -> Nat]
           /\ \A m \in Swaps : table'[m] = table[m] + Copies(rows, m)
  <1>1. \A m \in Swaps : table[m] \in Nat /\ Copies(rows, m) \in Nat
    BY CopiesFacts DEF TypeOK
  <1>2. QED
    BY <1>1 DEF Insert

\* An acknowledgement that arrives, or is lost.
LEMMA AckFacts ==
    ASSUME NEW m, Ack(m)
    PROVE  /\ svc' = svc /\ avail' = avail /\ queue' = queue \ {m}
           /\ UNCHANGED <<durable, resets, drops>>
           /\ \/ acked' = acked \cup {m} /\ faults' = faults
              \/ acked' = acked /\ faults < MaxFaults /\ faults' = faults + 1
  BY DEF Ack, AckArrives, AckLost, Fault, consumer
-----------------------------------------------------------------------------
\* What is lost.

\* There are no more swaps in some rows than rows.
LEMMA FewSwaps ==
    ASSUME NEW rows \in Seq(RowType)
    PROVE  IsFiniteSet(SwapsIn(rows)) /\ Cardinality(SwapsIn(rows)) <= Len(rows)
  <1> DEFINE f == [i \in 1..Len(rows) |-> rows[i].swap]
  <1>1. Len(rows) \in Nat
    OBVIOUS
  <1>2. f \in Surjection(1..Len(rows), SwapsIn(rows))
    BY DEF Surjection, SwapsIn
  <1>3. IsFiniteSet(1..Len(rows)) /\ Cardinality(1..Len(rows)) = Len(rows)
    <2>1. Cardinality(1..Len(rows)) = IF 1 > Len(rows) THEN 0 ELSE Len(rows) - 1 + 1
      BY <1>1, FS_Interval
    <2>2. IsFiniteSet(1..Len(rows))
      BY <1>1, FS_Interval
    <2>3. QED
      BY <1>1, <2>1, <2>2
  <1> HIDE DEF f
  <1>4. QED
    BY <1>2, <1>3, FS_Surjection

\* The swaps are finitely many, and so are the ones lost.
LEMMA FewLost ==
    ASSUME NEW S \in SUBSET Messages
    PROVE  IsFiniteSet(S) /\ Cardinality(S) \in Nat
  <1>1. IsFiniteSet(1..Len(Stream))
    BY StreamFacts, FS_Interval
  <1>2. IsFiniteSet(S)
    BY <1>1, FS_Subset DEF Messages
  <1>3. QED
    BY <1>2, FS_CardinalityType

\* The bound on what is lost is a number that grows with the processes dropped.
LEMMA BoundGrows ==
    ASSUME NEW n \in Nat
    PROVE  /\ (BatchSize - 1) * n \in Nat
           /\ (BatchSize - 1) * (n + 1) = (BatchSize - 1) * n + (BatchSize - 1)
  <1>1. BatchSize - 1 \in Nat
    BY StreamFacts
  <1> DEFINE B == BatchSize - 1
  <1> HIDE DEF B
  <1>2. B \in Nat => B * n \in Nat /\ B * (n + 1) = B * n + B
    OBVIOUS
  <1>3. QED
    BY <1>1, <1>2 DEF B

\* Nothing is lost that was not lost before.
LEMMA LostKept ==
    ASSUME TypeOK, LossBounded, Lost' \subseteq Lost, drops' = drops
    PROVE  LossBounded'
  <1>1. Lost \in SUBSET Messages
    BY StreamFacts DEF Lost
  <1>2. IsFiniteSet(Lost) /\ Cardinality(Lost) \in Nat
    BY <1>1, FewLost
  <1>3. Lost' \in SUBSET Messages
    BY <1>1
  <1>4. Cardinality(Lost') \in Nat /\ Cardinality(Lost') <= Cardinality(Lost)
    BY <1>2, <1>3, FewLost, FS_Subset
  <1>5. drops \in Nat /\ (BatchSize - 1) * drops \in Nat
    BY BoundGrows, StreamFacts DEF TypeOK
  <1>6. QED
    BY <1>2, <1>4, <1>5 DEF LossBounded

\* A process ends, and takes with it what its batch held: one swap of a full
\* batch was not acknowledged.
LEMMA LostAtEnd ==
    ASSUME TypeOK, BatchBounded, FullHasOpen, LossBounded,
           Lost' \subseteq Lost \cup (SwapsIn(batch) \cap acked), drops' = drops + 1
    PROVE  LossBounded'
  <1> DEFINE Taken == SwapsIn(batch) \cap acked
  <1>1. batch \in Seq(RowType) /\ Len(batch) \in Nat /\ BatchSize \in Nat
    BY StreamFacts DEF TypeOK, RowType
  <1>2. /\ IsFiniteSet(SwapsIn(batch)) /\ Cardinality(SwapsIn(batch)) <= Len(batch)
        /\ SwapsIn(batch) \subseteq Messages
    BY <1>1, FewSwaps, CopiesFacts, StreamFacts
  <1>3. Cardinality(SwapsIn(batch)) \in Nat
    BY <1>2, FS_CardinalityType
  <1>4. Taken \subseteq Messages /\ Taken \subseteq SwapsIn(batch)
    BY <1>2
  <1>5. IsFiniteSet(Taken) /\ Cardinality(Taken) \in Nat
    <2> HIDE DEF Taken
    <2>1. QED
      BY <1>4, FewLost
  <1>6. Cardinality(Taken) <= BatchSize - 1
    <2>1. CASE Len(batch) < BatchSize
      <3>1. Cardinality(Taken) <= Cardinality(SwapsIn(batch))
        BY <1>2, <1>4, FS_Subset
      <3> HIDE DEF Taken
      <3>2. QED
        BY <1>1, <1>2, <1>3, <1>5, <2>1, <3>1
    <2>2. CASE Len(batch) = BatchSize
      <3>1. PICK i \in 1..Len(batch) : batch[i].swap \notin acked
        BY <2>2 DEF FullHasOpen
      <3> DEFINE x == batch[i].swap
                 Rest == SwapsIn(batch) \ {x}
      <3>2. x \in SwapsIn(batch) /\ Taken \subseteq Rest
        BY <3>1 DEF SwapsIn
      <3>3. IsFiniteSet(Rest) /\ Cardinality(Rest) = Cardinality(SwapsIn(batch)) - 1
        BY <1>2, <3>2, FS_RemoveElement
      <3> HIDE DEF Taken, Rest, x
      <3>4. Cardinality(Taken) <= Cardinality(Rest)
        BY <3>2, <3>3, FS_Subset
      <3>5. QED
        BY <1>1, <1>2, <1>3, <1>5, <2>2, <3>3, <3>4
    <2>3. QED
      BY <1>1, <2>1, <2>2 DEF BatchBounded
  <1>7. Lost \in SUBSET Messages
    BY StreamFacts DEF Lost
  <1>8. IsFiniteSet(Lost) /\ Cardinality(Lost) \in Nat
    BY <1>7, FewLost
  <1> HIDE DEF Taken
  <1>9. IsFiniteSet(Lost \cup Taken) /\ Cardinality(Lost \cup Taken) <= Cardinality(Lost) + Cardinality(Taken)
    <2>1. /\ IsFiniteSet(Lost \cup Taken)
          /\ Cardinality(Lost \cup Taken)
                = Cardinality(Lost) + Cardinality(Taken) - Cardinality(Lost \cap Taken)
      BY <1>5, <1>8, FS_Union
    <2>2. Cardinality(Lost \cap Taken) \in Nat
      BY <1>7, FewLost
    <2>3. QED
      BY <1>5, <1>8, <2>1, <2>2
  <1>10. Lost \cup Taken \in SUBSET Messages /\ Lost' \subseteq Lost \cup Taken
    BY <1>4, <1>7 DEF Taken
  <1>11. /\ Cardinality(Lost') \in Nat /\ Cardinality(Lost \cup Taken) \in Nat
         /\ Cardinality(Lost') <= Cardinality(Lost \cup Taken)
    <2>1. Lost' \in SUBSET Messages
      BY <1>10
    <2>2. QED
      BY <1>9, <1>10, <2>1, FewLost, FS_Subset
  <1>12. /\ drops \in Nat /\ (BatchSize - 1) * drops \in Nat
         /\ (BatchSize - 1) * drops' = (BatchSize - 1) * drops + (BatchSize - 1)
    BY BoundGrows, StreamFacts DEF TypeOK
  <1>13. Cardinality(Lost) <= (BatchSize - 1) * drops
    BY DEF LossBounded
  <1>14. Cardinality(Lost') <= (BatchSize - 1) * drops'
    BY <1>1, <1>5, <1>6, <1>8, <1>9, <1>11, <1>12, <1>13
  <1>15. QED
    BY <1>14 DEF LossBounded
-----------------------------------------------------------------------------
\* The counts of one swap.

\* The counts are numbers.
LEMMA Counts ==
    ASSUME TypeOK, NEW m \in Swaps
    PROVE  /\ table[m] \in Nat /\ Copies(batch, m) \in Nat /\ faults \in Nat /\ resets \in Nat
           /\ Open(m) \in {0, 1}
  <1>1. Copies(batch, m) \in Nat
    BY CopiesFacts DEF TypeOK, RowType
  <1>2. table[m] \in Nat /\ faults \in Nat /\ resets \in Nat
    BY StreamFacts DEF TypeOK
  <1>3. QED
    BY <1>1, <1>2 DEF Open

\* No copy is made.
LEMMA PaidQuiet ==
    ASSUME TypeOK, TypeOK', NEW m \in Swaps, Paid(m),
           Open(m)' = Open(m), faults' >= faults, resets' >= resets,
           table'[m] + Copies(batch', m) <= table[m] + Copies(batch, m),
           Copies(batch', m) <= Copies(batch, m),
           svc' = "running" => svc = "running" \/ Copies(batch, m) = 0
    PROVE  Paid(m)'
  <1>1. /\ table[m] \in Nat /\ Copies(batch, m) \in Nat /\ faults \in Nat /\ resets \in Nat
        /\ Open(m) \in {0, 1}
    BY Counts
  <1>2. table'[m] \in Nat /\ faults' \in Nat /\ resets' \in Nat
    BY StreamFacts DEF TypeOK
  <1>3. batch' \in Seq(RowType)
    BY DEF TypeOK, RowType
  <1>4. Copies(batch', m) \in Nat
    BY <1>3, CopiesFacts
  <1>5. QED
    BY <1>1, <1>2, <1>4 DEF Paid

\* An insert that failed may have stored the rows, which stay in the batch;
\* added is the copy of a swap that the batch was given just before.
LEMMA PaidRepeated ==
    ASSUME TypeOK, TypeOK', NEW m \in Swaps, Paid(m), svc = "running", svc' # "running",
           NEW added \in {0, 1}, added = 1 => Open(m) = 1,
           Open(m)' = Open(m), faults' = faults + 1, resets' = resets,
           Copies(batch', m) = Copies(batch, m) + added,
           \/ table'[m] = table[m]
           \/ table'[m] = table[m] + Copies(batch', m)
    PROVE  Paid(m)'
  <1>1. /\ table[m] \in Nat /\ Copies(batch, m) \in Nat /\ faults \in Nat /\ resets \in Nat
        /\ Open(m) \in {0, 1}
    BY Counts
  <1>2. QED
    BY <1>1 DEF Paid

\* The swap's own message is handled and acknowledged, or its acknowledgement
\* is lost; stays is whether the row stays in the batch.
LEMMA PaidAdded ==
    ASSUME TypeOK, TypeOK', NEW m \in Swaps, Paid(m), svc = "running", Open(m) = 1,
           resets' = resets,
           \/ Open(m)' = 0 /\ faults' = faults
           \/ Open(m)' = 1 /\ faults' = faults + 1,
           \/ table'[m] = table[m] /\ Copies(batch', m) = Copies(batch, m) + 1
           \/ table'[m] = table[m] + Copies(batch, m) + 1 /\ Copies(batch', m) = 0
    PROVE  Paid(m)'
  <1>1. table[m] \in Nat /\ Copies(batch, m) \in Nat /\ faults \in Nat /\ resets \in Nat
    BY Counts
  <1>2. QED
    BY <1>1 DEF Paid

\* The process has ended, and a new durable delivers everything again.
LEMMA PaidReset ==
    ASSUME TypeOK, TypeOK', NEW m \in Swaps, Paid(m), svc' # "running",
           Open(m)' = 1, faults' >= faults, resets' = resets + 1,
           table'[m] + Copies(batch', m) <= table[m] + Copies(batch, m)
    PROVE  Paid(m)'
  <1>1. /\ table[m] \in Nat /\ Copies(batch, m) \in Nat /\ faults \in Nat /\ resets \in Nat
        /\ Open(m) \in {0, 1}
    BY Counts
  <1>2. table'[m] \in Nat /\ faults' \in Nat
    BY StreamFacts DEF TypeOK
  <1>3. batch' \in Seq(RowType)
    BY DEF TypeOK, RowType
  <1>4. Copies(batch', m) \in Nat
    BY <1>3, CopiesFacts
  <1>5. QED
    BY <1>1, <1>2, <1>4 DEF Paid
-----------------------------------------------------------------------------
\* The order of the stream.

\* Where Run is stuck the next message is the one that cannot be decoded.
LEMMA Ordered ==
    ASSUME TypeOK, InOrder, faults = 0, NEW m \in queue, \A k \in queue : m <= k,
           Stream[m].kind # "bad"
    PROVE  Orderly
  <1> SUFFICES ASSUME Stuck PROVE FALSE
    BY DEF InOrder
  <1>1. PICK b \in Messages \ acked :
            /\ Stream[b].kind = "bad"
            /\ \A k \in Messages \ acked : b <= k
            /\ b \in queue \/ (b \in avail /\ queue = {})
    BY DEF Stuck
  <1>2. b \in queue /\ m \in Messages \ acked
    BY <1>1 DEF TypeOK
  <1>3. m <= b /\ b <= m /\ m \in Nat /\ b \in Nat
    BY <1>1, <1>2, StreamFacts
  <1>4. QED
    BY <1>1, <1>3

\* The next message to handle follows exactly the ones acknowledged.
LEMMA NextInOrder ==
    ASSUME TypeOK, Orderly, NEW m \in queue, \A k \in queue : m <= k
    PROVE  acked = 1..(m - 1) /\ m \in Messages
  <1>1. m \in Messages /\ Len(Stream) \in Nat /\ m \in Nat
    BY StreamFacts DEF TypeOK
  <1>2. \A a \in acked : a < m /\ a \in Messages
    BY DEF Orderly, TypeOK
  <1>3. \A x \in 1..(m - 1) : x \in acked
    BY <1>1 DEF Orderly, Messages
  <1>4. \A a \in acked : a \in 1..(m - 1)
    BY <1>1, <1>2 DEF Messages
  <1>5. QED
    BY <1>1, <1>3, <1>4

\* A message is handled and acknowledged.
LEMMA AckInOrder ==
    ASSUME TypeOK, Orderly, svc = "running", NEW m \in queue, \A k \in queue : m <= k,
           queue' = queue \ {m}, acked' = acked \cup {m}, avail' = avail, svc' = svc,
           slotTimes' = {s \in Slots : LastIsLive(acked \cup {m}, s)}
    PROVE  InOrder'
  <1>1. m \in Messages /\ Messages \subseteq Nat /\ queue \subseteq Messages /\ avail \subseteq Messages
    BY StreamFacts DEF TypeOK
  <1>2. svc' = "running" /\ acked' \cup queue' \cup avail' = Messages
    BY DEF Orderly
  <1>3. \A a \in acked', q \in queue' \cup avail' : a < q
    BY <1>1 DEF Orderly
  <1>4. \A q \in queue', v \in avail' : q < v
    BY DEF Orderly
  <1>5. slotTimes' = {s \in Slots : LastIsLive(acked', s)}
    OBVIOUS
  <1>6. Orderly'
    BY <1>2, <1>3, <1>4, <1>5 DEF Orderly, LastIsLive, IsHead
  <1>7. QED
    BY <1>6 DEF InOrder

\* The row of a swap has the time its place in the stream says.
LEMMA RowInOrder ==
    ASSUME TypeOK, Orderly, svc = "running", NEW m \in queue, \A k \in queue : m <= k,
           Stream[m].kind = "swap"
    PROVE  LET heads == {h \in 1..m : /\ Stream[h].kind \in {"live", "dead"}
                                      /\ Stream[h].slot = Stream[m].slot}
           IN  Row(m).timed <=>
                   \E h \in heads : Stream[h].kind = "live" /\ \A k \in heads : k <= h
  <1> DEFINE heads == {h \in 1..m : /\ Stream[h].kind \in {"live", "dead"}
                                    /\ Stream[h].slot = Stream[m].slot}
  <1>1. acked = 1..(m - 1) /\ m \in Messages /\ m \in Nat /\ Stream[m].slot \in Slots
    BY NextInOrder, StreamFacts
  <1>2. heads = {h \in acked : IsHead(h) /\ Stream[h].slot = Stream[m].slot}
    BY <1>1 DEF IsHead
  <1>3. Row(m).timed <=> LastIsLive(acked, Stream[m].slot)
    BY <1>1 DEF Row, Orderly
  <1> HIDE DEF heads
  <1>4. (\E h \in heads : Stream[h].kind = "live" /\ \A k \in heads : k <= h)
            <=> LastIsLive(acked, Stream[m].slot)
    BY <1>2 DEF LastIsLive, IsHead
  <1>5. QED
    BY <1>3, <1>4 DEF heads

\* Heads alone decide the times.
LEMMA NotAHead ==
    ASSUME NEW msgs, NEW m, ~IsHead(m), NEW s
    PROVE  LastIsLive(msgs \cup {m}, s) <=> LastIsLive(msgs, s)
  BY DEF LastIsLive, IsHead

\* After a fault there is nothing to say about the order.
LEMMA Faulted ==
    ASSUME TypeOK, faults' = faults + 1
    PROVE  InOrder' /\ TimedByStreamOrder'
  <1>1. faults' # 0
    BY StreamFacts DEF TypeOK
  <1>2. QED
    BY <1>1 DEF InOrder, TimedByStreamOrder

\* The rows keep their times as long as the batch only shrinks to nothing.
LEMMA TimedKept ==
    ASSUME TimedByStreamOrder, faults' = faults, batch' = batch \/ batch' = <<>>
    PROVE  TimedByStreamOrder'
  <1>1. CASE batch' = batch
    BY <1>1 DEF TimedByStreamOrder
  <1>2. CASE batch' = <<>>
    <2>1. 1..Len(batch') = {}
      BY <1>2
    <2>2. QED
      BY <2>1 DEF TimedByStreamOrder
  <1>3. QED
    BY <1>1, <1>2

\* The acknowledgement of a message whose handling did not move the times.
LEMMA AckOrder ==
    ASSUME TypeOK, InOrder, svc = "running", NEW m \in queue, \A k \in queue : m <= k, Ack(m),
           ~IsHead(m), Stream[m].kind # "bad", slotTimes' = slotTimes
    PROVE  InOrder'
  <1>1. CASE faults' = faults + 1
    BY <1>1, Faulted
  <1>2. CASE faults' = faults /\ acked' = acked \cup {m}
    <2>1. CASE faults = 0
      <3>1. \A s : LastIsLive(acked \cup {m}, s) <=> LastIsLive(acked, s)
        BY NotAHead
      <3>2. Orderly
        BY <2>1, Ordered
      <3>3. slotTimes' = {s \in Slots : LastIsLive(acked \cup {m}, s)}
        BY <3>1, <3>2 DEF Orderly
      <3>4. QED
        BY <1>2, <3>2, <3>3, AckFacts, AckInOrder
    <2>2. CASE faults # 0
      BY <1>2, <2>2 DEF InOrder
    <2>3. QED
      BY <2>1, <2>2
  <1>3. QED
    BY <1>1, <1>2, AckFacts

\* The consumer's part of the state after an acknowledgement.
LEMMA AckTypes ==
    ASSUME TypeOK, NEW m \in queue, Ack(m),
           batch' \in Seq(RowType), slotTimes' \subseteq Slots, table' \in [Swaps -> Nat]
    PROVE  TypeOK'
  <1>1. faults' \in 0..MaxFaults
    BY AckFacts, StreamFacts DEF TypeOK
  <1>2. /\ svc' \in {"running", "exiting", "stopped"} /\ avail' \subseteq Messages
        /\ acked' \subseteq Messages \ avail' /\ queue' \subseteq Messages \ (avail' \cup acked')
        /\ durable' \in {"own", "found", "gone"} /\ resets' \in 0..MaxResets /\ drops' \in 0..faults'
    <2>1. acked' \subseteq acked \cup {m} /\ m \in Messages /\ m \notin avail \cup acked
      BY AckFacts DEF TypeOK
    <2>2. acked' \subseteq Messages \ avail'
      BY <2>1, AckFacts DEF TypeOK
    <2>3. queue' \subseteq Messages \ (avail' \cup acked')
      BY <2>1, AckFacts DEF TypeOK
    <2>4. drops' \in 0..faults'
      BY AckFacts, StreamFacts DEF TypeOK
    <2>5. QED
      BY <2>2, <2>3, <2>4, AckFacts DEF TypeOK
  <1>3. QED
    BY <1>1, <1>2 DEF TypeOK, RowType

\* The budget of the other swaps when a message is acknowledged or not.
LEMMA AckOthers ==
    ASSUME TypeOK, TypeOK', Budget, NEW m \in queue, Ack(m), NEW x \in Swaps, x # m,
           svc = "running",
           \/ table'[x] = table[x] /\ Copies(batch', x) = Copies(batch, x)
           \/ table'[x] = table[x] + Copies(batch, x) /\ Copies(batch', x) = 0
    PROVE  Paid(x)'
  <1>1. Open(x)' = Open(x)
    <2>1. x \in acked' <=> x \in acked
      BY AckFacts
    <2>2. QED
      BY <2>1 DEF Open
  <1>2. table[x] \in Nat /\ Copies(batch, x) \in Nat /\ faults \in Nat /\ resets \in Nat
    BY Counts
  <1>3. /\ table'[x] + Copies(batch', x) <= table[x] + Copies(batch, x)
        /\ Copies(batch', x) <= Copies(batch, x) /\ faults' >= faults /\ resets' >= resets
    BY <1>2, AckFacts
  <1>4. QED
    BY <1>1, <1>3, PaidQuiet DEF Budget
-----------------------------------------------------------------------------
\* The actions.

\* A fetch takes the first of what is ready.
LEMMA FetchStep ==
    ASSUME ClickHouseInv, Fetch
    PROVE  ClickHouseInv'
  <1>1. PICK msgs \in SUBSET avail :
            /\ msgs # {}
            /\ \A m \in msgs, k \in avail \ msgs : m < k
            /\ queue' = msgs /\ avail' = avail \ msgs
    BY DEF Fetch
  <1>2. /\ svc = "running" /\ queue = {}
        /\ UNCHANGED <<svc, acked, batch, slotTimes, table, durable, resets, faults, drops>>
    BY DEF Fetch, consumer
  <1>3. TypeOK'
    BY <1>1, <1>2 DEF ClickHouseInv, SinkInv, TypeOK
  <1>4. BatchBounded' /\ TimedByStreamOrder' /\ LossBounded' /\ FullHasOpen' /\ LeavesNothing'
    BY <1>2, TimedKept
       DEF ClickHouseInv, SinkInv, BatchBounded, LossBounded, Lost, FullHasOpen, LeavesNothing,
           SwapsIn
  <1>5. Budget'
    BY <1>2 DEF ClickHouseInv, Budget, Paid, Open, Copies
  <1>6. InOrder'
    <2>1. CASE Orderly
      <3>1. Orderly'
        BY <1>1, <1>2, <2>1 DEF Orderly, LastIsLive, IsHead
      <3>2. QED
        BY <3>1 DEF InOrder
    <2>2. CASE Stuck
      <3>1. PICK b \in Messages \ acked :
                /\ Stream[b].kind = "bad"
                /\ \A k \in Messages \ acked : b <= k
                /\ b \in avail
        BY <1>2, <2>2 DEF Stuck
      <3>2. \A k \in msgs : k \in Messages \ acked /\ k \in Nat
        BY StreamFacts DEF ClickHouseInv, SinkInv, TypeOK
      <3>3. PICK k \in msgs : TRUE
        BY <1>1
      <3>4. b \in msgs
        <4>1. b <= k /\ k \in Nat /\ b \in Nat
          BY <3>1, <3>2, StreamFacts
        <4>2. b \in avail \ msgs => k < b
          BY <1>1
        <4>3. QED
          BY <3>1, <4>1, <4>2
      <3>5. Stuck'
        BY <1>1, <1>2, <3>1, <3>4 DEF Stuck
      <3>6. QED
        BY <3>5 DEF InOrder
    <2>3. QED
      BY <1>2, <2>1, <2>2 DEF ClickHouseInv, InOrder
  <1>7. QED
    BY <1>3, <1>4, <1>5, <1>6 DEF ClickHouseInv, SinkInv

\* The row of a swap that is handled.
LEMMA RowFacts ==
    ASSUME TypeOK, NEW m \in queue, Stream[m].kind = "swap"
    PROVE  /\ m \in Swaps /\ m \notin acked /\ Open(m) = 1
           /\ Row(m) \in RowType /\ Row(m).swap = m
           /\ Append(batch, Row(m)) \in Seq(RowType)
           /\ Len(Append(batch, Row(m))) = Len(batch) + 1 /\ Len(batch) \in Nat
  <1>1. m \in Swaps /\ m \notin acked
    BY DEF TypeOK, Swaps
  <1>2. Row(m) \in RowType /\ Row(m).swap = m
    BY <1>1 DEF Row, RowType
  <1>3. batch \in Seq(RowType)
    BY DEF TypeOK, RowType
  <1>4. QED
    BY <1>1, <1>2, <1>3, AppendProperties DEF Open

\* Nothing is lost when a row is added.
LEMMA SwapNoLoss ==
    ASSUME TypeOK, NEW m \in queue, Stream[m].kind = "swap",
           acked' \subseteq acked \cup {m},
           LET rows == Append(batch, Row(m))
           IN  \/ batch' = rows /\ table' = table
               \/ Insert(rows)
    PROVE  Lost' \subseteq Lost
  <1> DEFINE rows == Append(batch, Row(m))
  <1>1. rows \in Seq(RowType) /\ SwapsIn(rows) = SwapsIn(batch) \cup {m}
    <2>1. batch \in Seq(RowType)
      BY DEF TypeOK, RowType
    <2>2. QED
      BY <2>1, RowFacts, CopiesAppend
  <1> SUFFICES ASSUME NEW x \in Lost'
               PROVE  x \in Lost
    OBVIOUS
  <1>2. x \in Swaps /\ x \in acked' /\ table'[x] = 0 /\ x \notin SwapsIn(batch')
    BY DEF Lost, SwapsIn
  <1>3. table[x] \in Nat
    BY <1>2 DEF TypeOK
  <1>4. CASE batch' = rows /\ table' = table
    BY <1>1, <1>2, <1>4 DEF Lost
  <1>5. CASE Insert(rows)
    <2>1. table'[x] = table[x] + Copies(rows, x)
      BY <1>1, <1>2, <1>5, InsertFacts
    <2>2. Copies(rows, x) \in Nat /\ (Copies(rows, x) > 0 <=> x \in SwapsIn(rows))
      BY <1>1, CopiesFacts
    <2>3. table[x] = 0 /\ x \notin SwapsIn(rows)
      BY <1>2, <1>3, <2>1, <2>2
    <2>4. QED
      BY <1>1, <1>2, <2>3 DEF Lost
  <1>6. QED
    BY <1>4, <1>5

\* WriteTrades keeps the row, and the message is acknowledged.
LEMMA KeepStep ==
    ASSUME ClickHouseInv, svc = "running", NEW m \in queue, \A k \in queue : m <= k,
           Stream[m].kind = "swap", slotTimes' = slotTimes, table' = table,
           Len(Append(batch, Row(m))) < BatchSize, batch' = Append(batch, Row(m)), Ack(m)
    PROVE  ClickHouseInv'
  <1> USE DEF ClickHouseInv, SinkInv
  <1>1. batch \in Seq(RowType) /\ batch' \in Seq(RowType) /\ ~IsHead(m) /\ m \in Swaps
    BY RowFacts DEF TypeOK, RowType, IsHead
  <1>2. TypeOK'
    <2>1. slotTimes' \subseteq Slots /\ table' \in [Swaps -> Nat]
      BY DEF TypeOK
    <2>2. QED
      BY <1>1, <2>1, AckTypes
  <1>3. BatchBounded' /\ LeavesNothing' /\ FullHasOpen'
    BY RowFacts, AckFacts, StreamFacts DEF BatchBounded, LeavesNothing, FullHasOpen
  <1>4. InOrder'
    BY <1>1, AckOrder
  <1>5. LossBounded'
    <2>1. acked' \subseteq acked \cup {m} /\ drops' = drops
      BY AckFacts
    <2>2. Lost' \subseteq Lost
      BY <2>1, SwapNoLoss
    <2>3. QED
      BY <2>1, <2>2, LostKept
  <1>6. Budget'
    <2> SUFFICES ASSUME NEW x \in Swaps PROVE Paid(x)'
      BY DEF Budget
    <2>1. Copies(batch', x) = IF x = m THEN Copies(batch, x) + 1 ELSE Copies(batch, x)
      BY <1>1, RowFacts, CopiesAppend
    <2>2. CASE x = m
      <3>1. Open(x) = 1 /\ (\/ Open(x)' = 0 /\ faults' = faults
                            \/ Open(x)' = 1 /\ faults' = faults + 1)
        BY <2>2, RowFacts, AckFacts DEF Open
      <3>2. QED
        BY <1>2, <2>1, <2>2, <3>1, AckFacts, PaidAdded DEF Budget
    <2>3. CASE x # m
      BY <1>2, <2>1, <2>3, AckOthers
    <2>4. QED
      BY <2>2, <2>3
  <1>7. TimedByStreamOrder'
    <2>1. CASE faults' = faults + 1
      BY <2>1, Faulted
    <2>2. CASE faults' = faults
      <3> SUFFICES ASSUME faults = 0, NEW i \in 1..Len(batch')
                   PROVE  LET n == batch'[i].swap
                              heads == {h \in 1..n : /\ Stream[h].kind \in {"live", "dead"}
                                                     /\ Stream[h].slot = Stream[n].slot}
                          IN  batch'[i].timed <=>
                                \E h \in heads : Stream[h].kind = "live" /\ \A k \in heads : k <= h
        BY <2>2 DEF TimedByStreamOrder
      <3>1. /\ i \in 1..Len(batch) => batch'[i] = batch[i]
            /\ i \in 1..Len(batch) \/ (i = Len(batch) + 1 /\ batch'[i] = Row(m))
        BY <1>1, RowFacts, AppendProperties
      <3>2. CASE i \in 1..Len(batch)
        BY <3>1, <3>2 DEF TimedByStreamOrder
      <3>3. CASE batch'[i] = Row(m)
        <4>1. batch'[i].swap = m
          BY <3>3, RowFacts
        <4>2. Orderly
          BY Ordered
        <4>3. QED
          BY <3>3, <4>1, <4>2, RowInOrder
      <3>4. QED
        BY <3>1, <3>2, <3>3
    <2>3. QED
      BY <2>1, <2>2, AckFacts
  <1>8. QED
    BY <1>2, <1>3, <1>4, <1>5, <1>6, <1>7

\* WriteTrades fills the batch and inserts it.
LEMMA FlushStep ==
    ASSUME ClickHouseInv, svc = "running", NEW m \in queue, \A k \in queue : m <= k,
           Stream[m].kind = "swap", slotTimes' = slotTimes,
           FlushOk(Append(batch, Row(m))), Ack(m)
    PROVE  ClickHouseInv'
  <1> USE DEF ClickHouseInv, SinkInv
  <1> DEFINE rows == Append(batch, Row(m))
  <1>1. batch \in Seq(RowType) /\ rows \in Seq(RowType) /\ ~IsHead(m) /\ m \in Swaps
    BY RowFacts DEF TypeOK, RowType, IsHead
  <1>2. batch' = <<>> /\ Insert(rows)
    BY DEF FlushOk
  <1>3. table' \in [Swaps -> Nat] /\ \A x \in Swaps : table'[x] = table[x] + Copies(rows, x)
    BY <1>1, <1>2, InsertFacts
  <1>4. TypeOK'
    <2>1. slotTimes' \subseteq Slots /\ batch' \in Seq(RowType)
      BY <1>2 DEF TypeOK
    <2>2. QED
      BY <1>3, <2>1, AckTypes
  <1>5. BatchBounded' /\ LeavesNothing' /\ FullHasOpen'
    BY <1>2, AckFacts, StreamFacts DEF BatchBounded, LeavesNothing, FullHasOpen
  <1>6. InOrder'
    BY <1>1, AckOrder
  <1>7. LossBounded'
    <2>1. acked' \subseteq acked \cup {m} /\ drops' = drops
      BY AckFacts
    <2>2. Lost' \subseteq Lost
      BY <1>2, <2>1, SwapNoLoss
    <2>3. QED
      BY <2>1, <2>2, LostKept
  <1>8. Budget'
    <2> SUFFICES ASSUME NEW x \in Swaps PROVE Paid(x)'
      BY DEF Budget
    <2>1. Copies(rows, x) = IF x = m THEN Copies(batch, x) + 1 ELSE Copies(batch, x)
      BY <1>1, RowFacts, CopiesAppend
    <2>2. Copies(batch', x) = 0 /\ table'[x] = table[x] + Copies(rows, x)
      BY <1>2, <1>3, NoCopies
    <2> HIDE DEF rows
    <2>3. CASE x = m
      <3>1. Open(x) = 1 /\ (\/ Open(x)' = 0 /\ faults' = faults
                            \/ Open(x)' = 1 /\ faults' = faults + 1)
        BY <2>3, RowFacts, AckFacts DEF Open
      <3>2. table'[x] = table[x] + Copies(batch, x) + 1
        BY <2>1, <2>2, <2>3, Counts
      <3>3. QED
        BY <1>4, <2>2, <3>1, <3>2, AckFacts, PaidAdded DEF Budget
    <2>4. CASE x # m
      BY <1>4, <2>1, <2>2, <2>4, AckOthers
    <2>5. QED
      BY <2>3, <2>4
  <1>9. TimedByStreamOrder'
    BY <1>2, Faulted, TimedKept, AckFacts
  <1>10. QED
    BY <1>4, <1>5, <1>6, <1>7, <1>8, <1>9

\* The full batch cannot be inserted: the message is given back, and Run ends.
LEMMA GiveBackStep ==
    ASSUME ClickHouseInv, svc = "running", NEW m \in queue,
           Stream[m].kind = "swap", slotTimes' = slotTimes,
           FlushFails(Append(batch, Row(m))),
           svc' = "exiting", avail' = avail \cup {m}, queue' = {},
           UNCHANGED <<acked, durable, resets, drops>>
    PROVE  ClickHouseInv'
  <1> USE DEF ClickHouseInv, SinkInv
  <1> DEFINE rows == Append(batch, Row(m))
  <1>1. batch \in Seq(RowType) /\ rows \in Seq(RowType) /\ m \in Swaps
    BY RowFacts DEF TypeOK, RowType
  <1>2. /\ batch' = rows /\ (table' = table \/ Insert(rows))
        /\ faults < MaxFaults /\ faults' = faults + 1
    BY DEF FlushFails, Fault
  <1>3. \/ table' = table
        \/ table' \in [Swaps -> Nat] /\ \A x \in Swaps : table'[x] = table[x] + Copies(rows, x)
    BY <1>1, <1>2, InsertFacts
  <1>4. TypeOK'
    <2>1. table' \in [Swaps -> Nat] /\ faults' \in 0..MaxFaults /\ batch' \in Seq(RowType)
      BY <1>1, <1>2, <1>3, StreamFacts DEF TypeOK
    <2>2. avail' \subseteq Messages /\ acked' \subseteq Messages \ avail' /\ queue' = {}
      BY DEF TypeOK
    <2>3. drops' \in 0..faults'
      BY <1>2, StreamFacts DEF TypeOK
    <2>4. QED
      BY <2>1, <2>2, <2>3 DEF TypeOK, RowType
  <1>5. BatchBounded' /\ LeavesNothing'
    BY <1>2, RowFacts, StreamFacts DEF BatchBounded, LeavesNothing
  <1>6. InOrder' /\ TimedByStreamOrder'
    BY <1>2, Faulted
  <1>7. LossBounded' /\ FullHasOpen'
    <2>1. Lost' \subseteq Lost
      BY <1>2, SwapNoLoss
    <2>2. LossBounded'
      BY <2>1, LostKept
    <2>3. batch'[Len(batch) + 1] = Row(m) /\ Len(batch') = Len(batch) + 1 /\ Len(batch) \in Nat
      BY <1>1, <1>2, RowFacts, AppendProperties
    <2>4. batch'[Len(batch) + 1].swap \notin acked' /\ Len(batch) + 1 \in 1..Len(batch')
      BY <2>3, RowFacts
    <2>5. QED
      BY <2>2, <2>4 DEF FullHasOpen
  <1>8. Budget'
    <2> SUFFICES ASSUME NEW x \in Swaps PROVE Paid(x)'
      BY DEF Budget
    <2> DEFINE added == IF x = m THEN 1 ELSE 0
    <2>1. Copies(batch', x) = Copies(batch, x) + added /\ added \in {0, 1}
      BY <1>1, <1>2, RowFacts, CopiesAppend, Counts
    <2>2. table'[x] = table[x] \/ table'[x] = table[x] + Copies(batch', x)
      BY <1>2, <1>3
    <2>3. Open(x)' = Open(x) /\ (added = 1 => Open(x) = 1)
      BY RowFacts DEF Open
    <2> HIDE DEF added
    <2>4. QED
      BY <1>2, <1>4, <2>1, <2>2, <2>3, PaidRepeated DEF Budget
  <1>9. QED
    BY <1>4, <1>5, <1>6, <1>7, <1>8

\* A message that is no swap leaves the batch and the table alone.
LEMMA NoSwapStep ==
    ASSUME ClickHouseInv, svc = "running", NEW m \in queue, Stream[m].kind # "swap", Ack(m),
           batch' = batch, table' = table, slotTimes' \subseteq Slots, InOrder'
    PROVE  ClickHouseInv'
  <1> USE DEF ClickHouseInv, SinkInv
  <1>1. TypeOK'
    <2>1. batch' \in Seq(RowType) /\ table' \in [Swaps -> Nat]
      BY DEF TypeOK, RowType
    <2>2. QED
      BY <2>1, AckTypes
  <1>2. BatchBounded' /\ LeavesNothing' /\ TimedByStreamOrder' /\ FullHasOpen'
    BY AckFacts, Faulted, TimedKept, StreamFacts DEF BatchBounded, LeavesNothing, FullHasOpen
  <1>3. m \notin Swaps
    BY DEF Swaps
  <1>4. LossBounded'
    <2>1. Lost' \subseteq Lost /\ drops' = drops
      BY <1>3, AckFacts DEF Lost, SwapsIn
    <2>2. QED
      BY <2>1, LostKept
  <1>5. Budget'
    BY <1>1, <1>3, AckOthers DEF Budget
  <1>6. QED
    BY <1>1, <1>2, <1>4, <1>5

\* A head moves the time of its slot, to where the stream's order says.
LEMMA HeadStep ==
    ASSUME ClickHouseInv, svc = "running", NEW m \in queue, \A k \in queue : m <= k,
           Stream[m].kind \in {"live", "dead"}, HandleHead(m)
    PROVE  ClickHouseInv'
  <1> USE DEF ClickHouseInv, SinkInv
  <1>1. /\ slotTimes' = IF Stream[m].kind = "dead" THEN slotTimes \ {Stream[m].slot}
                        ELSE slotTimes \cup {Stream[m].slot}
        /\ Ack(m) /\ batch' = batch /\ table' = table
    BY DEF HandleHead
  <1>2. m \in Messages /\ Stream[m].slot \in Slots
    BY StreamFacts DEF TypeOK
  <1>3. slotTimes' \subseteq Slots
    BY <1>1, <1>2 DEF TypeOK
  <1>4. InOrder'
    <2>1. CASE faults' = faults + 1
      BY <2>1, Faulted
    <2>2. CASE faults' = faults /\ faults # 0
      BY <2>2 DEF InOrder
    <2>3. CASE faults' = faults /\ faults = 0
      <3>1. /\ acked' = acked \cup {m} /\ queue' = queue \ {m} /\ avail' = avail /\ svc' = svc
            /\ Orderly
        BY <1>1, <2>3, AckFacts, Ordered
      <3>2. \A a \in acked : a < m /\ a \in Nat
        BY <3>1, StreamFacts DEF Orderly, TypeOK
      <3>3. \A s \in Slots : s # Stream[m].slot =>
                (LastIsLive(acked \cup {m}, s) <=> LastIsLive(acked, s))
        BY DEF LastIsLive, IsHead
      <3>4. m \in Nat
        BY <1>2, StreamFacts
      <3>5. Stream[m].kind = "live" => LastIsLive(acked \cup {m}, Stream[m].slot)
        BY <3>2, <3>4 DEF LastIsLive, IsHead
      <3>6. Stream[m].kind = "dead" => ~LastIsLive(acked \cup {m}, Stream[m].slot)
        BY <3>2, <3>4 DEF LastIsLive, IsHead
      <3>7. slotTimes = {s \in Slots : LastIsLive(acked, s)}
        BY <3>1 DEF Orderly
      <3>8. slotTimes' = {s \in Slots : LastIsLive(acked \cup {m}, s)}
        BY <1>1, <1>2, <3>3, <3>5, <3>6, <3>7
      <3>9. QED
        BY <2>3, <3>1, <3>8, AckInOrder
    <2>4. QED
      BY <1>1, <2>1, <2>2, <2>3, AckFacts
  <1>5. QED
    BY <1>1, <1>3, <1>4, NoSwapStep

\* A message that cannot be decoded is given back, and Run ends: while nothing
\* failed it was the next one of the stream, and it is so again.
LEMMA BadStep ==
    ASSUME ClickHouseInv, svc = "running", NEW m \in queue, \A k \in queue : m <= k,
           Stream[m].kind = "bad", HandleBad(m)
    PROVE  ClickHouseInv'
  <1> USE DEF ClickHouseInv, SinkInv
  <1>1. /\ svc' = "exiting" /\ avail' = avail \cup {m} /\ queue' = {}
        /\ UNCHANGED <<acked, batch, slotTimes, table, durable, resets, faults, drops>>
    BY DEF HandleBad, consumer
  <1>2. TypeOK' /\ m \in Messages /\ m \notin acked
    BY <1>1 DEF TypeOK
  <1>3. BatchBounded' /\ LeavesNothing' /\ FullHasOpen' /\ TimedByStreamOrder'
    BY <1>1, StreamFacts, TimedKept DEF BatchBounded, LeavesNothing, FullHasOpen
  <1>4. LossBounded'
    BY <1>1 DEF LossBounded, Lost, SwapsIn
  <1>5. Budget'
    BY <1>1 DEF Budget, Paid, Open, Copies
  <1>6. InOrder'
    <2> SUFFICES ASSUME faults = 0 PROVE Stuck'
      BY <1>1 DEF InOrder
    <2>1. \A k \in Messages \ acked : m <= k
      <3>1. CASE Orderly
        <4>1. acked = 1..(m - 1) /\ m \in Nat
          BY <3>1, NextInOrder, StreamFacts
        <4>2. QED
          BY <4>1, StreamFacts DEF Messages
      <3>2. CASE Stuck
        <4>1. PICK b \in Messages \ acked :
                  (\A k \in Messages \ acked : b <= k) /\ b \in queue
          BY <3>2 DEF Stuck
        <4>2. m <= b /\ b <= m /\ m \in Nat /\ b \in Nat
          BY <1>2, <4>1, StreamFacts
        <4>3. m = b
          BY <4>2
        <4>4. QED
          BY <4>1, <4>3
      <3>3. QED
        BY <3>1, <3>2 DEF InOrder
    <2>2. QED
      BY <1>1, <1>2, <2>1 DEF Stuck
  <1>7. QED
    BY <1>2, <1>3, <1>4, <1>5, <1>6

\* handleMessage takes one of the cases above.
LEMMA HandleStep ==
    ASSUME ClickHouseInv, NEW m \in queue, Handle(m)
    PROVE  ClickHouseInv'
  <1>1. svc = "running" /\ \A k \in queue : m <= k
    BY DEF Handle
  <1>2. CASE Stream[m].kind = "swap" /\ HandleSwap(m)
    <2> DEFINE rows == Append(batch, Row(m))
    <2>1. slotTimes' = slotTimes
      BY <1>2 DEF HandleSwap
    <2>2. CASE Len(rows) < BatchSize /\ batch' = rows /\ table' = table /\ Ack(m)
      BY <1>1, <1>2, <2>1, <2>2, KeepStep
    <2>3. CASE FlushOk(rows) /\ Ack(m)
      BY <1>1, <1>2, <2>1, <2>3, FlushStep
    <2>4. CASE /\ FlushFails(rows) /\ svc' = "exiting" /\ avail' = avail \cup {m}
               /\ queue' = {} /\ UNCHANGED <<acked, durable, resets, drops>>
      BY <1>1, <1>2, <2>1, <2>4, GiveBackStep
    <2>5. QED
      BY <1>2, <2>2, <2>3, <2>4 DEF HandleSwap, consumer
  <1>3. CASE Stream[m].kind \in {"live", "dead"} /\ HandleHead(m)
    BY <1>1, <1>3, HeadStep
  <1>4. CASE Stream[m].kind = "other" /\ HandleOther(m)
    <2>1. ~IsHead(m) /\ Ack(m) /\ batch' = batch /\ table' = table /\ slotTimes' = slotTimes
      BY <1>4 DEF IsHead, HandleOther
    <2>2. slotTimes' \subseteq Slots /\ InOrder'
      BY <1>1, <1>4, <2>1, AckOrder DEF ClickHouseInv, SinkInv, TypeOK
    <2>3. QED
      BY <1>1, <1>4, <2>1, <2>2, NoSwapStep
  <1>5. CASE Stream[m].kind = "bad" /\ HandleBad(m)
    BY <1>1, <1>5, BadStep
  <1>6. QED
    BY <1>2, <1>3, <1>4, <1>5 DEF Handle

\* The batch is emptied: its rows were inserted, or the process takes them
\* with it.
LEMMA Emptied ==
    ASSUME ClickHouseInv, batch' = <<>>, acked' = acked \/ acked' = {},
           TypeOK', table' = table \/ Insert(batch),
           \/ Insert(batch) /\ drops' = drops
           \/ batch = <<>> /\ drops' = drops
           \/ drops' = drops + 1
    PROVE  LossBounded'
  <1> USE DEF ClickHouseInv, SinkInv
  <1>1. batch \in Seq(RowType)
    BY DEF TypeOK, RowType
  <1>2. \A x \in Swaps :
            /\ table[x] \in Nat /\ Copies(batch, x) \in Nat
            /\ Copies(batch, x) > 0 <=> x \in SwapsIn(batch)
            /\ Insert(batch) => table'[x] = table[x] + Copies(batch, x)
    BY <1>1, Counts, CopiesFacts, InsertFacts
  <1>3. \A x \in Lost' : x \in Swaps /\ x \in acked /\ table[x] = 0
                          /\ (Insert(batch) => x \notin SwapsIn(batch))
    <2> SUFFICES ASSUME NEW x \in Lost'
                 PROVE  /\ x \in Swaps /\ x \in acked /\ table[x] = 0
                        /\ Insert(batch) => x \notin SwapsIn(batch)
      OBVIOUS
    <2>1. x \in Swaps /\ x \in acked' /\ table'[x] = 0
      BY DEF Lost
    <2>2. QED
      BY <1>2, <2>1
  <1>4. Lost' \subseteq Lost \cup (SwapsIn(batch) \cap acked)
    BY <1>3 DEF Lost
  <1>5. CASE Insert(batch) /\ drops' = drops
    <2>1. Lost' \subseteq Lost
      BY <1>3, <1>5 DEF Lost
    <2>2. QED
      BY <1>5, <2>1, LostKept
  <1>6. CASE batch = <<>> /\ drops' = drops
    <2>1. SwapsIn(batch) = {}
      BY <1>6, NoCopies
    <2>2. Lost' \subseteq Lost
      BY <1>4, <2>1
    <2>3. QED
      BY <1>6, <2>2, LostKept
  <1>7. CASE drops' = drops + 1
    BY <1>4, <1>7, LostAtEnd
  <1>8. QED
    BY <1>5, <1>6, <1>7

\* It adds no rows, and the durable may be a new one.
LEMMA EmptiedPaid ==
    ASSUME ClickHouseInv, batch' = <<>>, TypeOK', faults' >= faults,
           table' = table \/ Insert(batch),
           svc' # "running" \/ svc = "running",
           \/ acked' = acked /\ resets' = resets
           \/ acked' = {} /\ resets' = resets + 1 /\ svc' # "running"
    PROVE  Budget'
  <1> USE DEF ClickHouseInv, SinkInv
  <1>1. batch \in Seq(RowType)
    BY DEF TypeOK, RowType
  <1> SUFFICES ASSUME NEW x \in Swaps PROVE Paid(x)'
    BY DEF Budget
  <1>2. /\ Copies(batch', x) = 0 /\ table[x] \in Nat /\ Copies(batch, x) \in Nat
        /\ resets \in Nat
        /\ Insert(batch) => table'[x] = table[x] + Copies(batch, x)
    BY <1>1, NoCopies, Counts, InsertFacts
  <1>3. /\ table'[x] + Copies(batch', x) <= table[x] + Copies(batch, x)
        /\ Copies(batch', x) <= Copies(batch, x)
    BY <1>2
  <1>4. Paid(x)
    BY DEF Budget
  <1>5. CASE acked' = acked /\ resets' = resets
    <2>1. Open(x)' = Open(x) /\ resets' >= resets
      BY <1>2, <1>5 DEF Open
    <2>2. QED
      BY <1>3, <1>4, <2>1, PaidQuiet
  <1>6. CASE acked' = {} /\ resets' = resets + 1 /\ svc' # "running"
    <2>1. Open(x)' = 1
      BY <1>6 DEF Open
    <2>2. QED
      BY <1>3, <1>4, <1>6, <2>1, PaidReset
  <1>7. QED
    BY <1>5, <1>6

\* The type of the state after a flush of the batch as it is.
LEMMA FlushTypes ==
    ASSUME TypeOK, batch' = batch \/ batch' = <<>>, table' = table \/ Insert(batch),
           svc' \in {"running", "exiting", "stopped"},
           \/ faults' = faults /\ drops' = drops
           \/ faults < MaxFaults /\ faults' = faults + 1 /\ drops' \in {drops, drops + 1},
           \/ acked' = acked /\ avail' = avail /\ resets' = resets
           \/ acked' = {} /\ avail' = Messages /\ queue' = {} /\ resets < MaxResets /\ resets' = resets + 1,
           durable' \in {"own", "found", "gone"},
           queue' = queue \/ queue' = {},
           slotTimes' \subseteq Slots
    PROVE  TypeOK' /\ faults' \in Nat /\ faults' >= faults
  <1>1. batch \in Seq(RowType) /\ batch' \in Seq(RowType)
    <2>1. batch \in Seq(RowType) /\ <<>> \in Seq(RowType)
      BY DEF TypeOK, RowType
    <2>2. QED
      BY <2>1
  <1>2. table' \in [Swaps -> Nat]
    BY <1>1, InsertFacts DEF TypeOK
  <1>3. faults' \in 0..MaxFaults /\ faults' \in Nat /\ faults' >= faults
    BY StreamFacts DEF TypeOK
  <1>4. drops' \in 0..faults'
    BY StreamFacts DEF TypeOK
  <1>5. resets' \in 0..MaxResets
    BY StreamFacts DEF TypeOK
  <1>6. /\ avail' \subseteq Messages /\ acked' \subseteq Messages \ avail'
        /\ queue' \subseteq Messages \ (avail' \cup acked')
    BY DEF TypeOK
  <1>7. QED
    BY <1>1, <1>2, <1>3, <1>4, <1>5, <1>6 DEF TypeOK, RowType

\* The flush ticker inserts the batch, or the insert fails and Run ends.
LEMMA TickStep ==
    ASSUME ClickHouseInv, Tick
    PROVE  ClickHouseInv'
  <1> USE DEF ClickHouseInv, SinkInv
  <1>1. svc = "running" /\ queue = {} /\ UNCHANGED <<avail, acked, queue, slotTimes, durable, resets, drops>>
    BY DEF Tick, consumer
  <1>2. /\ slotTimes' \subseteq Slots /\ Len(batch) \in Nat
        /\ durable' \in {"own", "found", "gone"}
    BY <1>1 DEF TypeOK
  <1>3. CASE FlushOk(batch) /\ UNCHANGED <<svc, faults>>
    <2>1. batch' = <<>> /\ Insert(batch) /\ svc' = svc /\ faults' = faults
      BY <1>3 DEF FlushOk
    <2>2. TypeOK' /\ faults' \in Nat /\ faults' >= faults
      BY <1>1, <1>2, <2>1, FlushTypes
    <2>3. LossBounded' /\ Budget'
      BY <1>1, <2>1, <2>2, Emptied, EmptiedPaid
    <2>4. BatchBounded' /\ LeavesNothing' /\ FullHasOpen'
      BY <1>1, <2>1, StreamFacts DEF BatchBounded, LeavesNothing, FullHasOpen
    <2>5. InOrder'
      <3>1. (Orderly => Orderly') /\ (Stuck => Stuck')
        BY <1>1, <2>1 DEF Orderly, Stuck, LastIsLive, IsHead
      <3>2. QED
        BY <2>1, <3>1 DEF InOrder
    <2>6. QED
      BY <2>1, <2>2, <2>3, <2>4, <2>5, TimedKept
  <1>4. CASE FlushFails(batch) /\ svc' = "exiting"
    <2>1. /\ batch' = batch /\ (table' = table \/ Insert(batch)) /\ svc' = "exiting"
          /\ faults < MaxFaults /\ faults' = faults + 1
      BY <1>4 DEF FlushFails, Fault
    <2>2. TypeOK'
      BY <1>1, <1>2, <2>1, FlushTypes
    <2>3. \A x \in Swaps :
              /\ table[x] \in Nat /\ Copies(batch, x) \in Nat
              /\ table'[x] = table[x] \/ table'[x] = table[x] + Copies(batch, x)
      <3>1. batch \in Seq(RowType)
        BY DEF TypeOK, RowType
      <3>2. QED
        BY <2>1, <3>1, Counts, InsertFacts
    <2>4. LossBounded'
      <3>1. Lost' \subseteq Lost
        <4> SUFFICES ASSUME NEW x \in Lost' PROVE x \in Lost
          OBVIOUS
        <4>1. x \in Swaps /\ x \in acked /\ table'[x] = 0 /\ x \notin SwapsIn(batch)
          BY <1>1, <2>1 DEF Lost, SwapsIn
        <4>2. QED
          BY <2>3, <4>1 DEF Lost
      <3>2. QED
        BY <1>1, <3>1, LostKept
    <2>5. Budget'
      <3> SUFFICES ASSUME NEW x \in Swaps PROVE Paid(x)'
        BY DEF Budget
      <3>1. Open(x)' = Open(x)
        BY <1>1 DEF Open
      <3>2. Copies(batch', x) = Copies(batch, x) + 0
        BY <2>1, <2>3
      <3>3. table'[x] = table[x] \/ table'[x] = table[x] + Copies(batch', x)
        BY <2>1, <2>3
      <3>4. QED
        <4>1. Paid(x) /\ svc' # "running" /\ 0 \in {0, 1} /\ 0 # 1
          BY <2>1 DEF Budget
        <4>2. QED
          BY <1>1, <2>1, <2>2, <3>1, <3>2, <3>3, <4>1, PaidRepeated
    <2>6. BatchBounded' /\ LeavesNothing' /\ FullHasOpen'
      BY <1>1, <1>2, <2>1, StreamFacts DEF BatchBounded, LeavesNothing, FullHasOpen
    <2>7. QED
      BY <2>1, <2>2, <2>4, <2>5, <2>6, Faulted
  <1>5. QED
    BY <1>3, <1>4 DEF Tick

\* Run is cancelled.
LEMMA LeaveStep ==
    ASSUME ClickHouseInv, Leave
    PROVE  ClickHouseInv'
  <1> USE DEF ClickHouseInv, SinkInv
  <1>1. /\ svc = "running" /\ svc' = "exiting" /\ queue = {}
        /\ faults < MaxFaults /\ faults' = faults + 1
        /\ UNCHANGED <<avail, acked, queue, batch, slotTimes, table, durable, resets, drops>>
    BY DEF Leave, Fault, consumer
  <1>2. TypeOK' /\ faults' \in Nat /\ faults' >= faults
    BY <1>1, FlushTypes DEF TypeOK
  <1>3. BatchBounded' /\ LeavesNothing' /\ FullHasOpen' /\ LossBounded'
    BY <1>1 DEF BatchBounded, LeavesNothing, FullHasOpen, LossBounded, Lost, SwapsIn
  <1>4. Budget'
    <2> SUFFICES ASSUME NEW x \in Swaps PROVE Paid(x)'
      BY DEF Budget
    <2>1. Open(x)' = Open(x)
      BY <1>1 DEF Open
    <2>2. /\ table'[x] + Copies(batch', x) <= table[x] + Copies(batch, x)
          /\ Copies(batch', x) <= Copies(batch, x) /\ resets' >= resets
      BY <1>1, Counts
    <2>3. QED
      BY <1>1, <1>2, <2>1, <2>2, PaidQuiet DEF Budget
  <1>5. QED
    BY <1>1, <1>2, <1>3, <1>4, Faulted

\* The deferred calls, and a crash: the batch is gone either way, and the
\* durable perhaps with it.
LEMMA ExitStep ==
    ASSUME ClickHouseInv, Exit \/ Crash
    PROVE  ClickHouseInv'
  <1> USE DEF ClickHouseInv, SinkInv
  <1>1. /\ batch' = <<>> /\ svc' = "stopped" /\ svc # "stopped"
        /\ slotTimes' = slotTimes /\ queue' = {}
    BY DEF Exit, Crash, FlushOk, LeavesNothing
  <1>2. /\ table' = table \/ Insert(batch)
        /\ \/ Insert(batch) /\ drops' = drops /\ faults' = faults /\ svc = "exiting"
           \/ batch = <<>> /\ drops' = drops /\ faults < MaxFaults /\ faults' = faults + 1
           \/ drops' = drops + 1 /\ faults < MaxFaults /\ faults' = faults + 1
    BY DEF Exit, Crash, FlushOk, Fault
  <1>3. /\ durable' \in {"own", "found", "gone"}
        /\ \/ acked' = acked /\ avail' = avail /\ resets' = resets
           \/ acked' = {} /\ avail' = Messages /\ resets < MaxResets /\ resets' = resets + 1
    BY DEF Exit, Crash, Drain, consumer, TypeOK
  <1>4. TypeOK' /\ faults' \in Nat /\ faults' >= faults
    <2>1. slotTimes' \subseteq Slots
      BY <1>1 DEF TypeOK
    <2>2. QED
      BY <1>1, <1>2, <1>3, <2>1, FlushTypes
  <1>5. LossBounded' /\ Budget'
    BY <1>1, <1>2, <1>3, <1>4, Emptied, EmptiedPaid
  <1>6. BatchBounded' /\ LeavesNothing' /\ FullHasOpen'
    BY <1>1, StreamFacts DEF BatchBounded, LeavesNothing, FullHasOpen
  <1>7. InOrder' /\ TimedByStreamOrder'
    <2>1. CASE faults' = faults + 1
      BY <2>1, Faulted
    <2>2. CASE faults' = faults /\ svc = "exiting"
      <3>1. TimedByStreamOrder'
        BY <1>1, <2>2, TimedKept
      <3>2. CASE acked' = acked /\ avail' = avail
        <4>1. faults = 0 => Stuck
          BY <2>2 DEF InOrder, Orderly
        <4>2. Stuck => Stuck'
          BY <1>1, <2>2, <3>2 DEF Stuck, LeavesNothing
        <4>3. QED
          BY <2>2, <3>1, <4>1, <4>2 DEF InOrder
      <3>3. CASE acked' = {} /\ avail' = Messages
        BY <1>1, <3>1, <3>3 DEF InOrder, Orderly
      <3>4. QED
        BY <1>3, <3>2, <3>3
    <2>3. QED
      BY <1>2, <2>1, <2>2
  <1>8. QED
    BY <1>4, <1>5, <1>6, <1>7

\* A process that starts again has nothing.
LEMMA RestartStep ==
    ASSUME ClickHouseInv, Restart
    PROVE  ClickHouseInv'
  <1> USE DEF ClickHouseInv, SinkInv
  <1>1. /\ svc = "stopped" /\ svc' = "running" /\ batch = <<>> /\ slotTimes' = {} /\ queue = {}
        /\ UNCHANGED <<avail, acked, queue, batch, table, resets, faults, drops>>
        /\ durable' \in {"own", "found", "gone"}
    BY DEF Restart, LeavesNothing
  <1>2. TypeOK' /\ faults' \in Nat /\ faults' >= faults
    BY <1>1, FlushTypes
  <1>3. BatchBounded' /\ LeavesNothing' /\ LossBounded' /\ FullHasOpen'
    BY <1>1, StreamFacts DEF BatchBounded, LeavesNothing, LossBounded, Lost, SwapsIn, FullHasOpen
  <1>4. Budget'
    <2> SUFFICES ASSUME NEW x \in Swaps PROVE Paid(x)'
      BY DEF Budget
    <2>1. Open(x)' = Open(x)
      BY <1>1 DEF Open
    <2>2. Copies(batch, x) = 0 /\ Copies(batch', x) = 0 /\ table[x] \in Nat /\ resets \in Nat
      BY <1>1, NoCopies, Counts
    <2>3. /\ table'[x] + Copies(batch', x) <= table[x] + Copies(batch, x)
          /\ Copies(batch', x) <= Copies(batch, x) /\ resets' >= resets
      BY <1>1, <2>2
    <2>4. QED
      BY <1>1, <1>2, <2>1, <2>2, <2>3, PaidQuiet DEF Budget
  <1>5. InOrder'
    <2>1. Stuck => Stuck'
      BY <1>1 DEF Stuck
    <2>2. Orderly => Orderly'
      BY <1>1 DEF Orderly, LastIsLive
    <2>3. QED
      BY <1>1, <2>1, <2>2 DEF InOrder
  <1>6. QED
    BY <1>1, <1>2, <1>3, <1>4, <1>5, TimedKept

\* While the stream is in order every message is accounted for, and none is
\* delivered again.
LEMMA RedeliverStep ==
    ASSUME ClickHouseInv, NEW m \in Messages, Redeliver(m)
    PROVE  ClickHouseInv'
  <1> USE DEF ClickHouseInv, SinkInv
  <1>1. /\ m \notin avail \cup acked \cup queue /\ avail' = avail \cup {m}
        /\ UNCHANGED <<svc, acked, queue, batch, slotTimes, table, durable, resets, faults, drops>>
    BY DEF Redeliver, consumer
  <1>2. TypeOK'
    BY <1>1 DEF TypeOK
  <1>3. BatchBounded' /\ LeavesNothing' /\ LossBounded' /\ FullHasOpen'
    BY <1>1 DEF BatchBounded, LeavesNothing, LossBounded, Lost, SwapsIn, FullHasOpen
  <1>4. Budget'
    BY <1>1 DEF Budget, Paid, Open, Copies
  <1>5. InOrder'
    <2>1. ~Orderly
      BY <1>1 DEF Orderly
    <2>2. Stuck => Stuck'
      BY <1>1 DEF Stuck
    <2>3. QED
      BY <1>1, <2>1, <2>2 DEF InOrder
  <1>6. QED
    BY <1>1, <1>2, <1>3, <1>4, <1>5, TimedKept
-----------------------------------------------------------------------------
\* The invariant holds in every state of the sink.
THEOREM ClickHouseCorrect == Spec => []ClickHouseInv
  <1>1. Init => ClickHouseInv
    <2> SUFFICES ASSUME Init PROVE ClickHouseInv
      OBVIOUS
    <2>1. TypeOK
      BY StreamFacts DEF Init, TypeOK
    <2>2. BatchBounded /\ TimedByStreamOrder /\ FullHasOpen /\ LeavesNothing
      BY StreamFacts DEF Init, BatchBounded, TimedByStreamOrder, FullHasOpen, LeavesNothing
    <2>6. LossBounded
      <3>1. Lost = {} /\ drops = 0
        BY DEF Init, Lost
      <3>2. Cardinality({}) = 0
        BY FS_EmptySet
      <3>3. (BatchSize - 1) * 0 = 0
        BY StreamFacts
      <3>4. QED
        BY <3>1, <3>2, <3>3 DEF LossBounded
    <2>3. Budget
      <3>1. \A m \in Swaps : Copies(batch, m) = 0 /\ table[m] = 0 /\ Open(m) = 1 /\ faults = 0 /\ resets = 0
        BY NoCopies DEF Init, Open
      <3>2. QED
        BY <3>1 DEF Budget, Paid
    <2>4. InOrder
      BY DEF Init, InOrder, Orderly, LastIsLive
    <2>5. QED
      BY <2>1, <2>2, <2>3, <2>4, <2>6 DEF ClickHouseInv, SinkInv
  <1>2. ClickHouseInv /\ [Next]_vars => ClickHouseInv'
    <2> SUFFICES ASSUME ClickHouseInv, [Next]_vars PROVE ClickHouseInv'
      OBVIOUS
    <2>1. CASE UNCHANGED vars
      BY <2>1 DEF vars, consumer, ClickHouseInv, SinkInv, TypeOK, BatchBounded,
                  TimedByStreamOrder, LossBounded, Lost, FullHasOpen, SwapsIn, LeavesNothing,
                  Budget, Paid, Open, Copies, InOrder, Orderly, Stuck, LastIsLive, IsHead
    <2>2. CASE Next
      BY <2>2, FetchStep, HandleStep, TickStep, LeaveStep, ExitStep, RestartStep, RedeliverStep
         DEF Next
    <2>3. QED
      BY <2>1, <2>2
  <1>3. QED
    BY <1>1, <1>2, PTL DEF Spec

\* For every stream, batch size and number of faults: the state has its type,
\* the batch keeps its bound (WriteTrades), and while nothing fails a row is
\* timed as the order of heads and swaps in the stream says (handleBlockHead).
THEOREM SinkTheorem == Spec => []SinkInv
  <1>1. ClickHouseInv => SinkInv
    BY DEF ClickHouseInv
  <1>2. QED
    BY <1>1, ClickHouseCorrect, PTL

\* For every stream, batch size and number of faults: each process that ends
\* with rows not inserted takes less than a full batch of acknowledged swaps
\* with it, and nothing else that Run does loses one (WriteTrades, Flush).
THEOREM LossTheorem == Spec => []LossBounded
  <1>1. ClickHouseInv => LossBounded
    BY DEF ClickHouseInv
  <1>2. QED
    BY <1>1, ClickHouseCorrect, PTL

\* A fault of any kind adds at most two rows of a swap to the plain MergeTree,
\* and a deleted durable at most one.
THEOREM CopiesTheorem == Spec => []CopiesNeedFaults
  <1>1. ClickHouseInv => CopiesNeedFaults
    <2> SUFFICES ASSUME ClickHouseInv, NEW m \in Swaps
                 PROVE  table[m] + Copies(batch, m) <= 1 + 2 * faults + resets
      BY DEF CopiesNeedFaults
    <2>1. /\ table[m] \in Nat /\ Copies(batch, m) \in Nat /\ faults \in Nat /\ resets \in Nat
          /\ Open(m) \in {0, 1}
      BY Counts DEF ClickHouseInv, SinkInv
    <2>2. QED
      BY <2>1 DEF ClickHouseInv, Budget, Paid
  <1>2. QED
    BY <1>1, ClickHouseCorrect, PTL
=============================================================================

------------------------- MODULE CandleSinksProofs -------------------------
(***************************************************************************)
(* The two programs that store candles lose less than a batch with a       *)
(* process, repeat a row only after a fault, a shutdown in the middle of a *)
(* batch or a new durable, upload what they hold before they end and keep  *)
(* their memory bounded: for every stream and any number of faults.        *)
(***************************************************************************)
EXTENDS CandleSinks, FiniteSetTheorems, WellFoundedInduction, TLAPS

\* What each phase works on, and what it has left behind.
Roles ==
    /\ prog \in {"parquet", "candles"}
    /\ stream \in Streams
    /\ phase \in {"fetch", "exit", "end", "down"} => fetched = {} /\ todo = {} /\ acking = {}
    /\ phase \in {"insert", "append"} => acking = {}
    /\ phase = "insert" => prog = "candles"
    /\ prog = "parquet" => fetched = {}
    /\ prog = "candles" => /\ todo \subseteq fetched /\ acking \subseteq fetched
                           /\ phase = "ack" => todo = {}

\* The consumer does not deliver what is being worked on or was acknowledged.
Apart ==
    /\ avail \cap acked = {}
    /\ (fetched \cup todo \cup acking) \cap avail = {}
    /\ (todo \cup acking) \cap acked = {}
    /\ todo \cap acking = {}
    /\ phase \in {"insert", "append"} => fetched \cap acked = {}

\* The messages of the current call whose row WriteCandles has taken, and those
\* whose row AppendCandle has taken.
Inserted == IF phase = "insert" THEN fetched \ todo
            ELSE IF phase = "append" THEN fetched ELSE acking

Appended == IF phase = "append" THEN fetched \ todo ELSE acking

\* A row in memory is that of a candle, and what is going to be acknowledged
\* has its rows.
Stored ==
    \A m \in Messages :
        /\ batch[m] + rows[m] > 0 => m \in Candles
        /\ prog = "candles" /\ m \in Inserted => table[m] + batch[m] > 0
        /\ m \in Appended => objects[m] + rows[m] > 0

\* The messages of a set that have rows in memory.
Held(f, S) == {m \in S : f[m] > 0}

\* Of what is in memory less than a full batch was acknowledged, whatever the
\* failed writes left there: a message is acknowledged only after a write that
\* did not leave its batch full.
FewHeld ==
    /\ prog = "candles" => Cardinality(Held(batch, acked)) <= BatchSize - 1
    /\ \A b \in Buckets : Cardinality(Held(rows, acked \cap In(b))) <= BatchRows - 1

RoomLeft ==
    /\ prog = "candles" /\ phase \in {"append", "ack"} => Total(batch, Messages) <= BatchSize - 1
    /\ \A m \in Appended : rows[m] > 0 => Total(rows, In(stream[m])) <= BatchRows - 1

\* 1 while a row of the message may still come; done is whose row was taken.
Open(m, done) == IF m \in acked \cup done THEN 0 ELSE 1

\* Without a fault: the rows of a message, with the one that may still come,
\* against the shutdowns that cut a write and the new durables.  While a
\* program is in its loop it holds a row at most once.
Once ==
    faults = 0 =>
        /\ \A m \in Messages :
              /\ table[m] + batch[m] + Open(m, Inserted) <= 1 + 2 * cuts + resets
              /\ objects[m] + rows[m] + Open(m, Appended) <= 1 + 2 * cuts + resets
              /\ phase \notin {"exit", "end"} =>
                    /\ batch[m] + Open(m, Inserted) <= 1
                    /\ rows[m] + Open(m, Appended) <= 1
        /\ phase = "end" => rows = NoRows
        /\ Lost(objects, rows) = {}

\* The inductive invariant.
CandleSinksInv ==
    /\ TypeOK
    /\ MemoryBounded
    /\ LossBounded
    /\ Roles
    /\ Apart
    /\ Stored
    /\ FewHeld
    /\ RoomLeft
    /\ Once
-----------------------------------------------------------------------------
\* Sums over finite sets.

\* A set of naturals that is not empty has a least element.
LEMMA LeastNat ==
    ASSUME NEW T, T \subseteq Nat, T # {}
    PROVE  \E x \in T : \A y \in T : x <= y
  <1>1. \E x \in T : \A y \in T : ~(<<y, x>> \in OpToRel(<, Nat))
    BY NatLessThanWellFounded, WFMin
  <1>2. \A x \in Nat, y \in Nat : ~(<<y, x>> \in OpToRel(<, Nat)) => x <= y
    BY DEF OpToRel
  <1>3. QED
    BY <1>1, <1>2

\* Induction over the subsets of a finite set, for a set of them.
LEMMA SubsetInduction ==
    ASSUME NEW S, IsFiniteSet(S), NEW C,
           \A t \in SUBSET S : (\A u \in SUBSET t : u # t => u \in C) => t \in C
    PROVE  \A t \in SUBSET S : t \in C
  <1> SUFFICES ASSUME NEW t0 \in SUBSET S, t0 \notin C PROVE FALSE
    OBVIOUS
  <1> DEFINE Sizes == {Cardinality(t) : t \in {u \in SUBSET S : u \notin C}}
  <1>1. \A t \in SUBSET S : IsFiniteSet(t) /\ Cardinality(t) \in Nat
    BY FS_Subset, FS_CardinalityType
  <1>2. Sizes \subseteq Nat /\ Sizes # {}
    BY <1>1
  <1>3. PICK n \in Sizes : \A k \in Sizes : n <= k
    BY <1>2, LeastNat
  <1>4. PICK t \in SUBSET S : t \notin C /\ Cardinality(t) = n
    BY <1>3
  <1>5. ASSUME NEW u \in SUBSET t, u # t PROVE u \in C
    <2>1. Cardinality(u) <= Cardinality(t) /\ Cardinality(u) # Cardinality(t)
      BY <1>1, <1>5, FS_Subset
    <2>2. Cardinality(u) \in Nat /\ Cardinality(t) \in Nat /\ u \in SUBSET S
      BY <1>1
    <2>3. Cardinality(u) \notin Sizes
      BY <1>3, <1>4, <2>1, <2>2
    <2>4. QED
      BY <2>2, <2>3
  <1>6. QED
    BY <1>4, <1>5

Pick(s) == CHOOSE x \in s : TRUE

\* g adds up f over the subsets of S.
Sums(g, f, S) ==
    g = [s \in SUBSET S |-> IF s = {} THEN 0 ELSE f[Pick(s)] + g[s \ {Pick(s)}]]

\* What MapThenSumSet computes.
LEMMA TotalDef ==
    ASSUME NEW f, NEW S
    PROVE  Total(f, S) = (CHOOSE g : Sums(g, f, S))[S]
  BY DEF Total, MapThenSumSet, MapThenFoldSet, Sums, Pick

\* What is taken out of a set is in it.
LEMMA PickFacts ==
    ASSUME NEW s, s # {}
    PROVE  Pick(s) \in s /\ s \ {Pick(s)} \in SUBSET s /\ s \ {Pick(s)} # s
  BY DEF Pick

\* Two sums agree on what both add up.
LEMMA SumsAgree ==
    ASSUME NEW f, NEW A, NEW B, IsFiniteSet(A), NEW g, NEW h, Sums(g, f, A), Sums(h, f, B)
    PROVE  \A t \in SUBSET A : t \in SUBSET B => g[t] = h[t]
  <1> DEFINE C == {t \in SUBSET A : t \in SUBSET B => g[t] = h[t]}
  <1>1. ASSUME NEW t \in SUBSET A, \A u \in SUBSET t : u # t => u \in C
        PROVE  t \in C
    <2> SUFFICES ASSUME t \in SUBSET B PROVE g[t] = h[t]
      OBVIOUS
    <2>1. g[t] = IF t = {} THEN 0 ELSE f[Pick(t)] + g[t \ {Pick(t)}]
      BY DEF Sums
    <2>2. h[t] = IF t = {} THEN 0 ELSE f[Pick(t)] + h[t \ {Pick(t)}]
      BY DEF Sums
    <2>3. CASE t = {}
      BY <2>1, <2>2, <2>3
    <2>4. CASE t # {}
      <3>1. t \ {Pick(t)} \in C /\ t \ {Pick(t)} \in SUBSET B
        BY <1>1, <2>4, PickFacts
      <3>2. QED
        BY <2>1, <2>2, <2>4, <3>1
    <2>5. QED
      BY <2>3, <2>4
  <1>2. \A t \in SUBSET A : t \in C
    <2> HIDE DEF C
    <2>1. QED
      BY <1>1, SubsetInduction
  <1>3. QED
    BY <1>2

\* There is one.
LEMMA SumsExist ==
    ASSUME NEW f, NEW S, IsFiniteSet(S)
    PROVE  \E g : Sums(g, f, S)
  <1> DEFINE C == {t \in SUBSET S : \E g : Sums(g, f, t)}
  <1>1. ASSUME NEW A \in SUBSET S, \A u \in SUBSET A : u # A => u \in C
        PROVE  A \in C
    <2> DEFINE G(u) == CHOOSE g : Sums(g, f, u)
               Below(t) == t \ {Pick(t)}
               h == [t \in SUBSET A |-> IF t = {} THEN 0 ELSE f[Pick(t)] + G(Below(t))[Below(t)]]
    <2>1. \A t \in SUBSET A : t # {} => Below(t) \in SUBSET A /\ Below(t) # A /\ Below(t) \in SUBSET t
      BY PickFacts
    <2>2. \A u \in SUBSET A : u # A => Sums(G(u), f, u)
      BY <1>1
    <2>3. \A u \in SUBSET A : IsFiniteSet(u)
      BY FS_Subset
    <2> HIDE DEF G, Below
    <2>4. ASSUME NEW t \in SUBSET A, t # {}
          PROVE  h[Below(t)] = G(Below(t))[Below(t)]
      <3> DEFINE u == Below(t)
      <3>1. u \in SUBSET A /\ u # A /\ Sums(G(u), f, u)
        BY <2>1, <2>2, <2>4
      <3>2. CASE u = {}
        <4>1. G(u)[u] = 0
          BY <3>1, <3>2 DEF Sums
        <4>2. QED
          BY <3>1, <3>2, <4>1
      <3>3. CASE u # {}
        <4>1. G(u)[u] = f[Pick(u)] + G(u)[Below(u)]
          BY <3>1, <3>3 DEF Sums, Below
        <4>2. h[u] = f[Pick(u)] + G(Below(u))[Below(u)]
          BY <3>1, <3>3
        <4>3. Below(u) \in SUBSET A /\ Below(u) # A /\ Below(u) \in SUBSET u
          BY <2>1, <3>1, <3>3
        <4>4. Sums(G(Below(u)), f, Below(u)) /\ IsFiniteSet(Below(u))
          BY <2>2, <2>3, <4>3
        <4>5. G(Below(u))[Below(u)] = G(u)[Below(u)]
          BY <3>1, <4>3, <4>4, SumsAgree
        <4>6. QED
          BY <4>1, <4>2, <4>5
      <3>4. QED
        BY <3>2, <3>3
    <2>5. h = [t \in SUBSET A |-> IF t = {} THEN 0 ELSE f[Pick(t)] + h[Below(t)]]
      BY <2>4
    <2>6. Sums(h, f, A)
      BY <2>5 DEF Sums, Below
    <2>7. QED
      BY <2>6
  <1>2. \A t \in SUBSET S : t \in C
    <2> HIDE DEF C
    <2>1. QED
      BY <1>1, SubsetInduction
  <1>3. QED
    BY <1>2

\* A sum is that of one element and of the rest.
LEMMA TotalStep ==
    ASSUME NEW f, NEW S, IsFiniteSet(S)
    PROVE  /\ S = {} => Total(f, S) = 0
           /\ S # {} => Total(f, S) = f[Pick(S)] + Total(f, S \ {Pick(S)})
  <1> DEFINE G(u) == CHOOSE g : Sums(g, f, u)
             R == S \ {Pick(S)}
  <1>1. IsFiniteSet(R)
    BY FS_Subset
  <1>2. Sums(G(S), f, S) /\ Sums(G(R), f, R)
    BY <1>1, SumsExist
  <1>3. Total(f, S) = G(S)[S] /\ Total(f, R) = G(R)[R]
    BY TotalDef
  <1> HIDE DEF G, R
  <1>4. S = {} => G(S)[S] = 0
    BY <1>2 DEF Sums
  <1>5. S # {} => G(S)[S] = f[Pick(S)] + G(S)[R]
    BY <1>2 DEF Sums, R
  <1>6. G(R)[R] = G(S)[R]
    <2>1. R \in SUBSET R /\ R \in SUBSET S
      BY DEF R
    <2>2. QED
      BY <1>1, <1>2, <2>1, SumsAgree
  <1>7. QED
    BY <1>3, <1>4, <1>5, <1>6 DEF R

\* Sums of numbers are numbers, and grow with them.
LEMMA TotalMonotone ==
    ASSUME NEW f, NEW g, NEW S, IsFiniteSet(S),
           \A x \in S : f[x] \in Nat /\ g[x] \in Nat /\ f[x] <= g[x]
    PROVE  Total(f, S) \in Nat /\ Total(g, S) \in Nat /\ Total(f, S) <= Total(g, S)
  <1> DEFINE C == {t \in SUBSET S : /\ Total(f, t) \in Nat /\ Total(g, t) \in Nat
                                    /\ Total(f, t) <= Total(g, t)}
  <1>1. ASSUME NEW t \in SUBSET S, \A u \in SUBSET t : u # t => u \in C
        PROVE  t \in C
    <2>1. IsFiniteSet(t)
      BY FS_Subset
    <2>2. CASE t = {}
      <3>1. Total(f, t) = 0 /\ Total(g, t) = 0
        BY <2>1, <2>2, TotalStep
      <3>2. QED
        BY <2>2, <3>1
    <2>3. CASE t # {}
      <3>1. Pick(t) \in S /\ t \ {Pick(t)} \in C
        BY <1>1, <2>3, PickFacts
      <3>2. /\ Total(f, t) = f[Pick(t)] + Total(f, t \ {Pick(t)})
            /\ Total(g, t) = g[Pick(t)] + Total(g, t \ {Pick(t)})
        BY <2>1, <2>3, TotalStep
      <3>3. QED
        BY <3>1, <3>2
    <2>4. QED
      BY <2>2, <2>3
  <1>2. \A t \in SUBSET S : t \in C
    <2> HIDE DEF C
    <2>1. QED
      BY <1>1, SubsetInduction
  <1>3. QED
    BY <1>2

\* One more of an element is one more in the sum, if the element is counted.
LEMMA TotalOneMore ==
    ASSUME NEW f, NEW g, NEW S, IsFiniteSet(S), NEW m,
           \A x \in S : f[x] \in Nat /\ g[x] = IF x = m THEN f[x] + 1 ELSE f[x]
    PROVE  Total(g, S) = IF m \in S THEN Total(f, S) + 1 ELSE Total(f, S)
  <1> DEFINE C == {t \in SUBSET S : /\ Total(f, t) \in Nat
                                    /\ Total(g, t) = IF m \in t THEN Total(f, t) + 1 ELSE Total(f, t)}
  <1>1. ASSUME NEW t \in SUBSET S, \A u \in SUBSET t : u # t => u \in C
        PROVE  t \in C
    <2>1. IsFiniteSet(t)
      BY FS_Subset
    <2>2. CASE t = {}
      <3>1. Total(f, t) = 0 /\ Total(g, t) = 0
        BY <2>1, <2>2, TotalStep
      <3>2. QED
        BY <2>2, <3>1
    <2>3. CASE t # {}
      <3>1. Pick(t) \in t /\ Pick(t) \in S /\ t \ {Pick(t)} \in C
        BY <1>1, <2>3, PickFacts
      <3>2. /\ Total(f, t) = f[Pick(t)] + Total(f, t \ {Pick(t)})
            /\ Total(g, t) = g[Pick(t)] + Total(g, t \ {Pick(t)})
        BY <2>1, <2>3, TotalStep
      <3>3. QED
        BY <3>1, <3>2
    <2>4. QED
      BY <2>2, <2>3
  <1>2. \A t \in SUBSET S : t \in C
    <2> HIDE DEF C
    <2>1. QED
      BY <1>1, SubsetInduction
  <1>3. QED
    BY <1>2

\* There are no more messages with a row than rows.
LEMMA HeldCount ==
    ASSUME NEW f, NEW S, IsFiniteSet(S), \A x \in S : f[x] \in Nat
    PROVE  Cardinality(Held(f, S)) <= Total(f, S)
  <1> DEFINE C == {t \in SUBSET S : /\ Total(f, t) \in Nat
                                    /\ Cardinality(Held(f, t)) \in Nat
                                    /\ Cardinality(Held(f, t)) <= Total(f, t)}
  <1>1. ASSUME NEW t \in SUBSET S, \A u \in SUBSET t : u # t => u \in C
        PROVE  t \in C
    <2>1. IsFiniteSet(t)
      BY FS_Subset
    <2>2. CASE t = {}
      <3>1. Total(f, t) = 0 /\ Held(f, t) = {}
        BY <2>1, <2>2, TotalStep DEF Held
      <3>2. Cardinality(Held(f, t)) = 0
        BY <3>1, FS_EmptySet
      <3>3. QED
        BY <2>2, <3>1, <3>2
    <2>3. CASE t # {}
      <3> DEFINE p == Pick(t)
                 r == t \ {p}
      <3>1. p \in t /\ p \in S /\ r \in C /\ f[p] \in Nat
        BY <1>1, <2>3, PickFacts
      <3>2. Total(f, t) = f[p] + Total(f, r)
        BY <2>1, <2>3, TotalStep
      <3>3. IsFiniteSet(Held(f, r)) /\ p \notin Held(f, r)
        <4>1. Held(f, r) \subseteq t
          BY DEF Held
        <4>2. QED
          BY <2>1, <4>1, FS_Subset DEF Held
      <3>4. CASE f[p] = 0
        <4>1. Held(f, t) = Held(f, r)
          BY <3>4 DEF Held
        <4> HIDE DEF p, r
        <4>2. QED
          BY <3>1, <3>2, <3>4, <4>1
      <3>5. CASE f[p] > 0
        <4>1. Held(f, t) = Held(f, r) \cup {p}
          BY <3>1, <3>5 DEF Held
        <4> HIDE DEF p, r
        <4>2. Cardinality(Held(f, r) \cup {p}) = Cardinality(Held(f, r)) + 1
          BY <3>3, FS_AddElement
        <4>3. /\ Total(f, r) \in Nat /\ Cardinality(Held(f, r)) \in Nat
              /\ Cardinality(Held(f, r)) <= Total(f, r) /\ f[p] \in Nat
          BY <3>1
        <4>4. Cardinality(Held(f, t)) = Cardinality(Held(f, r)) + 1
          BY <4>1, <4>2
        <4>5. /\ Total(f, t) \in Nat /\ Cardinality(Held(f, t)) \in Nat
              /\ Cardinality(Held(f, t)) <= Total(f, t)
          <5> HIDE DEF C
          <5>1. QED
            BY <3>2, <3>5, <4>3, <4>4
        <4>6. QED
          BY <4>5
      <3>6. f[p] \in Nat
        BY <3>1
      <3>7. f[p] = 0 \/ f[p] > 0
        <4> HIDE DEF p, r, C
        <4>1. QED
          BY <3>6
      <3>8. QED
        BY <3>4, <3>5, <3>7
    <2>4. QED
      BY <2>2, <2>3
  <1>2. \A t \in SUBSET S : t \in C
    <2> HIDE DEF C
    <2>1. QED
      BY <1>1, SubsetInduction
  <1>3. QED
    BY <1>2
-----------------------------------------------------------------------------
\* The constants, as the provers use them.
LEMMA Numbers ==
    /\ BatchSize \in Nat /\ BatchSize > 0 /\ BatchRows \in Nat /\ BatchRows > 0
    /\ MaxStops \in Nat /\ MaxFaults \in Nat /\ MaxResets \in Nat
  BY CandleSinksAssumption

\* The bounds on what the writers hold are not negative.
LEMMA Room ==
    ASSUME NEW f \in Nat, NEW c \in Nat
    PROVE  0 <= BatchSize - 1 + f + c /\ 0 <= BatchRows - 1 + f + c
  <1>1. BatchSize - 1 \in Nat /\ BatchRows - 1 \in Nat
    BY Numbers
  <1>2. QED
    BY <1>1

\* The bound on what is lost is a number that grows with the processes.
LEMMA BoundGrows ==
    ASSUME NEW size \in Nat, size > 0, NEW n \in Nat
    PROVE  /\ (size - 1) * n \in Nat /\ size - 1 \in Nat
           /\ (size - 1) * (n + 1) = (size - 1) * n + (size - 1)
  <1>1. size - 1 \in Nat
    OBVIOUS
  <1> DEFINE B == size - 1
  <1> HIDE DEF B
  <1>2. B \in Nat => B * n \in Nat /\ B * (n + 1) = B * n + B
    OBVIOUS
  <1>3. QED
    BY <1>1, <1>2 DEF B

\* The messages of the stream, a finite set of numbers.
LEMMA StreamFacts ==
    ASSUME Roles
    PROVE  /\ Messages \subseteq Nat
           /\ \A S \in SUBSET Messages : IsFiniteSet(S)
           /\ \A m \in Candles : stream[m] \in Buckets
  <1>1. stream \in Seq(Buckets \cup {Bad}) /\ Len(stream) \in Nat
    BY CandleSinksAssumption DEF Roles
  <1>2. \A m \in Messages : stream[m] \in Buckets \cup {Bad}
    BY <1>1 DEF Messages
  <1>3. IsFiniteSet(Messages)
    BY <1>1, FS_Interval DEF Messages
  <1>4. \A S \in SUBSET Messages : IsFiniteSet(S)
    BY <1>3, FS_Subset
  <1>5. QED
    BY <1>1, <1>2, <1>4 DEF Messages, Candles

\* A part of some messages has no more of them.
LEMMA CountFacts ==
    ASSUME Roles, NEW B \in SUBSET Messages, NEW A \in SUBSET B
    PROVE  /\ IsFiniteSet(A) /\ IsFiniteSet(B)
           /\ Cardinality(A) \in Nat /\ Cardinality(B) \in Nat
           /\ Cardinality(A) <= Cardinality(B)
  <1>1. IsFiniteSet(B) /\ IsFiniteSet(A)
    BY StreamFacts
  <1>2. QED
    BY <1>1, FS_CardinalityType, FS_Subset

\* The stream of a behaviour does not change.
LEMMA SameStream ==
    ASSUME stream' = stream
    PROVE  /\ Messages' = Messages /\ Candles' = Candles /\ NoRows' = NoRows
           /\ \A b : In(b)' = In(b)
  BY DEF Messages, Candles, NoRows, In

\* The first of some messages is one of them.
LEMMA MinFacts ==
    ASSUME NEW S, S \subseteq Nat, S # {}
    PROVE  Min(S) \in S
  <1>1. \E x \in S : \A y \in S : x <= y
    BY LeastNat
  <1>2. QED
    BY <1>1 DEF Min

Rows == [Messages -> Nat]

\* The sums of some rows.
LEMMA RowSums ==
    ASSUME Roles, NEW f \in Rows, NEW S \in SUBSET Messages
    PROVE  Total(f, S) \in Nat /\ Total(NoRows, S) = 0
  <1>1. IsFiniteSet(S)
    BY StreamFacts
  <1>2. \A x \in S : f[x] \in Nat /\ NoRows[x] = 0 /\ f[x] <= f[x]
    BY DEF Rows, NoRows
  <1>3. Total(f, S) \in Nat
    BY <1>1, <1>2, TotalMonotone
  <1>4. Total(NoRows, S) = 0
    <2> DEFINE C == {t \in SUBSET S : Total(NoRows, t) = 0}
    <2>1. ASSUME NEW t \in SUBSET S, \A u \in SUBSET t : u # t => u \in C
          PROVE  t \in C
      <3>1. IsFiniteSet(t)
        BY <1>1, FS_Subset
      <3>2. CASE t = {}
        BY <3>1, <3>2, TotalStep
      <3>3. CASE t # {}
        <4>1. Pick(t) \in S /\ t \ {Pick(t)} \in C
          BY <2>1, <3>3, PickFacts
        <4>2. Total(NoRows, t) = NoRows[Pick(t)] + Total(NoRows, t \ {Pick(t)})
          BY <3>1, <3>3, TotalStep
        <4>3. QED
          BY <1>2, <4>1, <4>2
      <3>4. QED
        BY <3>2, <3>3
    <2>2. \A t \in SUBSET S : t \in C
      <3> HIDE DEF C
      <3>1. QED
        BY <1>1, <2>1, SubsetInduction
    <2>3. QED
      BY <2>2
  <1>5. QED
    BY <1>3, <1>4

\* A bound on some rows bounds the messages that have them.
LEMMA HeldBound ==
    ASSUME Roles, NEW f \in Rows, NEW T \in SUBSET Messages, NEW A \in SUBSET T,
           NEW n \in Int, Total(f, T) <= n
    PROVE  Cardinality(Held(f, A)) <= n
  <1>1. Held(f, T) \in SUBSET Messages /\ Held(f, A) \in SUBSET Held(f, T)
    BY DEF Held
  <1>2. /\ Cardinality(Held(f, A)) \in Nat /\ Cardinality(Held(f, T)) \in Nat
        /\ Cardinality(Held(f, A)) <= Cardinality(Held(f, T))
    BY <1>1, CountFacts
  <1>3. IsFiniteSet(T) /\ (\A x \in T : f[x] \in Nat) /\ Total(f, T) \in Nat
    BY StreamFacts, RowSums DEF Rows
  <1>4. Cardinality(Held(f, T)) <= Total(f, T)
    BY <1>3, HeldCount
  <1>5. QED
    BY <1>2, <1>3, <1>4

\* One row more.
LEMMA OneMoreFacts ==
    ASSUME Roles, NEW f \in Rows, NEW m \in Messages
    PROVE  /\ OneMore(f, m) \in Rows
           /\ \A x \in Messages : OneMore(f, m)[x] = IF x = m THEN f[x] + 1 ELSE f[x]
           /\ \A S \in SUBSET Messages :
                 Total(OneMore(f, m), S) = IF m \in S THEN Total(f, S) + 1 ELSE Total(f, S)
  <1> DEFINE g == OneMore(f, m)
  <1>1. g \in Rows /\ \A x \in Messages : f[x] \in Nat /\ g[x] = IF x = m THEN f[x] + 1 ELSE f[x]
    BY DEF OneMore, Rows
  <1> HIDE DEF g
  <1>2. ASSUME NEW S \in SUBSET Messages
        PROVE  Total(g, S) = IF m \in S THEN Total(f, S) + 1 ELSE Total(f, S)
    <2>1. IsFiniteSet(S)
      BY StreamFacts
    <2>2. \A x \in S : f[x] \in Nat /\ g[x] = IF x = m THEN f[x] + 1 ELSE f[x]
      BY <1>1
    <2>3. QED
      BY <2>1, <2>2, TotalOneMore
  <1>3. QED
    BY <1>1, <1>2 DEF g

\* A flush that succeeds.
LEMMA FlushOkFacts ==
    ASSUME Roles, NEW new \in Rows, objects \in Rows, FlushOk(new)
    PROVE  /\ rows' = NoRows /\ rows' \in Rows /\ objects' \in Rows
           /\ \A x \in Messages : rows'[x] = 0 /\ objects'[x] = objects[x] + new[x]
           /\ \A S \in SUBSET Messages : Total(rows', S) = 0
  <1>1. rows' = NoRows /\ rows' \in Rows /\ \A x \in Messages : rows'[x] = 0
    BY DEF FlushOk, NoRows, Rows
  <1>2. objects' \in Rows /\ \A x \in Messages : objects'[x] = objects[x] + new[x]
    BY DEF FlushOk, Plus, Rows
  <1>3. QED
    BY <1>1, <1>2, RowSums

\* A flush that fails: what leaves the buckets is in an object, and what stays
\* may be in one too.
LEMMA FlushFailsFacts ==
    ASSUME Roles, NEW new \in Rows, objects \in Rows, FlushFails(new)
    PROVE  /\ rows' \in Rows /\ objects' \in Rows
           /\ \A x \in Messages : /\ rows'[x] > 0 => new[x] > 0
                                  /\ objects'[x] + rows'[x] >= objects[x] + new[x]
                                  /\ objects'[x] + rows'[x] <= objects[x] + new[x] + new[x]
           /\ \A S \in SUBSET Messages : Total(rows', S) <= Total(new, S)
  <1>1. PICK done, also :
            /\ rows' = Only(new, Messages \ done)
            /\ \/ objects' = Plus(objects, Only(new, done))
               \/ objects' = Plus(objects, Only(new, done \cup also))
    BY DEF FlushFails
  <1>2. rows' \in Rows /\ \A x \in Messages : rows'[x] = IF x \in done THEN 0 ELSE new[x]
    BY <1>1 DEF Only, Rows
  <1>3. /\ objects' \in Rows
        /\ \A x \in Messages : \/ objects'[x] = objects[x] + new[x]
                               \/ objects'[x] = objects[x] /\ x \notin done
    BY <1>1 DEF Plus, Only, Rows
  <1>4. \A x \in Messages : new[x] \in Nat /\ objects[x] \in Nat
    BY DEF Rows
  <1>5. \A x \in Messages : /\ rows'[x] > 0 => new[x] > 0
                            /\ objects'[x] + rows'[x] >= objects[x] + new[x]
                            /\ objects'[x] + rows'[x] <= objects[x] + new[x] + new[x]
    BY <1>2, <1>3, <1>4
  <1>6. ASSUME NEW S \in SUBSET Messages PROVE Total(rows', S) <= Total(new, S)
    <2>1. IsFiniteSet(S)
      BY StreamFacts
    <2>2. \A x \in S : rows'[x] \in Nat /\ new[x] \in Nat /\ rows'[x] <= new[x]
      BY <1>2, <1>4
    <2>3. QED
      BY <2>1, <2>2, TotalMonotone
  <1>7. QED
    BY <1>2, <1>3, <1>5, <1>6

\* The types of the memory, the stores and the counters.
LEMMA RowTypes ==
    ASSUME TypeOK
    PROVE  /\ batch \in Rows /\ rows \in Rows /\ table \in Rows /\ objects \in Rows
           /\ \A x \in Messages : /\ batch[x] \in Nat /\ rows[x] \in Nat
                                  /\ table[x] \in Nat /\ objects[x] \in Nat
           /\ faults \in Nat /\ cuts \in Nat /\ resets \in Nat /\ drops \in Nat
  <1>1. batch \in Rows /\ rows \in Rows /\ table \in Rows /\ objects \in Rows
    BY DEF TypeOK, Rows
  <1>2. QED
    BY <1>1, Numbers DEF TypeOK, Rows

\* What is still to come is one row or none.
LEMMA OpenFacts ==
    ASSUME NEW x, NEW done
    PROVE  /\ Open(x, done) \in {0, 1}
           /\ x \in acked \cup done => Open(x, done) = 0
           /\ x \notin acked \cup done => Open(x, done) = 1
  BY DEF Open

\* A write failed, of a fault or of a shutdown.
LEMMA WriteFailedFacts ==
    ASSUME TypeOK, NEW then, WriteFailed(then)
    PROVE  /\ \/ /\ faults < MaxFaults /\ faults' = faults + 1 /\ UNCHANGED <<stops, cuts>>
                 /\ phase' = then
              \/ /\ stops < MaxStops /\ stops' = stops + 1 /\ cuts' = cuts + 1
                 /\ faults' = faults /\ phase' = "exit"
           /\ faults' \in 0..MaxFaults /\ stops' \in 0..MaxStops /\ cuts' \in 0..stops'
           /\ faults' \in Nat /\ cuts' \in Nat /\ faults' + cuts' = faults + cuts + 1
  BY Numbers DEF WriteFailed, Fault, Cut, TypeOK
-----------------------------------------------------------------------------
\* What is lost, and what is held.

\* Nothing is lost that was not lost before.
LEMMA LostKept ==
    ASSUME TypeOK, Roles, LossBounded, UNCHANGED <<prog, stream, drops>>,
           prog = "candles" => Lost(table, batch)' \subseteq Lost(table, batch),
           Lost(objects, rows)' \subseteq Lost(objects, rows)
    PROVE  LossBounded'
  <1> DEFINE LT == Lost(table, batch)
             LO == Lost(objects, rows)
  <1>1. LT \subseteq Messages /\ LO \subseteq Messages
    BY DEF Lost, TypeOK
  <1>2. \A b : In(b)' = In(b)
    BY SameStream
  <1>3. /\ drops \in Nat
        /\ (BatchSize - 1) * drops \in Nat /\ (BatchRows - 1) * drops \in Nat
    BY BoundGrows, Numbers, RowTypes
  <1>4. ASSUME prog = "candles"
        PROVE  Cardinality(LT') <= (BatchSize - 1) * drops
    <2>1. LT \in SUBSET Messages /\ LT' \in SUBSET LT
      BY <1>1, <1>4
    <2>2. Cardinality(LT) <= (BatchSize - 1) * drops
      BY <1>4 DEF LossBounded
    <2> HIDE DEF LT
    <2>3. /\ Cardinality(LT') \in Nat /\ Cardinality(LT) \in Nat
          /\ Cardinality(LT') <= Cardinality(LT)
      BY <2>1, CountFacts
    <2>4. QED
      BY <1>3, <2>2, <2>3
  <1>5. ASSUME NEW b \in Buckets
        PROVE  Cardinality(LO' \cap In(b)) <= (BatchRows - 1) * drops
    <2>1. LO \cap In(b) \in SUBSET Messages /\ LO' \cap In(b) \in SUBSET (LO \cap In(b))
      BY <1>1
    <2>2. Cardinality(LO \cap In(b)) <= (BatchRows - 1) * drops
      BY DEF LossBounded
    <2> HIDE DEF LO
    <2>3. /\ Cardinality(LO' \cap In(b)) \in Nat /\ Cardinality(LO \cap In(b)) \in Nat
          /\ Cardinality(LO' \cap In(b)) <= Cardinality(LO \cap In(b))
      BY <2>1, CountFacts
    <2>4. QED
      BY <1>3, <2>2, <2>3
  <1>6. QED
    BY <1>2, <1>4, <1>5 DEF LossBounded

\* A process ends, and takes what it held with it.
LEMMA LostAtEnd ==
    ASSUME TypeOK, Roles, LossBounded, FewHeld, UNCHANGED <<prog, stream>>, drops' = drops + 1,
           Lost(table, batch)' \subseteq Lost(table, batch) \cup Held(batch, acked),
           Lost(objects, rows)' \subseteq Lost(objects, rows) \cup Held(rows, acked)
    PROVE  LossBounded'
  <1>1. \A b : In(b)' = In(b)
    BY SameStream
  <1>2. ASSUME NEW size \in Nat, size > 0,
               NEW L \in SUBSET Messages, NEW H \in SUBSET Messages, NEW N \in SUBSET (L \cup H),
               Cardinality(L) <= (size - 1) * drops, Cardinality(H) <= size - 1
        PROVE  Cardinality(N) <= (size - 1) * drops'
    <2>1. L \cup H \in SUBSET Messages /\ L \in SUBSET L /\ H \in SUBSET H /\ L \cap H \in SUBSET L
      OBVIOUS
    <2>2. /\ IsFiniteSet(L) /\ IsFiniteSet(H)
          /\ Cardinality(L) \in Nat /\ Cardinality(H) \in Nat /\ Cardinality(L \cap H) \in Nat
          /\ Cardinality(N) \in Nat /\ Cardinality(L \cup H) \in Nat
          /\ Cardinality(N) <= Cardinality(L \cup H)
      BY <2>1, CountFacts
    <2>3. Cardinality(L \cup H) = Cardinality(L) + Cardinality(H) - Cardinality(L \cap H)
      BY <2>2, FS_Union
    <2>4. /\ drops \in Nat /\ (size - 1) * drops \in Nat /\ size - 1 \in Nat
          /\ (size - 1) * drops' = (size - 1) * drops + (size - 1)
      BY <1>2, BoundGrows, RowTypes
    <2>5. QED
      BY <1>2, <2>2, <2>3, <2>4
  <1>3. ASSUME prog = "candles"
        PROVE  Cardinality(Lost(table, batch)') <= (BatchSize - 1) * drops'
    <2>1. Lost(table, batch) \in SUBSET Messages /\ Held(batch, acked) \in SUBSET Messages
      BY DEF Lost, Held, TypeOK
    <2>2. /\ Cardinality(Lost(table, batch)) <= (BatchSize - 1) * drops
          /\ Cardinality(Held(batch, acked)) <= BatchSize - 1
      BY <1>3 DEF LossBounded, FewHeld
    <2>3. QED
      BY <1>2, <2>1, <2>2, Numbers
  <1>4. ASSUME NEW b \in Buckets
        PROVE  Cardinality(Lost(objects, rows)' \cap In(b)) <= (BatchRows - 1) * drops'
    <2> DEFINE L == Lost(objects, rows) \cap In(b)
               H == Held(rows, acked \cap In(b))
               N == Lost(objects, rows)' \cap In(b)
    <2>1. L \in SUBSET Messages /\ H \in SUBSET Messages
      BY DEF Lost, Held, TypeOK
    <2>2. N \in SUBSET (L \cup H)
      BY DEF Held
    <2>3. Cardinality(L) <= (BatchRows - 1) * drops /\ Cardinality(H) <= BatchRows - 1
      BY DEF LossBounded, FewHeld
    <2> HIDE DEF L, H, N
    <2>4. Cardinality(N) <= (BatchRows - 1) * drops'
      BY <1>2, <2>1, <2>2, <2>3, Numbers
    <2>5. QED
      BY <2>4 DEF N
  <1>5. QED
    BY <1>1, <1>3, <1>4 DEF LossBounded

\* Nothing acknowledged comes into memory.
LEMMA HeldKept ==
    ASSUME TypeOK, Roles, FewHeld, UNCHANGED <<prog, stream>>, acked' \subseteq acked,
           \A x \in acked : /\ batch'[x] > 0 => batch[x] > 0
                            /\ rows'[x] > 0 => rows[x] > 0
    PROVE  FewHeld'
  <1>1. \A b : In(b)' = In(b)
    BY SameStream
  <1>2. acked \subseteq Messages
    BY DEF TypeOK
  <1>3. ASSUME NEW A \in SUBSET Messages, NEW B \in SUBSET A, NEW n \in Int, Cardinality(A) <= n
        PROVE  Cardinality(B) <= n
    <2>1. Cardinality(A) \in Nat /\ Cardinality(B) \in Nat /\ Cardinality(B) <= Cardinality(A)
      BY CountFacts
    <2>2. QED
      BY <1>3, <2>1
  <1>4. Held(batch, acked)' \in SUBSET Held(batch, acked) /\ Held(batch, acked) \in SUBSET Messages
    BY <1>2 DEF Held
  <1>5. BatchSize - 1 \in Int /\ BatchRows - 1 \in Int
    BY Numbers
  <1>6. prog = "candles" => Cardinality(Held(batch, acked)') <= BatchSize - 1
    BY <1>3, <1>4, <1>5 DEF FewHeld
  <1>7. ASSUME NEW b \in Buckets
        PROVE  Cardinality(Held(rows', acked' \cap In(b))) <= BatchRows - 1
    <2>1. /\ Held(rows', acked' \cap In(b)) \in SUBSET Held(rows, acked \cap In(b))
          /\ Held(rows, acked \cap In(b)) \in SUBSET Messages
      BY <1>2 DEF Held
    <2>2. QED
      BY <1>3, <1>5, <2>1 DEF FewHeld
  <1>8. QED
    BY <1>1, <1>6, <1>7 DEF FewHeld, Held
-----------------------------------------------------------------------------
\* What the steps have in common.

\* AppendCandle took the row, and did not leave its bucket full.
LEMMA AppendOkFacts ==
    ASSUME CandleSinksInv, NEW m \in Candles, AppendOk(m)
    PROVE  /\ rows' \in Rows /\ objects' \in Rows
           /\ \A x \in Messages :
                 /\ rows'[x] <= rows[x] + (IF x = m THEN 1 ELSE 0)
                 /\ objects'[x] + rows'[x] = objects[x] + rows[x] + (IF x = m THEN 1 ELSE 0)
                 /\ rows'[x] > 0 =>
                       \/ Total(rows', In(stream[x])) <= BatchRows - 1
                       \/ x # m /\ Total(rows', In(stream[x])) = Total(rows, In(stream[x]))
           /\ \A b \in Buckets : Total(rows', In(b)) <= BatchRows - 1 + faults + cuts
  <1> USE DEF CandleSinksInv
  <1> DEFINE new == OneMore(rows, m)
  <1>1. m \in Messages /\ stream[m] \in Buckets
    BY StreamFacts DEF Candles
  <1>2. /\ new \in Rows
        /\ \A x \in Messages : new[x] = IF x = m THEN rows[x] + 1 ELSE rows[x]
        /\ \A S \in SUBSET Messages :
              Total(new, S) = IF m \in S THEN Total(rows, S) + 1 ELSE Total(rows, S)
    BY <1>1, OneMoreFacts, RowTypes
  <1>3. \A b : In(b) \in SUBSET Messages /\ (m \in In(b) => b = stream[m])
    BY DEF In
  <1> HIDE DEF new
  <1>4. CASE ~Full(new, m) /\ rows' = new /\ UNCHANGED objects
    <2>1. Total(rows', In(stream[m])) <= BatchRows - 1
      <3>1. Total(new, In(stream[m])) \in Nat
        BY <1>2, <1>3, RowSums
      <3>2. QED
        BY <1>4, <3>1, Numbers DEF Full
    <2>2. \A b : b # stream[m] => Total(rows', In(b)) = Total(rows, In(b))
      BY <1>2, <1>3, <1>4
    <2>3. ASSUME NEW b \in Buckets PROVE Total(rows', In(b)) <= BatchRows - 1 + faults + cuts
      <3>1. Total(rows', In(b)) \in Nat /\ faults \in Nat /\ cuts \in Nat
        BY <1>2, <1>3, <1>4, RowSums, RowTypes
      <3>2. CASE b = stream[m]
        BY <2>1, <3>1, <3>2, Numbers
      <3>3. CASE b # stream[m]
        BY <2>2, <3>3 DEF MemoryBounded
      <3>4. QED
        BY <3>2, <3>3
    <2>4. \A x \in Messages :
              /\ rows'[x] <= rows[x] + (IF x = m THEN 1 ELSE 0)
              /\ objects'[x] + rows'[x] = objects[x] + rows[x] + (IF x = m THEN 1 ELSE 0)
      BY <1>2, <1>4, RowTypes
    <2>5. \A x \in Messages :
              \/ Total(rows', In(stream[x])) <= BatchRows - 1
              \/ x # m /\ Total(rows', In(stream[x])) = Total(rows, In(stream[x]))
      BY <2>1, <2>2
    <2>6. rows' \in Rows /\ objects' \in Rows
      BY <1>2, <1>4, RowTypes
    <2>7. QED
      BY <2>3, <2>4, <2>5, <2>6
  <1>5. CASE FlushOk(new)
    <2>1. /\ rows' \in Rows /\ objects' \in Rows
          /\ \A x \in Messages : rows'[x] = 0 /\ objects'[x] = objects[x] + new[x]
          /\ \A S \in SUBSET Messages : Total(rows', S) = 0
      BY <1>2, <1>5, FlushOkFacts, RowTypes
    <2>2. \A b \in Buckets : Total(rows', In(b)) <= BatchRows - 1 + faults + cuts
      BY <1>3, <2>1, RowTypes, Room
    <2>3. \A x \in Messages :
              /\ rows'[x] = 0 /\ rows'[x] <= rows[x] + (IF x = m THEN 1 ELSE 0)
              /\ objects'[x] + rows'[x] = objects[x] + rows[x] + (IF x = m THEN 1 ELSE 0)
      BY <1>2, <2>1, RowTypes
    <2>4. QED
      BY <2>1, <2>2, <2>3
  <1>6. QED
    BY <1>4, <1>5 DEF AppendOk, new

\* AppendCandle failed.
LEMMA AppendFailsFacts ==
    ASSUME CandleSinksInv, NEW m \in Candles, AppendFails(m)
    PROVE  /\ rows' \in Rows /\ objects' \in Rows
           /\ \A x \in Messages :
                 /\ rows'[x] > 0 => rows[x] > 0 \/ x = m
                 /\ objects'[x] + rows'[x] >= objects[x] + rows[x]
                 /\ objects'[x] + rows'[x] <= objects[x] + 2 * (rows[x] + (IF x = m THEN 1 ELSE 0))
           /\ \A b \in Buckets : Total(rows', In(b)) <= BatchRows - 1 + faults + cuts + 1
  <1> USE DEF CandleSinksInv
  <1> DEFINE new == OneMore(rows, m)
  <1>1. m \in Messages
    BY DEF Candles
  <1>2. /\ new \in Rows
        /\ \A x \in Messages : new[x] = IF x = m THEN rows[x] + 1 ELSE rows[x]
        /\ \A S \in SUBSET Messages :
              Total(new, S) = IF m \in S THEN Total(rows, S) + 1 ELSE Total(rows, S)
    BY <1>1, OneMoreFacts, RowTypes
  <1>3. FlushFails(new)
    BY DEF AppendFails
  <1> HIDE DEF new
  <1>4. /\ rows' \in Rows /\ objects' \in Rows
        /\ \A x \in Messages : /\ rows'[x] > 0 => new[x] > 0
                               /\ objects'[x] + rows'[x] >= objects[x] + new[x]
                               /\ objects'[x] + rows'[x] <= objects[x] + new[x] + new[x]
        /\ \A S \in SUBSET Messages : Total(rows', S) <= Total(new, S)
    BY <1>2, <1>3, FlushFailsFacts, RowTypes
  <1>5. ASSUME NEW x \in Messages
        PROVE  /\ rows'[x] > 0 => rows[x] > 0 \/ x = m
               /\ objects'[x] + rows'[x] >= objects[x] + rows[x]
               /\ objects'[x] + rows'[x] <= objects[x] + 2 * (rows[x] + (IF x = m THEN 1 ELSE 0))
    <2>1. /\ rows[x] \in Nat /\ objects[x] \in Nat /\ rows'[x] \in Nat /\ objects'[x] \in Nat
          /\ new[x] = IF x = m THEN rows[x] + 1 ELSE rows[x]
      BY <1>2, <1>4, RowTypes DEF Rows
    <2>2. QED
      BY <1>4, <2>1
  <1>6. ASSUME NEW b \in Buckets PROVE Total(rows', In(b)) <= BatchRows - 1 + faults + cuts + 1
    <2>1. In(b) \in SUBSET Messages
      BY DEF In
    <2>2. /\ Total(rows, In(b)) \in Nat /\ Total(rows', In(b)) \in Nat
          /\ faults \in Nat /\ cuts \in Nat
      BY <1>4, <2>1, RowSums, RowTypes
    <2>3. Total(rows', In(b)) <= Total(rows, In(b)) + 1
      BY <1>2, <1>4, <2>1, <2>2
    <2>4. Total(rows, In(b)) <= BatchRows - 1 + faults + cuts
      BY DEF MemoryBounded
    <2>5. QED
      BY <2>2, <2>3, <2>4, Numbers
  <1>7. QED
    BY <1>4, <1>5, <1>6

\* A write that takes no row away loses nothing and puts nothing in memory that
\* was acknowledged.
LEMMA WriteKeeps ==
    ASSUME CandleSinksInv, UNCHANGED <<prog, stream, acked, drops>>,
           batch' \in Rows, rows' \in Rows, table' \in Rows, objects' \in Rows,
           \A x \in Messages : /\ table'[x] + batch'[x] >= table[x] + batch[x]
                               /\ objects'[x] + rows'[x] >= objects[x] + rows[x],
           \A x \in acked : /\ batch'[x] > 0 => batch[x] > 0
                            /\ rows'[x] > 0 => rows[x] > 0
    PROVE  /\ LossBounded' /\ FewHeld'
           /\ Lost(objects, rows) = {} => Lost(objects, rows)' = {}
  <1> USE DEF CandleSinksInv
  <1>1. \A x \in acked :
            /\ table[x] + batch[x] \in Nat /\ table'[x] + batch'[x] \in Nat
            /\ objects[x] + rows[x] \in Nat /\ objects'[x] + rows'[x] \in Nat
            /\ table'[x] + batch'[x] = 0 => table[x] + batch[x] = 0
            /\ objects'[x] + rows'[x] = 0 => objects[x] + rows[x] = 0
    <2> SUFFICES ASSUME NEW x \in acked
                 PROVE  /\ table[x] + batch[x] \in Nat /\ table'[x] + batch'[x] \in Nat
                        /\ objects[x] + rows[x] \in Nat /\ objects'[x] + rows'[x] \in Nat
                        /\ table'[x] + batch'[x] = 0 => table[x] + batch[x] = 0
                        /\ objects'[x] + rows'[x] = 0 => objects[x] + rows[x] = 0
      OBVIOUS
    <2>1. x \in Messages
      BY DEF TypeOK
    <2>2. /\ batch[x] \in Nat /\ rows[x] \in Nat /\ table[x] \in Nat /\ objects[x] \in Nat
          /\ batch'[x] \in Nat /\ rows'[x] \in Nat /\ table'[x] \in Nat /\ objects'[x] \in Nat
      BY <2>1, RowTypes DEF Rows
    <2>3. QED
      BY <2>1, <2>2
  <1>2. /\ Lost(table, batch)' \subseteq Lost(table, batch)
        /\ Lost(objects, rows)' \subseteq Lost(objects, rows)
    BY <1>1 DEF Lost
  <1>3. LossBounded'
    BY <1>2, LostKept
  <1>4. FewHeld'
    BY HeldKept
  <1>5. QED
    BY <1>2, <1>3, <1>4

\* A step that leaves memory and stores alone keeps what is said about them,
\* if it moves messages only between those that have rows, and acknowledges
\* only what was to be.
LEMMA Quiet ==
    ASSUME CandleSinksInv, UNCHANGED <<prog, stream, memory, stores, cuts, resets, drops>>,
           faults' \in Nat, faults' >= faults,
           acked' \subseteq acked \cup (IF phase = "ack" THEN acking ELSE {}),
           Inserted' \subseteq Inserted, Appended' \subseteq Appended,
           faults' = 0 => /\ (acked \cup Inserted)' = acked \cup Inserted
                          /\ (acked \cup Appended)' = acked \cup Appended,
           prog = "candles" /\ phase' \in {"append", "ack"} => phase \in {"append", "ack"},
           phase' \notin {"exit", "end"} => phase \notin {"exit", "end"},
           phase' = "end" => phase = "end"
    PROVE  MemoryBounded' /\ LossBounded' /\ Stored' /\ FewHeld' /\ RoomLeft' /\ Once'
  <1> USE DEF CandleSinksInv, memory, stores
  <1>1. /\ Messages' = Messages /\ Candles' = Candles /\ NoRows' = NoRows
        /\ \A b : In(b)' = In(b) /\ In(b) \in SUBSET Messages
    BY SameStream DEF In
  <1>2. MemoryBounded'
    <2>1. Total(batch, Messages) \in Nat /\ \A b \in Buckets : Total(rows, In(b)) \in Nat
      BY <1>1, RowSums, RowTypes
    <2>2. QED
      BY <1>1, <2>1, RowTypes, Numbers DEF MemoryBounded
  <1>3. Stored'
    BY <1>1 DEF Stored
  <1>4. RoomLeft'
    BY <1>1 DEF RoomLeft
  <1>5. /\ phase = "ack" => Inserted = acking /\ Appended = acking
        /\ acking \subseteq Messages /\ acked \subseteq Messages
    BY DEF Inserted, Appended, TypeOK
  <1>6. /\ prog = "candles" => Lost(table, batch)' \subseteq Lost(table, batch)
        /\ Lost(objects, rows)' \subseteq Lost(objects, rows)
    <2>1. ASSUME NEW x \in acking, phase = "ack"
          PROVE  /\ prog = "candles" => table[x] + batch[x] # 0
                 /\ objects[x] + rows[x] # 0
      <3>1. /\ prog = "candles" => table[x] + batch[x] > 0
            /\ objects[x] + rows[x] > 0
        BY <1>5, <2>1 DEF Stored
      <3>2. QED
        BY <1>5, <3>1, RowTypes
    <2>2. QED
      BY <2>1 DEF Lost
  <1>7. LossBounded'
    BY <1>6, LostKept
  <1>8. FewHeld'
    <2>1. CASE phase # "ack"
      BY <2>1, HeldKept
    <2>2. CASE phase = "ack"
      <3>1. acked' \subseteq acked \cup acking /\ acked' \in SUBSET Messages
        BY <1>5, <2>2
      <3>2. BatchSize - 1 \in Int /\ BatchRows - 1 \in Int /\ Messages \in SUBSET Messages
        BY Numbers
      <3>3. ASSUME prog = "candles" PROVE Cardinality(Held(batch, acked')) <= BatchSize - 1
        <4>1. Total(batch, Messages) <= BatchSize - 1
          BY <2>2, <3>3 DEF RoomLeft
        <4>2. QED
          BY <3>1, <3>2, <4>1, HeldBound, RowTypes
      <3>4. ASSUME NEW b \in Buckets PROVE Cardinality(Held(rows, acked' \cap In(b))) <= BatchRows - 1
        <4>1. CASE \E m \in acking \cap In(b) : rows[m] > 0
          <5>1. PICK m \in acking \cap In(b) : rows[m] > 0
            BY <4>1
          <5>2. Total(rows, In(b)) <= BatchRows - 1
            <6>1. m \in Appended /\ stream[m] = b
              BY <1>5, <2>2 DEF In
            <6>2. QED
              BY <5>1, <6>1 DEF RoomLeft
          <5>3. acked' \cap In(b) \in SUBSET In(b) /\ In(b) \in SUBSET Messages
            BY <1>1
          <5>4. QED
            BY <3>2, <5>2, <5>3, HeldBound, RowTypes
        <4>2. CASE \A m \in acking \cap In(b) : ~(rows[m] > 0)
          <5> DEFINE A == Held(rows, acked \cap In(b))
                     B == Held(rows, acked' \cap In(b))
          <5>1. A \in SUBSET Messages /\ B \in SUBSET A
            BY <1>5, <3>1, <4>2 DEF Held
          <5>2. Cardinality(A) <= BatchRows - 1
            BY DEF FewHeld
          <5> HIDE DEF A, B
          <5>3. Cardinality(A) \in Nat /\ Cardinality(B) \in Nat /\ Cardinality(B) <= Cardinality(A)
            BY <5>1, CountFacts
          <5>4. Cardinality(B) <= BatchRows - 1
            BY <3>2, <5>2, <5>3
          <5>5. QED
            BY <5>4 DEF B
        <4>3. QED
          BY <4>1, <4>2
      <3>5. QED
        BY <1>1, <3>3, <3>4 DEF FewHeld, Held
    <2>3. QED
      BY <2>1, <2>2
  <1>9. Once'
    <2> SUFFICES ASSUME faults' = 0 PROVE Once'
      BY DEF Once
    <2>1. faults = 0
      BY RowTypes
    <2>2. \A x : /\ Open(x, Inserted)' = Open(x, Inserted)
                 /\ Open(x, Appended)' = Open(x, Appended)
      BY DEF Open
    <2>3. Lost(objects, rows)' = {}
      BY <1>6, <2>1 DEF Once
    <2>4. ASSUME NEW x \in Messages
          PROVE  /\ table'[x] + batch'[x] + Open(x, Inserted)' <= 1 + 2 * cuts' + resets'
                 /\ objects'[x] + rows'[x] + Open(x, Appended)' <= 1 + 2 * cuts' + resets'
                 /\ phase' \notin {"exit", "end"} => /\ batch'[x] + Open(x, Inserted)' <= 1
                                                     /\ rows'[x] + Open(x, Appended)' <= 1
      BY <2>1, <2>2 DEF Once
    <2>5. phase' = "end" => rows' = NoRows'
      BY <1>1, <2>1 DEF Once
    <2>6. QED
      BY <1>1, <2>3, <2>4, <2>5 DEF Once
  <1>10. QED
    BY <1>2, <1>3, <1>4, <1>7, <1>8, <1>9
-----------------------------------------------------------------------------
\* The actions that leave memory and stores alone.

\* A fetch of either program takes messages that have no row to come but one.
LEMMA FetchStep ==
    ASSUME CandleSinksInv, FetchParquet \/ FetchCandles
    PROVE  CandleSinksInv'
  <1> USE DEF CandleSinksInv
  <1>1. PICK msgs \in SUBSET avail :
            \/ /\ prog = "parquet" /\ phase' = "append" /\ fetched' = fetched
               /\ todo' = msgs /\ msgs # {} /\ avail' = avail \ msgs
            \/ /\ prog = "candles"
               /\ fetched' = msgs \cap Candles /\ todo' = fetched'
               /\ avail' = (avail \ msgs) \cup (msgs \ Candles)
               /\ phase' = IF fetched' = {} THEN "fetch" ELSE "insert"
    BY DEF FetchParquet, FetchCandles, Fetchable
  <1>2. /\ phase = "fetch"
        /\ UNCHANGED <<prog, stream, acking, acked, durable, resets, memory, stores, stops, cuts, faults, drops>>
        /\ fetched = {} /\ todo = {} /\ acking = {}
    BY DEF FetchParquet, FetchCandles, Roles, counters
  <1>3. Messages' = Messages /\ Candles' = Candles /\ avail \subseteq Messages
    BY <1>2, SameStream DEF TypeOK
  <1>4. TypeOK'
    BY <1>1, <1>2, <1>3 DEF TypeOK, memory, stores
  <1>5. Roles'
    BY <1>1, <1>2 DEF Roles
  <1>6. Apart'
    BY <1>1, <1>2 DEF Apart
  <1>7. Inserted = {} /\ Appended = {} /\ Inserted' = {} /\ Appended' = {}
    BY <1>1, <1>2 DEF Inserted, Appended
  <1>8. MemoryBounded' /\ LossBounded' /\ Stored' /\ FewHeld' /\ RoomLeft' /\ Once'
    <2>1. /\ faults' \in Nat /\ faults' >= faults /\ phase' # "end"
          /\ prog = "candles" => phase' \notin {"append", "ack"}
      BY <1>1, <1>2, RowTypes
    <2>2. QED
      BY <1>2, <1>7, <2>1, Quiet
  <1>9. QED
    BY <1>4, <1>5, <1>6, <1>8

\* Run leaves its loop: a fetch failed, a message cannot be decoded, or the
\* program is told to stop.
LEMMA LeaveStep ==
    ASSUME CandleSinksInv, FetchFails \/ HandleBad \/ Stop
    PROVE  CandleSinksInv'
  <1> USE DEF CandleSinksInv
  <1>1. /\ UNCHANGED <<prog, stream, acked, durable, resets, memory, stores, cuts, drops>>
        /\ phase' = "exit" /\ fetched' = {} /\ todo' = {} /\ acking' = {}
        /\ phase = "fetch" \/ (phase = "append" /\ prog = "parquet")
    BY DEF FetchFails, HandleBad, Stop, Idle, Roles, consumer, work, counters, Fault
  <1>2. avail' = avail \/ (avail' = avail \cup {Min(todo)} /\ phase = "append")
    BY DEF FetchFails, HandleBad, Stop, Nak, consumer
  <1>3. /\ faults' = faults \/ (faults < MaxFaults /\ faults' = faults + 1)
        /\ stops' = stops \/ (stops < MaxStops /\ stops' = stops + 1)
    BY DEF FetchFails, HandleBad, Stop, Fault, counters
  <1>4. phase = "append" => Min(todo) \in todo
    <2>1. phase = "append" => todo # {} /\ todo \subseteq Nat
      BY StreamFacts DEF TypeOK
    <2>2. QED
      BY <2>1, MinFacts
  <1>5. Messages' = Messages /\ Candles' = Candles
    BY <1>1, SameStream
  <1>6. /\ faults' \in 0..MaxFaults /\ stops' \in 0..MaxStops /\ faults' >= faults
        /\ faults' \in Nat /\ cuts' \in 0..stops'
    BY <1>1, <1>3, Numbers DEF TypeOK
  <1>7. avail' \subseteq Messages /\ avail' \cap acked = {}
    BY <1>2, <1>4 DEF TypeOK, Apart
  <1>8. TypeOK'
    BY <1>1, <1>5, <1>6, <1>7 DEF TypeOK, memory, stores
  <1>9. Roles' /\ Apart'
    BY <1>1, <1>7 DEF Roles, Apart
  <1>10. Inserted = {} /\ Appended = {} /\ Inserted' = {} /\ Appended' = {}
    BY <1>1 DEF Inserted, Appended, Roles
  <1>11. MemoryBounded' /\ LossBounded' /\ Stored' /\ FewHeld' /\ RoomLeft' /\ Once'
    <2>1. phase' \notin {"end", "append", "ack"}
      BY <1>1
    <2>2. QED
      BY <1>1, <1>6, <1>10, <2>1, Quiet
  <1>12. QED
    BY <1>8, <1>9, <1>11

\* An acknowledgement arrives, or is lost: then the message may come again.
LEMMA AckStep ==
    ASSUME CandleSinksInv, Ack
    PROVE  CandleSinksInv'
  <1> USE DEF CandleSinksInv
  <1> DEFINE m == Min(acking)
  <1>1. /\ phase = "ack" /\ acking' = acking \ {m}
        /\ phase' = IF acking # {m} THEN "ack" ELSE IF todo = {} THEN "fetch" ELSE "append"
        /\ fetched' = IF acking # {m} THEN fetched ELSE {}
        /\ UNCHANGED <<prog, stream, todo, avail, durable, resets, memory, stores, stops, cuts, drops>>
        /\ \/ acked' = acked \cup {m} /\ faults' = faults
           \/ acked' = acked /\ faults < MaxFaults /\ faults' = faults + 1
    BY DEF Ack, Fault, counters
  <1>2. m \in acking /\ m \in Messages
    <2>1. acking # {} /\ acking \subseteq Messages /\ Messages \subseteq Nat
      BY <1>1, StreamFacts DEF TypeOK
    <2>2. QED
      BY <2>1, MinFacts
  <1> HIDE DEF m
  <1>3. Messages' = Messages /\ Candles' = Candles
    BY <1>1, SameStream
  <1>4. faults' \in 0..MaxFaults /\ faults' >= faults /\ faults' \in Nat
    BY <1>1, Numbers DEF TypeOK
  <1>5. TypeOK'
    <2>1. /\ fetched' \subseteq Candles' /\ todo' \cup acking' \cup avail' \cup acked' \subseteq Messages'
          /\ phase' \in {"insert", "append"} => todo' # {}
          /\ phase' = "ack" => acking' # {}
          /\ phase' \in {"fetch", "insert", "append", "ack", "exit", "end", "down"}
      BY <1>1, <1>2, <1>3 DEF TypeOK
    <2>2. QED
      BY <1>1, <1>3, <1>4, <2>1 DEF TypeOK, memory, stores
  <1>6. Roles'
    BY <1>1, <1>2 DEF Roles
  <1>7. Apart'
    BY <1>1, <1>2 DEF Apart
  <1>8. /\ Inserted = acking /\ Appended = acking
        /\ Inserted' = acking \ {m} /\ Appended' = acking \ {m}
    BY <1>1, <1>2 DEF Inserted, Appended
  <1>9. MemoryBounded' /\ LossBounded' /\ Stored' /\ FewHeld' /\ RoomLeft' /\ Once'
    <2>1. phase' # "end" /\ phase \notin {"exit", "end"} /\ phase \in {"append", "ack"}
      BY <1>1
    <2>2. acked' \subseteq acked \cup acking /\ Inserted' \subseteq Inserted /\ Appended' \subseteq Appended
      BY <1>1, <1>2, <1>8
    <2>3. faults' = 0 => acked' = acked \cup {m}
      BY <1>1, RowTypes
    <2>4. faults' = 0 => /\ acked' \cup Inserted' = acked \cup Inserted
                         /\ acked' \cup Appended' = acked \cup Appended
      BY <1>2, <1>8, <2>3
    <2>5. QED
      BY <1>1, <1>4, <2>1, <2>2, <2>4, Quiet
  <1>10. QED
    BY <1>5, <1>6, <1>7, <1>9

\* A stopped program is started, and a message is delivered again.
LEMMA AgainStep ==
    ASSUME CandleSinksInv, Restart \/ Redeliver
    PROVE  CandleSinksInv'
  <1> USE DEF CandleSinksInv
  <1>1. /\ UNCHANGED <<prog, stream, acked, resets, memory, stores, stops, cuts, faults, drops>>
        /\ fetched' = fetched /\ todo' = todo /\ acking' = acking
        /\ durable' \in {"own", "found", "gone"}
        /\ \/ phase = "down" /\ phase' = "fetch" /\ avail' = avail
           \/ /\ phase' = phase
              /\ \E m \in Messages \ (avail \cup acked \cup fetched \cup todo \cup acking) :
                    avail' = avail \cup {m}
    BY DEF Restart, Redeliver, work, counters, TypeOK
  <1>2. Messages' = Messages /\ Candles' = Candles
    BY <1>1, SameStream
  <1>3. TypeOK'
    <2>1. avail' \subseteq Messages
      BY <1>1 DEF TypeOK
    <2>2. QED
      BY <1>1, <1>2, <2>1 DEF TypeOK, memory, stores
  <1>4. Roles' /\ Apart'
    BY <1>1 DEF Roles, Apart
  <1>5. Inserted' = Inserted /\ Appended' = Appended
    BY <1>1 DEF Inserted, Appended, Roles
  <1>6. MemoryBounded' /\ LossBounded' /\ Stored' /\ FewHeld' /\ RoomLeft' /\ Once'
    <2>1. /\ faults' \in Nat /\ faults' >= faults /\ (phase' = "end" => phase = "end")
          /\ phase' \notin {"exit", "end"} => phase \notin {"exit", "end"}
          /\ phase' \in {"append", "ack"} => phase \in {"append", "ack"}
      BY <1>1, RowTypes
    <2>2. QED
      BY <1>1, <1>5, <2>1, Quiet
  <1>7. QED
    BY <1>3, <1>4, <1>6
-----------------------------------------------------------------------------
\* The actions that write.

\* A write failed: what was being worked on is given up, and part of it given
\* back to the consumer.  No row disappears; a shutdown that cut the write adds
\* at most two copies of a row.
LEMMA GivenUp ==
    ASSUME CandleSinksInv, UNCHANGED <<prog, stream, acked, durable, resets, drops>>,
           phase' \in {"fetch", "exit", "end"}, fetched' = {}, todo' = {}, acking' = {},
           avail' \subseteq Messages, avail' \cap acked = {},
           faults' \in 0..MaxFaults, stops' \in 0..MaxStops, cuts' \in 0..stops',
           \/ faults' = faults + 1 /\ cuts' = cuts
           \/ faults' = faults /\ cuts' = cuts + 1 /\ phase' = "exit",
           batch' \in Rows, rows' \in Rows, table' \in Rows, objects' \in Rows,
           \A x \in Messages :
               /\ batch'[x] > 0 \/ rows'[x] > 0 => x \in Candles
               /\ table'[x] + batch'[x] >= table[x] + batch[x]
               /\ objects'[x] + rows'[x] >= objects[x] + rows[x]
               /\ faults' = 0 =>
                     /\ table'[x] + batch'[x] + Open(x, {}) <= table[x] + batch[x] + Open(x, Inserted) + 2
                     /\ objects'[x] + rows'[x] + Open(x, {}) <= objects[x] + rows[x] + Open(x, Appended) + 2,
           \A x \in acked : /\ batch'[x] > 0 => batch[x] > 0
                            /\ rows'[x] > 0 => rows[x] > 0,
           Total(batch', Messages) <= BatchSize - 1 + faults + cuts + 1,
           \A b \in Buckets : Total(rows', In(b)) <= BatchRows - 1 + faults + cuts + 1
    PROVE  CandleSinksInv'
  <1> USE DEF CandleSinksInv
  <1>1. /\ Messages' = Messages /\ Candles' = Candles /\ \A b : In(b)' = In(b)
    BY SameStream
  <1>2. TypeOK'
    BY <1>1 DEF TypeOK, Rows
  <1>3. MemoryBounded'
    <2>1. faults \in Nat /\ cuts \in Nat /\ BatchSize \in Nat /\ BatchRows \in Nat
      BY RowTypes, Numbers
    <2>2. \A s \in Nat : s - 1 + faults + cuts + 1 = s - 1 + faults' + cuts'
      <3>1. CASE faults' = faults + 1 /\ cuts' = cuts
        BY <2>1, <3>1
      <3>2. CASE faults' = faults /\ cuts' = cuts + 1
        BY <2>1, <3>2
      <3>3. QED
        BY <3>1, <3>2
    <2>3. QED
      BY <1>1, <2>1, <2>2 DEF MemoryBounded
  <1>4. Roles' /\ Apart'
    BY DEF Roles, Apart
  <1>5. Inserted' = {} /\ Appended' = {}
    BY DEF Inserted, Appended
  <1>6. /\ LossBounded' /\ FewHeld'
        /\ Lost(objects, rows) = {} => Lost(objects, rows)' = {}
    BY WriteKeeps
  <1>7. RoomLeft'
    BY <1>5 DEF RoomLeft
  <1>8. Stored'
    <2>1. \A x \in Messages : batch'[x] + rows'[x] > 0 => x \in Candles
      <3> SUFFICES ASSUME NEW x \in Messages, batch'[x] + rows'[x] > 0 PROVE x \in Candles
        OBVIOUS
      <3>1. batch'[x] \in Nat /\ rows'[x] \in Nat
        BY DEF Rows
      <3>2. QED
        BY <3>1
    <2>2. QED
      BY <1>1, <1>5, <2>1 DEF Stored
  <1>9. Once'
    <2> SUFFICES ASSUME faults' = 0 PROVE Once'
      BY DEF Once
    <2>1. faults = 0 /\ cuts' = cuts + 1 /\ phase' = "exit"
      BY RowTypes
    <2>2. ASSUME NEW x \in Messages
          PROVE  /\ table'[x] + batch'[x] + Open(x, Inserted)' <= 1 + 2 * cuts' + resets'
                 /\ objects'[x] + rows'[x] + Open(x, Appended)' <= 1 + 2 * cuts' + resets'
      <3>1. Open(x, Inserted)' = Open(x, {}) /\ Open(x, Appended)' = Open(x, {})
        BY <1>5 DEF Open
      <3>2. /\ batch[x] \in Nat /\ rows[x] \in Nat /\ table[x] \in Nat /\ objects[x] \in Nat
            /\ batch'[x] \in Nat /\ rows'[x] \in Nat /\ table'[x] \in Nat /\ objects'[x] \in Nat
            /\ cuts \in Nat /\ resets \in Nat
        BY RowTypes DEF Rows
      <3>3. Open(x, {}) \in Nat /\ Open(x, Inserted) \in Nat /\ Open(x, Appended) \in Nat
        BY OpenFacts
      <3>4. /\ table[x] + batch[x] + Open(x, Inserted) <= 1 + 2 * cuts + resets
            /\ objects[x] + rows[x] + Open(x, Appended) <= 1 + 2 * cuts + resets
        BY <2>1 DEF Once
      <3>5. /\ table'[x] + batch'[x] + Open(x, {}) <= table[x] + batch[x] + Open(x, Inserted) + 2
            /\ objects'[x] + rows'[x] + Open(x, {}) <= objects[x] + rows[x] + Open(x, Appended) + 2
        OBVIOUS
      <3>6. QED
        BY <2>1, <3>1, <3>2, <3>3, <3>4, <3>5
    <2>3. Lost(objects, rows)' = {}
      BY <1>6, <2>1 DEF Once
    <2>4. QED
      BY <1>1, <2>1, <2>2, <2>3 DEF Once
  <1>10. QED
    BY <1>2, <1>3, <1>4, <1>6, <1>7, <1>8, <1>9

\* A row in memory is a candle's.
LEMMA HeldAreCandles ==
    ASSUME CandleSinksInv, NEW x \in Messages, batch[x] > 0 \/ rows[x] > 0
    PROVE  x \in Candles
  BY RowTypes DEF CandleSinksInv, Stored

\* A write that was cut and yet stored, with the row that stays in memory and
\* the one that may come again.
LEMMA CutAdds ==
    ASSUME NEW o \in Nat, NEW r \in Nat, NEW t \in Nat,
           NEW one \in {0, 1}, NEW open \in {0, 1}, NEW all \in {0, 1},
           t <= o + 2 * (r + one), r + open <= 1, one = 1 => open = 1
    PROVE  t + all <= o + r + open + 2
  <1>1. CASE one = 1
    BY <1>1
  <1>2. CASE one = 0
    BY <1>2
  <1>3. QED
    BY <1>1, <1>2

\* The message that is next is a candle that has no row yet.
LEMMA NextCandle ==
    ASSUME CandleSinksInv, phase \in {"insert", "append"}, stream[Min(todo)] # Bad
    PROVE  /\ Min(todo) \in todo /\ Min(todo) \in Candles /\ Min(todo) \in Messages
           /\ Min(todo) \notin acked
  <1>1. todo # {} /\ todo \subseteq Messages /\ Messages \subseteq Nat
    BY StreamFacts DEF CandleSinksInv, TypeOK
  <1>2. Min(todo) \in todo
    BY <1>1, MinFacts
  <1>3. QED
    BY <1>1, <1>2 DEF Candles, CandleSinksInv, Apart

\* The next message of Process was decoded, so it is a candle.
LEMMA NextDecoded ==
    ASSUME CandleSinksInv, prog = "candles", phase \in {"insert", "append"}
    PROVE  /\ Min(todo) \in todo /\ Min(todo) \in Candles /\ Min(todo) \in Messages
           /\ Min(todo) \notin acked
  <1>1. todo # {} /\ todo \subseteq Candles /\ todo \subseteq Nat
    BY StreamFacts DEF CandleSinksInv, TypeOK, Roles, Candles
  <1>2. Min(todo) \in todo
    BY <1>1, MinFacts
  <1>3. QED
    BY <1>1, <1>2 DEF Candles, CandleSinksInv, Apart

\* AppendCandle took a row, in either program.
LEMMA Appending ==
    ASSUME CandleSinksInv, phase = "append", NEW m \in todo, m \in Candles, m \notin acked,
           AppendOk(m), UNCHANGED <<prog, stream, acked, resets, cuts, faults, batch, table, drops>>,
           phase' \in {"append", "ack"},
           prog = "candles" => Inserted' = Inserted,
           prog = "parquet" => Inserted = {},
           m \notin Appended, Appended' = Appended \cup {m}
    PROVE  /\ rows' \in Rows /\ objects' \in Rows
           /\ MemoryBounded' /\ LossBounded' /\ Stored' /\ FewHeld' /\ RoomLeft' /\ Once'
  <1> USE DEF CandleSinksInv
  <1>1. m \in Messages /\ prog \in {"candles", "parquet"}
    BY DEF Candles, Roles
  <1>2. /\ Messages' = Messages /\ Candles' = Candles /\ \A b : In(b)' = In(b)
    BY SameStream
  <1>3. /\ rows' \in Rows /\ objects' \in Rows
        /\ \A x \in Messages :
              /\ rows'[x] <= rows[x] + (IF x = m THEN 1 ELSE 0)
              /\ objects'[x] + rows'[x] = objects[x] + rows[x] + (IF x = m THEN 1 ELSE 0)
              /\ rows'[x] > 0 =>
                    \/ Total(rows', In(stream[x])) <= BatchRows - 1
                    \/ x # m /\ Total(rows', In(stream[x])) = Total(rows, In(stream[x]))
        /\ \A b \in Buckets : Total(rows', In(b)) <= BatchRows - 1 + faults + cuts
    BY AppendOkFacts
  <1>4. \A x \in Messages : /\ batch[x] \in Nat /\ rows[x] \in Nat /\ objects[x] \in Nat /\ table[x] \in Nat
                            /\ rows'[x] \in Nat /\ objects'[x] \in Nat
    BY <1>3, RowTypes DEF Rows
  <1>5. \A x \in Messages : rows'[x] > 0 => rows[x] > 0 \/ x = m
    BY <1>3, <1>4
  <1>6. MemoryBounded'
    BY <1>2, <1>3 DEF MemoryBounded
  <1>7. /\ LossBounded' /\ FewHeld'
        /\ Lost(objects, rows) = {} => Lost(objects, rows)' = {}
    <2>1. \A x \in Messages : /\ table'[x] + batch'[x] >= table[x] + batch[x]
                              /\ objects'[x] + rows'[x] >= objects[x] + rows[x]
      BY <1>3, <1>4
    <2>2. \A x \in acked : /\ batch'[x] > 0 => batch[x] > 0
                           /\ rows'[x] > 0 => rows[x] > 0
      BY <1>5 DEF TypeOK
    <2>3. batch' \in Rows /\ table' \in Rows
      BY RowTypes
    <2>4. QED
      BY <1>3, <2>1, <2>2, <2>3, WriteKeeps
  <1>8. RoomLeft'
    <2>1. \A x \in Appended' : rows'[x] > 0 => Total(rows', In(stream[x])) <= BatchRows - 1
      <3> SUFFICES ASSUME NEW x \in Appended \cup {m}, rows'[x] > 0
                   PROVE  Total(rows', In(stream[x])) <= BatchRows - 1
        OBVIOUS
      <3>1. x \in Messages
        BY <1>1 DEF Appended, TypeOK, Candles
      <3>2. CASE Total(rows', In(stream[x])) <= BatchRows - 1
        BY <3>2
      <3>3. CASE x # m /\ Total(rows', In(stream[x])) = Total(rows, In(stream[x]))
        <4>1. rows[x] > 0 /\ x \in Appended
          BY <1>5, <3>1, <3>3
        <4>2. QED
          BY <3>3, <4>1 DEF RoomLeft
      <3>4. QED
        BY <1>3, <3>1, <3>2, <3>3
    <2>2. prog = "candles" => Total(batch, Messages) <= BatchSize - 1
      BY DEF RoomLeft
    <2>3. QED
      BY <1>2, <2>1, <2>2 DEF RoomLeft
  <1>9. Stored'
    <2> SUFFICES ASSUME NEW x \in Messages
                 PROVE  /\ batch[x] + rows'[x] > 0 => x \in Candles
                        /\ prog = "candles" /\ x \in Inserted => table[x] + batch[x] > 0
                        /\ x \in Appended \cup {m} => objects'[x] + rows'[x] > 0
      BY <1>2 DEF Stored
    <2>1. batch[x] + rows'[x] > 0 => x \in Candles
      BY <1>4, <1>5, HeldAreCandles
    <2>2. /\ prog = "candles" /\ x \in Inserted => table[x] + batch[x] > 0
          /\ x \in Appended => objects[x] + rows[x] > 0
      BY DEF Stored
    <2>3. QED
      BY <1>3, <1>4, <2>1, <2>2
  <1>10. Once'
    <2> SUFFICES ASSUME faults = 0 PROVE Once'
      BY DEF Once
    <2>1. ASSUME NEW x \in Messages
          PROVE  /\ table'[x] + batch'[x] + Open(x, Inserted)' <= 1 + 2 * cuts' + resets'
                 /\ objects'[x] + rows'[x] + Open(x, Appended)' <= 1 + 2 * cuts' + resets'
                 /\ batch'[x] + Open(x, Inserted)' <= 1
                 /\ rows'[x] + Open(x, Appended)' <= 1
      <3> DEFINE oi == Open(x, Inserted)
                 oa == Open(x, Appended)
      <3>1. oi \in {0, 1} /\ oa \in {0, 1} /\ (x = m => oa = 1)
        BY OpenFacts
      <3>2. oi' \in {0, 1} /\ oi' <= oi
        <4>1. CASE prog = "candles"
          BY <4>1 DEF Open
        <4>2. CASE prog = "parquet"
          BY <4>2 DEF Open
        <4>3. QED
          BY <1>1, <4>1, <4>2
      <3>3. oa' = IF x = m THEN 0 ELSE oa
        BY DEF Open
      <3>4. /\ table[x] + batch[x] + oi <= 1 + 2 * cuts + resets
            /\ objects[x] + rows[x] + oa <= 1 + 2 * cuts + resets
            /\ batch[x] + oi <= 1 /\ rows[x] + oa <= 1
        BY DEF Once
      <3> HIDE DEF oi, oa
      <3>5. cuts \in Nat /\ resets \in Nat
        BY RowTypes
      <3>6. /\ table[x] + batch[x] + oi' <= 1 + 2 * cuts + resets
            /\ batch[x] + oi' <= 1
        BY <1>4, <3>1, <3>2, <3>4, <3>5
      <3>7. /\ objects'[x] + rows'[x] + oa' <= 1 + 2 * cuts + resets
            /\ rows'[x] + oa' <= 1
        <4>1. CASE x = m
          BY <1>3, <1>4, <3>1, <3>3, <3>4, <3>5, <4>1
        <4>2. CASE x # m
          BY <1>3, <1>4, <3>1, <3>3, <3>4, <3>5, <4>2
        <4>3. QED
          BY <4>1, <4>2
      <3>8. QED
        BY <3>6, <3>7 DEF oi, oa
    <2>2. Lost(objects, rows)' = {} /\ phase' # "end"
      BY <1>7 DEF Once
    <2>3. QED
      BY <1>2, <2>1, <2>2 DEF Once
  <1>11. QED
    BY <1>3, <1>6, <1>7, <1>8, <1>9, <1>10

\* AppendCandle failed, in either program: the messages in hand are given up.
LEMMA AppendGivenUp ==
    ASSUME CandleSinksInv, phase = "append", NEW m \in todo, m \in Candles, m \notin acked, m \notin Appended,
           AppendFails(m), UNCHANGED <<prog, stream, acked, durable, resets, batch, table, drops>>,
           NEW then \in {"fetch", "exit"}, WriteFailed(then),
           fetched' = {}, todo' = {}, acking' = {}, avail' \subseteq Messages, avail' \cap acked = {}
    PROVE  CandleSinksInv'
  <1> USE DEF CandleSinksInv
  <1>1. /\ rows' \in Rows /\ objects' \in Rows
        /\ \A x \in Messages :
              /\ rows'[x] > 0 => rows[x] > 0 \/ x = m
              /\ objects'[x] + rows'[x] >= objects[x] + rows[x]
              /\ objects'[x] + rows'[x] <= objects[x] + 2 * (rows[x] + (IF x = m THEN 1 ELSE 0))
        /\ \A b \in Buckets : Total(rows', In(b)) <= BatchRows - 1 + faults + cuts + 1
    BY AppendFailsFacts
  <1>2. /\ \/ faults' = faults + 1 /\ cuts' = cuts
           \/ faults' = faults /\ cuts' = cuts + 1 /\ phase' = "exit"
        /\ phase' \in {"fetch", "exit", "end"}
        /\ faults' \in 0..MaxFaults /\ stops' \in 0..MaxStops /\ cuts' \in 0..stops'
    BY WriteFailedFacts
  <1>3. batch' \in Rows /\ table' \in Rows
    BY RowTypes
  <1>4. ASSUME NEW x \in Messages
        PROVE  /\ batch'[x] > 0 \/ rows'[x] > 0 => x \in Candles
               /\ table'[x] + batch'[x] >= table[x] + batch[x]
               /\ faults' = 0 =>
                     /\ table'[x] + batch'[x] + Open(x, {}) <= table[x] + batch[x] + Open(x, Inserted) + 2
                     /\ objects'[x] + rows'[x] + Open(x, {}) <= objects[x] + rows[x] + Open(x, Appended) + 2
    <2>1. /\ batch[x] \in Nat /\ rows[x] \in Nat /\ table[x] \in Nat /\ objects[x] \in Nat
          /\ rows'[x] \in Nat /\ objects'[x] \in Nat /\ objects'[x] + rows'[x] \in Nat
      BY <1>1, RowTypes DEF Rows
    <2>2. batch[x] > 0 \/ rows'[x] > 0 => x \in Candles
      BY <1>1, HeldAreCandles
    <2>3. /\ Open(x, {}) \in {0, 1} /\ Open(x, Inserted) \in {0, 1} /\ Open(x, Appended) \in {0, 1}
          /\ x = m => Open(x, Appended) = 1
      BY OpenFacts
    <2>4. ASSUME faults' = 0
          PROVE  objects'[x] + rows'[x] + Open(x, {}) <= objects[x] + rows[x] + Open(x, Appended) + 2
      <3>1. faults = 0
        BY <1>2, <2>4, RowTypes
      <3>2. rows[x] + Open(x, Appended) <= 1
        BY <3>1 DEF Once
      <3> DEFINE one == IF x = m THEN 1 ELSE 0
      <3>3. one \in {0, 1} /\ (one = 1 => Open(x, Appended) = 1)
        BY <2>3
      <3>4. objects'[x] + rows'[x] <= objects[x] + 2 * (rows[x] + one)
        BY <1>1
      <3> HIDE DEF one
      <3>5. QED
        BY <2>1, <2>3, <3>2, <3>3, <3>4, CutAdds
    <2>5. table[x] + batch[x] + Open(x, {}) <= table[x] + batch[x] + Open(x, Inserted) + 2
      BY <2>1, <2>3
    <2>6. QED
      BY <2>1, <2>2, <2>4, <2>5
  <1>5. \A x \in acked : (batch'[x] > 0 => batch[x] > 0) /\ (rows'[x] > 0 => rows[x] > 0)
    BY <1>1 DEF TypeOK
  <1>6. Total(batch', Messages) <= BatchSize - 1 + faults + cuts + 1
    <2>1. Total(batch, Messages) \in Nat /\ Total(batch, Messages) <= BatchSize - 1 + faults + cuts
      BY RowSums, RowTypes DEF MemoryBounded
    <2>2. QED
      BY <2>1, RowTypes, Numbers
  <1>7. QED
    BY <1>1, <1>2, <1>3, <1>4, <1>5, <1>6, GivenUp

\* handleMessage of the Parquet sink appends a candle.
LEMMA HandleCandleStep ==
    ASSUME CandleSinksInv, HandleCandle
    PROVE  CandleSinksInv'
  <1> USE DEF CandleSinksInv
  <1> DEFINE m == Min(todo)
  <1>1. /\ prog = "parquet" /\ phase = "append" /\ stream[m] # Bad
        /\ UNCHANGED <<prog, stream, acked, durable, resets, batch, table, drops>>
    BY DEF HandleCandle
  <1>2. m \in todo /\ m \in Candles /\ m \in Messages /\ m \notin acked
    BY <1>1, NextCandle
  <1>3. Messages' = Messages /\ Candles' = Candles
    BY <1>1, SameStream
  <1>4. Inserted = {} /\ Appended = {}
    BY <1>1 DEF Inserted, Appended, Roles
  <1>5. CASE /\ AppendOk(m) /\ phase' = "ack" /\ acking' = {m} /\ todo' = todo \ {m}
             /\ UNCHANGED <<fetched, avail, counters>>
    <2> HIDE DEF m
    <2>1. UNCHANGED <<stops, cuts, faults>>
      BY <1>5 DEF counters
    <2>2. Appended' = {m}
      BY <1>5 DEF Appended
    <2>3. /\ rows' \in Rows /\ objects' \in Rows
          /\ MemoryBounded' /\ LossBounded' /\ Stored' /\ FewHeld' /\ RoomLeft' /\ Once'
      BY <1>1, <1>2, <1>4, <1>5, <2>1, <2>2, Appending
    <2>4. TypeOK'
      BY <1>1, <1>2, <1>3, <1>5, <2>1, <2>3 DEF TypeOK, Rows
    <2>5. Roles' /\ Apart'
      BY <1>1, <1>2, <1>5 DEF Roles, Apart
    <2>6. QED
      BY <2>3, <2>4, <2>5
  <1>6. CASE AppendFails(m) /\ Nak({m}) /\ Idle /\ WriteFailed("exit")
    <2>1. /\ fetched' = {} /\ todo' = {} /\ acking' = {}
          /\ avail' \subseteq Messages /\ avail' \cap acked = {}
      BY <1>2, <1>6 DEF Idle, Nak, TypeOK, Apart
    <2> HIDE DEF m
    <2>2. QED
      BY <1>1, <1>2, <1>4, <1>6, <2>1, AppendGivenUp
  <1>7. QED
    BY <1>5, <1>6 DEF HandleCandle

\* The ticker flushes the buckets, or the deferred Close does.
LEMMA FlushStep ==
    ASSUME CandleSinksInv, Tick \/ Close
    PROVE  CandleSinksInv'
  <1> USE DEF CandleSinksInv
  <1>1. /\ phase \in {"fetch", "exit"} /\ fetched = {} /\ todo = {} /\ acking = {}
        /\ UNCHANGED <<prog, stream, work, consumer, batch, table, drops>>
    BY DEF Tick, Close, Roles
  <1>2. /\ fetched' = {} /\ todo' = {} /\ acking' = {} /\ avail' = avail /\ acked' = acked
        /\ durable' = durable /\ resets' = resets
        /\ avail \subseteq Messages /\ avail \cap acked = {}
    BY <1>1 DEF work, consumer, TypeOK, Apart
  <1>3. /\ Messages' = Messages /\ Candles' = Candles /\ NoRows' = NoRows /\ \A b : In(b)' = In(b)
    BY <1>1, SameStream
  <1>4. \A b \in Buckets : In(b) \in SUBSET Messages
    BY DEF In
  <1>5. Inserted = {} /\ Appended = {}
    BY <1>1 DEF Inserted, Appended
  <1>6. CASE /\ FlushOk(rows) /\ UNCHANGED counters
             /\ (phase' = "fetch" /\ phase = "fetch") \/ phase' = "end"
    <2>1. /\ rows' = NoRows /\ rows' \in Rows /\ objects' \in Rows
          /\ \A x \in Messages : rows'[x] = 0 /\ objects'[x] = objects[x] + rows[x]
          /\ \A S \in SUBSET Messages : Total(rows', S) = 0
      BY <1>6, FlushOkFacts, RowTypes
    <2>2. UNCHANGED <<stops, cuts, faults>> /\ batch' \in Rows /\ table' \in Rows
      BY <1>1, <1>6, RowTypes DEF counters
    <2>3. TypeOK'
      BY <1>1, <1>2, <1>3, <1>6, <2>1, <2>2 DEF TypeOK, Rows
    <2>4. MemoryBounded'
      <3>1. \A b \in Buckets : Total(rows', In(b)) <= BatchRows - 1 + faults + cuts
        BY <1>4, <2>1, RowTypes, Room
      <3>2. QED
        BY <1>1, <1>3, <2>2, <3>1 DEF MemoryBounded
    <2>5. Roles' /\ Apart'
      BY <1>1, <1>2, <1>6 DEF Roles, Apart
    <2>6. Inserted' = {} /\ Appended' = {}
      BY <1>2, <1>6 DEF Inserted, Appended
    <2>7. \A x \in Messages :
              /\ objects'[x] + rows'[x] = objects[x] + rows[x]
              /\ objects'[x] + rows'[x] >= objects[x] + rows[x]
              /\ table'[x] + batch'[x] >= table[x] + batch[x]
              /\ batch'[x] + rows'[x] > 0 => batch[x] + rows[x] > 0
      BY <1>1, <2>1, RowTypes
    <2>8. Stored' /\ RoomLeft'
      BY <1>1, <1>3, <1>6, <2>6, <2>7 DEF Stored, RoomLeft
    <2>9. /\ LossBounded' /\ FewHeld'
          /\ Lost(objects, rows) = {} => Lost(objects, rows)' = {}
      <3>1. \A x \in acked : (batch'[x] > 0 => batch[x] > 0) /\ (rows'[x] > 0 => rows[x] > 0)
        BY <1>1, <2>1 DEF TypeOK
      <3>2. QED
        BY <1>1, <1>2, <2>1, <2>2, <2>7, <3>1, WriteKeeps
    <2>10. Once'
      <3> SUFFICES ASSUME faults = 0 PROVE Once'
        BY <2>2 DEF Once
      <3>1. ASSUME NEW x \in Messages
            PROVE  /\ table'[x] + batch'[x] + Open(x, Inserted)' <= 1 + 2 * cuts' + resets'
                   /\ objects'[x] + rows'[x] + Open(x, Appended)' <= 1 + 2 * cuts' + resets'
                   /\ phase' \notin {"exit", "end"} => /\ batch'[x] + Open(x, Inserted)' <= 1
                                                       /\ rows'[x] + Open(x, Appended)' <= 1
        <4>1. /\ Open(x, Inserted)' = Open(x, Inserted) /\ Open(x, Appended)' = Open(x, Appended)
              /\ Open(x, Appended) \in {0, 1}
          BY <1>2, <1>5, <2>6 DEF Open
        <4>2. /\ table[x] + batch[x] + Open(x, Inserted) <= 1 + 2 * cuts + resets
              /\ objects[x] + rows[x] + Open(x, Appended) <= 1 + 2 * cuts + resets
              /\ phase = "fetch" => batch[x] + Open(x, Inserted) <= 1
          BY DEF Once
        <4>3. rows'[x] + Open(x, Appended)' <= 1
          BY <2>1, <4>1
        <4>4. QED
          BY <1>1, <1>2, <1>6, <2>2, <2>7, <4>1, <4>2, <4>3
      <3>2. Lost(objects, rows)' = {} /\ rows' = NoRows'
        BY <1>3, <2>1, <2>9 DEF Once
      <3>3. QED
        BY <1>3, <3>1, <3>2 DEF Once
    <2>11. QED
      BY <2>3, <2>4, <2>5, <2>8, <2>9, <2>10
  <1>7. CASE /\ FlushFails(rows)
             /\ \/ phase = "fetch" /\ WriteFailed("exit")
                \/ Fault /\ phase' = "end"
    <2>1. /\ rows' \in Rows /\ objects' \in Rows
          /\ \A x \in Messages : /\ rows'[x] > 0 => rows[x] > 0
                                 /\ objects'[x] + rows'[x] >= objects[x] + rows[x]
                                 /\ objects'[x] + rows'[x] <= objects[x] + rows[x] + rows[x]
          /\ \A S \in SUBSET Messages : Total(rows', S) <= Total(rows, S)
      BY <1>7, FlushFailsFacts, RowTypes
    <2>2. batch' \in Rows /\ table' \in Rows
      BY <1>1, RowTypes
    <2>3. /\ \/ faults' = faults + 1 /\ cuts' = cuts
             \/ faults' = faults /\ cuts' = cuts + 1 /\ phase' = "exit" /\ phase = "fetch"
          /\ phase' \in {"fetch", "exit", "end"}
          /\ faults' \in 0..MaxFaults /\ stops' \in 0..MaxStops /\ cuts' \in 0..stops'
      <3>1. CASE phase = "fetch" /\ WriteFailed("exit")
        BY <3>1, WriteFailedFacts
      <3>2. CASE Fault /\ phase' = "end"
        BY <3>2, Numbers DEF Fault, TypeOK
      <3>3. QED
        BY <1>7, <3>1, <3>2
    <2>4. ASSUME NEW x \in Messages
          PROVE  /\ batch'[x] > 0 \/ rows'[x] > 0 => x \in Candles
                 /\ table'[x] + batch'[x] >= table[x] + batch[x]
                 /\ objects'[x] + rows'[x] >= objects[x] + rows[x]
                 /\ faults' = 0 =>
                       /\ table'[x] + batch'[x] + Open(x, {}) <= table[x] + batch[x] + Open(x, Inserted) + 2
                       /\ objects'[x] + rows'[x] + Open(x, {}) <= objects[x] + rows[x] + Open(x, Appended) + 2
      <3>1. /\ batch[x] \in Nat /\ rows[x] \in Nat /\ table[x] \in Nat /\ objects[x] \in Nat
            /\ rows'[x] \in Nat /\ objects'[x] \in Nat /\ batch'[x] = batch[x] /\ table'[x] = table[x]
        BY <1>1, <2>1, RowTypes DEF Rows
      <3>2. batch[x] > 0 \/ rows'[x] > 0 => x \in Candles
        BY <2>1, HeldAreCandles
      <3>3. Open(x, {}) \in {0, 1} /\ Open(x, Inserted) = Open(x, {}) /\ Open(x, Appended) = Open(x, {})
        BY <1>5, OpenFacts
      <3>4. faults' = 0 => rows[x] + Open(x, Appended) <= 1
        <4> SUFFICES ASSUME faults' = 0 PROVE rows[x] + Open(x, Appended) <= 1
          OBVIOUS
        <4>1. faults = 0 /\ phase = "fetch"
          BY <2>3, RowTypes
        <4>2. QED
          BY <4>1 DEF Once
      <3>5. QED
        BY <2>1, <3>1, <3>2, <3>3, <3>4
    <2>5. \A x \in acked : (batch'[x] > 0 => batch[x] > 0) /\ (rows'[x] > 0 => rows[x] > 0)
      BY <1>1, <2>1 DEF TypeOK
    <2>6. Total(batch', Messages) <= BatchSize - 1 + faults + cuts + 1
      <3>1. Total(batch, Messages) \in Nat /\ Total(batch, Messages) <= BatchSize - 1 + faults + cuts
        BY RowSums, RowTypes DEF MemoryBounded
      <3>2. QED
        BY <1>1, <3>1, RowTypes, Numbers
    <2>7. ASSUME NEW b \in Buckets PROVE Total(rows', In(b)) <= BatchRows - 1 + faults + cuts + 1
      <3>1. /\ Total(rows, In(b)) \in Nat /\ Total(rows', In(b)) \in Nat
            /\ Total(rows', In(b)) <= Total(rows, In(b))
        BY <1>4, <2>1, RowSums, RowTypes
      <3>2. Total(rows, In(b)) <= BatchRows - 1 + faults + cuts
        BY DEF MemoryBounded
      <3>3. QED
        BY <3>1, <3>2, RowTypes, Numbers
    <2>8. QED
      BY <1>1, <1>2, <2>1, <2>2, <2>3, <2>4, <2>5, <2>6, <2>7, GivenUp
  <1>8. QED
    BY <1>6, <1>7 DEF Tick, Close

\* A row has gone through its phase of Process.
LEMMA AdvanceFacts ==
    ASSUME CandleSinksInv, prog = "candles", NEW m \in todo, NEW then,
           \/ phase = "insert" /\ then = "append"
           \/ phase = "append" /\ then = "ack",
           Advance(m, then), UNCHANGED <<prog, stream, acked>>
    PROVE  /\ Roles' /\ Apart'
           /\ phase' \in {phase, then}
           /\ phase' \in {"insert", "append"} => todo' # {}
           /\ phase' = "ack" => acking' # {}
           /\ fetched' = fetched /\ avail' = avail /\ UNCHANGED <<stops, cuts, faults>>
           /\ todo' \cup acking' \subseteq Messages
           /\ phase = "insert" => Inserted' = Inserted \cup {m} /\ Appended' = Appended
           /\ phase = "append" => Inserted' = Inserted /\ Appended' = Appended \cup {m}
  <1> USE DEF CandleSinksInv
  <1>1. /\ fetched' = fetched /\ avail' = avail /\ acking = {} /\ UNCHANGED <<stops, cuts, faults>>
        /\ todo \subseteq fetched /\ fetched \subseteq Messages
    BY DEF Advance, Roles, TypeOK, Candles, counters
  <1>2. CASE todo # {m}
    <2>1. todo' = todo \ {m} /\ phase' = phase /\ acking' = {}
      BY <1>2 DEF Advance
    <2>2. Roles' /\ Apart'
      BY <1>1, <2>1 DEF Roles, Apart
    <2>3. QED
      BY <1>1, <1>2, <2>1, <2>2 DEF Inserted, Appended
  <1>3. CASE todo = {m} /\ phase = "insert"
    <2>1. todo' = fetched /\ phase' = "append" /\ acking' = {}
      BY <1>3 DEF Advance
    <2>2. Roles' /\ Apart'
      BY <1>1, <1>3, <2>1 DEF Roles, Apart
    <2>3. QED
      BY <1>1, <1>3, <2>1, <2>2 DEF Inserted, Appended
  <1>4. CASE todo = {m} /\ phase = "append"
    <2>1. todo' = {} /\ phase' = "ack" /\ acking' = fetched
      BY <1>4 DEF Advance
    <2>2. Roles' /\ Apart'
      BY <1>1, <1>4, <2>1 DEF Roles, Apart
    <2>3. QED
      BY <1>1, <1>4, <2>1, <2>2 DEF Inserted, Appended
  <1>5. QED
    BY <1>2, <1>3, <1>4

\* Process gives back what it decoded.
LEMMA AbandonFacts ==
    ASSUME CandleSinksInv, phase \in {"insert", "append"}, Abandon
    PROVE  /\ WriteFailed("fetch") /\ fetched' = {} /\ todo' = {} /\ acking' = {}
           /\ avail' \subseteq Messages /\ avail' \cap acked = {}
  BY DEF Abandon, Nak, Idle, CandleSinksInv, TypeOK, Apart, Candles

\* WriteCandles takes a candle, with or without an insert, or the insert fails.
LEMMA WriteCandleStep ==
    ASSUME CandleSinksInv, WriteCandle
    PROVE  CandleSinksInv'
  <1> USE DEF CandleSinksInv
  <1> DEFINE m == Min(todo)
             new == OneMore(batch, m)
  <1>1. /\ prog = "candles" /\ phase = "insert"
        /\ UNCHANGED <<prog, stream, acked, durable, resets, rows, objects, drops>>
    BY DEF WriteCandle
  <1>2. m \in todo /\ m \in Candles /\ m \in Messages /\ m \notin acked
    BY <1>1, NextDecoded
  <1>3. /\ new \in Rows
        /\ \A x \in Messages : new[x] = IF x = m THEN batch[x] + 1 ELSE batch[x]
        /\ Total(new, Messages) = Total(batch, Messages) + 1
        /\ Total(batch, Messages) \in Nat
    BY <1>2, OneMoreFacts, RowSums, RowTypes
  <1>4. /\ Messages' = Messages /\ Candles' = Candles /\ \A b : In(b)' = In(b)
    BY <1>1, SameStream
  <1>5. NoRows \in Rows /\ (\A x \in Messages : NoRows[x] = 0) /\ Total(NoRows, Messages) = 0
    <2>1. NoRows \in Rows /\ \A x \in Messages : NoRows[x] = 0
      BY DEF NoRows, Rows
    <2>2. QED
      BY <2>1, RowSums
  <1>6. /\ Plus(table, new) \in Rows
        /\ \A x \in Messages : Plus(table, new)[x] = table[x] + new[x]
    BY <1>3, RowTypes DEF Plus, Rows
  <1>7. Appended = {} /\ m \notin Inserted
    BY <1>1, <1>2 DEF Inserted, Appended, Roles
  <1>8. CASE /\ Advance(m, "append")
             /\ \/ batch' = new /\ table' = table /\ Total(new, Messages) < BatchSize
                \/ batch' = NoRows /\ table' = Plus(table, new)
    <2> HIDE DEF m, new
    <2>1. /\ Roles' /\ Apart'
          /\ phase' \in {"insert", "append"} /\ todo' # {}
          /\ fetched' = fetched /\ avail' = avail /\ UNCHANGED <<stops, cuts, faults>>
          /\ todo' \cup acking' \subseteq Messages
          /\ Inserted' = Inserted \cup {m} /\ Appended' = Appended
      BY <1>1, <1>2, <1>8, AdvanceFacts
    <2>2. batch' \in Rows /\ table' \in Rows /\ rows' \in Rows /\ objects' \in Rows
      BY <1>1, <1>3, <1>5, <1>6, <1>8, RowTypes
    <2>3. TypeOK'
      BY <1>1, <1>4, <2>1, <2>2 DEF TypeOK, Rows
    <2>4. Total(batch', Messages) <= BatchSize - 1
      BY <1>3, <1>5, <1>8, Numbers
    <2>5. MemoryBounded'
      <3>1. Total(batch', Messages) \in Nat
        BY <2>2, RowSums
      <3>2. Total(batch', Messages) <= BatchSize - 1 + faults + cuts
        BY <2>4, <3>1, RowTypes, Numbers
      <3>3. QED
        BY <1>1, <1>4, <2>1, <3>2 DEF MemoryBounded
    <2>6. \A x \in Messages :
              /\ table'[x] + batch'[x] = table[x] + batch[x] + (IF x = m THEN 1 ELSE 0)
              /\ batch'[x] <= batch[x] + (IF x = m THEN 1 ELSE 0)
      BY <1>3, <1>5, <1>6, <1>8, RowTypes
    <2>7. \A x \in Messages : /\ batch[x] \in Nat /\ rows[x] \in Nat /\ table[x] \in Nat /\ objects[x] \in Nat
                              /\ batch'[x] \in Nat /\ table'[x] \in Nat
                              /\ rows'[x] = rows[x] /\ objects'[x] = objects[x]
      BY <1>1, <2>2, RowTypes DEF Rows
    <2>8. \A x \in Messages : batch'[x] > 0 => batch[x] > 0 \/ x = m
      BY <2>6, <2>7
    <2>9. /\ LossBounded' /\ FewHeld'
          /\ Lost(objects, rows) = {} => Lost(objects, rows)' = {}
      <3>1. \A x \in Messages : /\ table'[x] + batch'[x] >= table[x] + batch[x]
                                /\ objects'[x] + rows'[x] >= objects[x] + rows[x]
        BY <2>6, <2>7
      <3>2. \A x \in acked : (batch'[x] > 0 => batch[x] > 0) /\ (rows'[x] > 0 => rows[x] > 0)
        BY <1>1, <1>2, <2>8 DEF TypeOK
      <3>3. QED
        BY <1>1, <2>2, <3>1, <3>2, WriteKeeps
    <2>10. RoomLeft'
      BY <1>4, <1>7, <2>1, <2>4 DEF RoomLeft
    <2>11. Stored'
      <3> SUFFICES ASSUME NEW x \in Messages
                   PROVE  /\ batch'[x] + rows[x] > 0 => x \in Candles
                          /\ x \in Inserted \cup {m} => table'[x] + batch'[x] > 0
        BY <1>1, <1>4, <1>7, <2>1 DEF Stored
      <3>1. batch'[x] + rows[x] > 0 => x \in Candles
        BY <1>2, <2>7, <2>8, HeldAreCandles
      <3>2. x \in Inserted => table[x] + batch[x] > 0
        BY <1>1 DEF Stored
      <3>3. QED
        BY <2>6, <2>7, <3>1, <3>2
    <2>12. Once'
      <3> SUFFICES ASSUME faults = 0 PROVE Once'
        BY <2>1 DEF Once
      <3>1. ASSUME NEW x \in Messages
            PROVE  /\ table'[x] + batch'[x] + Open(x, Inserted)' <= 1 + 2 * cuts' + resets'
                   /\ objects'[x] + rows'[x] + Open(x, Appended)' <= 1 + 2 * cuts' + resets'
                   /\ batch'[x] + Open(x, Inserted)' <= 1
                   /\ rows'[x] + Open(x, Appended)' <= 1
        <4> DEFINE oi == Open(x, Inserted)
                   oa == Open(x, Appended)
        <4>1. oi \in {0, 1} /\ oa \in {0, 1} /\ (x = m => oi = 1)
          BY <1>2, <1>7, OpenFacts
        <4>2. oa' = oa /\ oi' = IF x = m THEN 0 ELSE oi
          BY <1>1, <2>1 DEF Open
        <4>3. /\ table[x] + batch[x] + oi <= 1 + 2 * cuts + resets
              /\ objects[x] + rows[x] + oa <= 1 + 2 * cuts + resets
              /\ batch[x] + oi <= 1 /\ rows[x] + oa <= 1
          BY <1>1 DEF Once
        <4> HIDE DEF oi, oa
        <4>4. cuts \in Nat /\ resets \in Nat
          BY RowTypes
        <4>5. /\ table'[x] + batch'[x] + oi' <= 1 + 2 * cuts + resets
              /\ batch'[x] + oi' <= 1
          <5>1. CASE x = m
            BY <2>6, <2>7, <4>1, <4>2, <4>3, <4>4, <5>1
          <5>2. CASE x # m
            BY <2>6, <2>7, <4>1, <4>2, <4>3, <4>4, <5>2
          <5>3. QED
            BY <5>1, <5>2
        <4>6. objects'[x] + rows'[x] + oa' <= 1 + 2 * cuts + resets /\ rows'[x] + oa' <= 1
          BY <2>7, <4>2, <4>3
        <4>7. QED
          BY <1>1, <2>1, <4>5, <4>6 DEF oi, oa
      <3>2. Lost(objects, rows)' = {} /\ phase' # "end"
        BY <2>1, <2>9 DEF Once
      <3>3. QED
        BY <1>4, <3>1, <3>2 DEF Once
    <2>13. QED
      BY <2>1, <2>3, <2>5, <2>9, <2>10, <2>11, <2>12
  <1>9. CASE InsertFails(new) /\ Abandon
    <2>1. batch' = new /\ (table' = table \/ table' = Plus(table, new))
      BY <1>9 DEF InsertFails
    <2> HIDE DEF m, new
    <2>2. /\ WriteFailed("fetch") /\ fetched' = {} /\ todo' = {} /\ acking' = {}
          /\ avail' \subseteq Messages /\ avail' \cap acked = {}
      BY <1>1, <1>9, AbandonFacts
    <2>3. /\ \/ faults' = faults + 1 /\ cuts' = cuts
             \/ faults' = faults /\ cuts' = cuts + 1 /\ phase' = "exit"
          /\ phase' \in {"fetch", "exit", "end"}
          /\ faults' \in 0..MaxFaults /\ stops' \in 0..MaxStops /\ cuts' \in 0..stops'
      BY <2>2, WriteFailedFacts
    <2>4. batch' \in Rows /\ rows' \in Rows /\ table' \in Rows /\ objects' \in Rows
      BY <1>1, <1>3, <1>6, <2>1, RowTypes
    <2>5. ASSUME NEW x \in Messages
          PROVE  /\ batch'[x] > 0 => batch[x] > 0 \/ x = m
                 /\ batch'[x] > 0 \/ rows'[x] > 0 => x \in Candles
                 /\ table'[x] + batch'[x] >= table[x] + batch[x]
                 /\ objects'[x] + rows'[x] >= objects[x] + rows[x]
                 /\ faults' = 0 =>
                       /\ table'[x] + batch'[x] + Open(x, {}) <= table[x] + batch[x] + Open(x, Inserted) + 2
                       /\ objects'[x] + rows'[x] + Open(x, {}) <= objects[x] + rows[x] + Open(x, Appended) + 2
      <3> DEFINE one == IF x = m THEN 1 ELSE 0
                 t == table'[x] + batch'[x]
      <3>1. /\ batch[x] \in Nat /\ rows[x] \in Nat /\ table[x] \in Nat /\ objects[x] \in Nat
            /\ batch'[x] = IF x = m THEN batch[x] + 1 ELSE batch[x]
            /\ table'[x] = table[x] \/ table'[x] = table[x] + batch'[x]
            /\ rows'[x] = rows[x] /\ objects'[x] = objects[x]
        BY <1>1, <1>3, <1>6, <2>1, RowTypes
      <3>2. batch'[x] > 0 => batch[x] > 0 \/ x = m
        BY <3>1
      <3>3. batch'[x] > 0 \/ rows'[x] > 0 => x \in Candles
        BY <1>2, <3>1, <3>2, HeldAreCandles
      <3>4. t \in Nat /\ t >= table[x] + batch[x] /\ t <= table[x] + 2 * (batch[x] + one)
        BY <3>1
      <3>5. /\ Open(x, {}) \in {0, 1} /\ Open(x, Inserted) \in {0, 1} /\ one \in {0, 1}
            /\ one = 1 => Open(x, Inserted) = 1
            /\ Open(x, Appended) = Open(x, {})
        BY <1>2, <1>7, OpenFacts
      <3>6. ASSUME faults' = 0 PROVE t + Open(x, {}) <= table[x] + batch[x] + Open(x, Inserted) + 2
        <4>1. faults = 0
          BY <2>3, <3>6, RowTypes
        <4>2. batch[x] + Open(x, Inserted) <= 1
          BY <1>1, <4>1 DEF Once
        <4> HIDE DEF one, t
        <4>3. QED
          BY <3>1, <3>4, <3>5, <4>2, CutAdds
      <3>7. objects'[x] + rows'[x] + Open(x, {}) <= objects[x] + rows[x] + Open(x, Appended) + 2
        BY <3>1, <3>5
      <3>8. QED
        BY <3>1, <3>2, <3>3, <3>4, <3>6, <3>7
    <2>6. \A x \in acked : (batch'[x] > 0 => batch[x] > 0) /\ (rows'[x] > 0 => rows[x] > 0)
      BY <1>1, <1>2, <2>5 DEF TypeOK
    <2>7. Total(batch', Messages) <= BatchSize - 1 + faults + cuts + 1
      <3>1. Total(batch, Messages) <= BatchSize - 1 + faults + cuts
        BY DEF MemoryBounded
      <3>2. QED
        BY <1>3, <2>1, <3>1, RowTypes, Numbers
    <2>8. ASSUME NEW b \in Buckets PROVE Total(rows', In(b)) <= BatchRows - 1 + faults + cuts + 1
      <3>1. In(b) \in SUBSET Messages
        BY DEF In
      <3>2. Total(rows, In(b)) \in Nat /\ Total(rows, In(b)) <= BatchRows - 1 + faults + cuts
        BY <3>1, RowSums, RowTypes DEF MemoryBounded
      <3>3. QED
        BY <1>1, <3>2, RowTypes, Numbers
    <2>9. QED
      BY <1>1, <2>2, <2>3, <2>4, <2>5, <2>6, <2>7, <2>8, GivenUp
  <1>10. QED
    BY <1>8, <1>9 DEF WriteCandle, InsertOk

\* AppendCandle takes the row of a candle, or fails.
LEMMA AppendRowStep ==
    ASSUME CandleSinksInv, AppendRow
    PROVE  CandleSinksInv'
  <1> USE DEF CandleSinksInv
  <1> DEFINE m == Min(todo)
  <1>1. /\ prog = "candles" /\ phase = "append"
        /\ UNCHANGED <<prog, stream, acked, durable, resets, batch, table, drops>>
    BY DEF AppendRow
  <1>2. m \in todo /\ m \in Candles /\ m \in Messages /\ m \notin acked
    BY <1>1, NextDecoded
  <1>3. Messages' = Messages /\ Candles' = Candles
    BY <1>1, SameStream
  <1>4. m \notin Appended
    BY <1>1, <1>2 DEF Appended
  <1>5. CASE AppendOk(m) /\ Advance(m, "ack")
    <2> HIDE DEF m
    <2>1. /\ Roles' /\ Apart'
          /\ phase' \in {"append", "ack"}
          /\ phase' \in {"insert", "append"} => todo' # {}
          /\ phase' = "ack" => acking' # {}
          /\ fetched' = fetched /\ avail' = avail /\ UNCHANGED <<stops, cuts, faults>>
          /\ todo' \cup acking' \subseteq Messages
          /\ Inserted' = Inserted /\ Appended' = Appended \cup {m}
      BY <1>1, <1>2, <1>5, AdvanceFacts
    <2>2. /\ rows' \in Rows /\ objects' \in Rows
          /\ MemoryBounded' /\ LossBounded' /\ Stored' /\ FewHeld' /\ RoomLeft' /\ Once'
      BY <1>1, <1>2, <1>4, <1>5, <2>1, Appending
    <2>3. TypeOK'
      BY <1>1, <1>3, <2>1, <2>2 DEF TypeOK, Rows
    <2>4. QED
      BY <2>1, <2>2, <2>3
  <1>6. CASE AppendFails(m) /\ Abandon
    <2> HIDE DEF m
    <2>1. /\ WriteFailed("fetch") /\ fetched' = {} /\ todo' = {} /\ acking' = {}
          /\ avail' \subseteq Messages /\ avail' \cap acked = {}
      BY <1>1, <1>6, AbandonFacts
    <2>2. QED
      BY <1>1, <1>2, <1>4, <1>6, <2>1, AppendGivenUp
  <1>7. QED
    BY <1>5, <1>6 DEF AppendRow

\* The process is gone, and what it held with it; the durable may be too.
LEMMA DownStep ==
    ASSUME CandleSinksInv, End \/ Crash
    PROVE  CandleSinksInv'
  <1> USE DEF CandleSinksInv
  <1>1. /\ phase' = "down" /\ fetched' = {} /\ todo' = {} /\ acking' = {}
        /\ UNCHANGED <<prog, stream, table, objects, stops, cuts>>
        /\ batch' = NoRows /\ rows' = NoRows
        /\ drops' = IF batch = NoRows /\ rows = NoRows THEN drops ELSE drops + 1
    BY DEF End, Crash, Down, Idle, stores, counters, Fault
  <1>2. \/ phase = "end" /\ faults' = faults
        \/ faults < MaxFaults /\ faults' = faults + 1
    BY DEF End, Crash, Fault, counters
  <1>3. \/ UNCHANGED <<avail, acked, durable, resets>>
        \/ /\ resets < MaxResets /\ durable' = "gone" /\ resets' = resets + 1
           /\ avail' = Messages /\ acked' = {}
    BY DEF End, Crash, Drain, consumer
  <1>4. /\ Messages' = Messages /\ Candles' = Candles /\ NoRows' = NoRows /\ \A b : In(b)' = In(b)
    BY <1>1, SameStream
  <1>5. faults' \in 0..MaxFaults /\ faults' \in Nat /\ faults' >= faults
    BY <1>2, Numbers DEF TypeOK
  <1>6. NoRows \in Rows /\ \A x \in Messages : NoRows[x] = 0
    BY DEF NoRows, Rows
  <1>7. TypeOK'
    <2>1. drops' \in Nat /\ cuts' \in 0..stops'
      BY <1>1, RowTypes DEF TypeOK
    <2>2. /\ avail' \cup acked' \subseteq Messages /\ durable' \in {"own", "found", "gone"}
          /\ resets' \in 0..MaxResets
      BY <1>3, Numbers DEF TypeOK
    <2>3. QED
      BY <1>1, <1>4, <1>5, <1>6, <2>1, <2>2 DEF TypeOK, Rows
  <1>8. MemoryBounded'
    <2>1. Total(NoRows, Messages) = 0 /\ \A b \in Buckets : Total(NoRows, In(b)) = 0
      <3>1. \A b \in Buckets : In(b) \in SUBSET Messages
        BY DEF In
      <3>2. QED
        BY <1>6, <3>1, RowSums
    <2>2. Total(batch', Messages) = 0 /\ \A b \in Buckets : Total(rows', In(b)) = 0
      BY <1>1, <2>1
    <2>3. 0 <= BatchSize - 1 + faults' + cuts' /\ 0 <= BatchRows - 1 + faults' + cuts'
      BY <1>1, <1>5, Room, RowTypes
    <2>4. QED
      BY <1>4, <2>2, <2>3 DEF MemoryBounded
  <1>9. Roles' /\ Apart'
    BY <1>1, <1>3 DEF Roles, Apart
  <1>10. Inserted' = {} /\ Appended' = {}
    BY <1>1 DEF Inserted, Appended
  <1>11. Stored' /\ RoomLeft'
    <2>1. \A x \in Messages : ~(batch'[x] + rows'[x] > 0)
      BY <1>1, <1>6
    <2>2. QED
      BY <1>1, <1>4, <1>10, <2>1 DEF Stored, RoomLeft
  <1>12. FewHeld'
    <2>1. acked' \subseteq acked /\ \A x \in acked : ~(batch'[x] > 0) /\ ~(rows'[x] > 0)
      BY <1>1, <1>3, <1>6 DEF TypeOK
    <2>2. QED
      BY <1>1, <2>1, HeldKept
  <1>13. /\ Lost(table, batch)' \subseteq Lost(table, batch) \cup Held(batch, acked)
         /\ Lost(objects, rows)' \subseteq Lost(objects, rows) \cup Held(rows, acked)
    <2>1. \A x \in acked : /\ batch[x] \in Nat /\ rows[x] \in Nat /\ table[x] \in Nat /\ objects[x] \in Nat
                           /\ table'[x] + batch'[x] = table[x] /\ objects'[x] + rows'[x] = objects[x]
      BY <1>1, <1>6, RowTypes DEF TypeOK
    <2>2. \A x \in acked : /\ table'[x] + batch'[x] = 0 => table[x] + batch[x] = 0 \/ batch[x] > 0
                           /\ objects'[x] + rows'[x] = 0 => objects[x] + rows[x] = 0 \/ rows[x] > 0
      BY <2>1
    <2>3. acked' \subseteq acked
      BY <1>3
    <2>4. QED
      BY <2>2, <2>3 DEF Lost, Held
  <1>14. LossBounded'
    <2>1. CASE batch = NoRows /\ rows = NoRows
      <3>1. Held(batch, acked) = {} /\ Held(rows, acked) = {}
        BY <1>6, <2>1 DEF Held, TypeOK
      <3>2. QED
        BY <1>1, <1>13, <2>1, <3>1, LostKept
    <2>2. CASE ~(batch = NoRows /\ rows = NoRows)
      <3>1. drops' = drops + 1
        BY <1>1, <2>2
      <3>2. QED
        BY <1>1, <1>13, <3>1, LostAtEnd
    <2>3. QED
      BY <2>1, <2>2
  <1>15. Once'
    <2> SUFFICES ASSUME faults' = 0 PROVE Once'
      BY DEF Once
    <2>1. phase = "end" /\ faults = 0
      BY <1>2, RowTypes
    <2>2. rows = NoRows /\ Inserted = {} /\ Appended = {}
      BY <2>1 DEF Once, Inserted, Appended, Roles
    <2>3. Lost(objects, rows)' = {}
      <3>1. Held(rows, acked) = {}
        BY <1>6, <2>2 DEF Held, TypeOK
      <3>2. QED
        BY <1>13, <2>1, <3>1 DEF Once
    <2>4. ASSUME NEW x \in Messages
          PROVE  /\ table'[x] + batch'[x] + Open(x, Inserted)' <= 1 + 2 * cuts' + resets'
                 /\ objects'[x] + rows'[x] + Open(x, Appended)' <= 1 + 2 * cuts' + resets'
                 /\ batch'[x] + Open(x, Inserted)' <= 1
                 /\ rows'[x] + Open(x, Appended)' <= 1
      <3> DEFINE o == Open(x, {})
      <3>1. Open(x, Inserted) = o /\ Open(x, Appended) = o /\ o \in {0, 1}
        BY <2>2, OpenFacts
      <3>2. /\ Open(x, Inserted)' = o' /\ Open(x, Appended)' = o'
            /\ \/ o' = o /\ resets' = resets
               \/ o' = 1 /\ resets' = resets + 1
        BY <1>3, <1>10 DEF Open
      <3>3. /\ batch[x] \in Nat /\ rows[x] \in Nat /\ table[x] \in Nat /\ objects[x] \in Nat
            /\ batch'[x] = 0 /\ rows'[x] = 0 /\ table'[x] = table[x] /\ objects'[x] = objects[x]
            /\ cuts \in Nat /\ resets \in Nat /\ cuts' = cuts
        BY <1>1, <1>6, RowTypes
      <3>4. /\ table[x] + batch[x] + o <= 1 + 2 * cuts + resets
            /\ objects[x] + rows[x] + o <= 1 + 2 * cuts + resets
        BY <2>1, <3>1 DEF Once
      <3> HIDE DEF o
      <3>5. CASE o' = o /\ resets' = resets
        BY <3>1, <3>2, <3>3, <3>4, <3>5
      <3>6. CASE o' = 1 /\ resets' = resets + 1
        BY <3>1, <3>2, <3>3, <3>4, <3>6
      <3>7. QED
        BY <3>2, <3>5, <3>6
    <2>5. QED
      BY <1>1, <1>4, <2>3, <2>4 DEF Once
  <1>16. QED
    BY <1>7, <1>8, <1>9, <1>11, <1>12, <1>14, <1>15
-----------------------------------------------------------------------------
\* The invariant holds in every state of both programs.
THEOREM CandleSinksCorrect == Spec => []CandleSinksInv
  <1>1. Init => CandleSinksInv
    <2> SUFFICES ASSUME Init PROVE CandleSinksInv
      OBVIOUS
    <2>1. Roles /\ Apart
      BY DEF Init, Roles, Apart
    <2>2. NoRows \in Rows /\ \A x \in Messages : NoRows[x] = 0
      BY DEF NoRows, Rows
    <2>3. TypeOK
      <3>1. {batch, rows, table, objects} \subseteq [Messages -> Nat]
        BY <2>2 DEF Init, Rows
      <3>2. QED
        BY <3>1, Numbers DEF Init, TypeOK
    <2>4. MemoryBounded
      <3>1. \A b \in Buckets : In(b) \in SUBSET Messages
        BY DEF In
      <3>2. Total(NoRows, Messages) = 0 /\ \A b \in Buckets : Total(NoRows, In(b)) = 0
        BY <2>1, <2>2, <3>1, RowSums
      <3>3. QED
        BY <3>2, Numbers DEF Init, MemoryBounded
    <2>5. Inserted = {} /\ Appended = {}
      BY DEF Init, Inserted, Appended
    <2>6. \A x \in Messages : batch[x] = 0 /\ rows[x] = 0 /\ table[x] = 0 /\ objects[x] = 0
      BY <2>2 DEF Init
    <2>7. Stored /\ RoomLeft
      BY <2>5, <2>6 DEF Init, Stored, RoomLeft
    <2>8. /\ Lost(table, batch) = {} /\ Lost(objects, rows) = {} /\ Cardinality({}) = 0
          /\ Held(batch, acked) = {} /\ \A S : Held(rows, acked \cap S) = {}
      BY FS_EmptySet DEF Init, Lost, Held
    <2>9. LossBounded /\ FewHeld
      <3>1. /\ BatchSize - 1 \in Nat /\ BatchRows - 1 \in Nat
            /\ (BatchSize - 1) * 0 \in Nat /\ (BatchRows - 1) * 0 \in Nat
        BY Numbers, BoundGrows, 0 \in Nat
      <3>2. /\ 0 <= BatchSize - 1 /\ 0 <= BatchRows - 1
            /\ 0 <= (BatchSize - 1) * drops /\ 0 <= (BatchRows - 1) * drops
        BY <3>1 DEF Init
      <3>3. \A b : Lost(objects, rows) \cap In(b) = {}
        BY <2>8
      <3>4. QED
        BY <2>8, <3>2, <3>3 DEF LossBounded, FewHeld
    <2>10. Once
      <3>1. \A x \in Messages : Open(x, Inserted) = 1 /\ Open(x, Appended) = 1
        BY <2>5 DEF Open, Init
      <3>2. cuts = 0 /\ resets = 0 /\ phase = "fetch"
        BY DEF Init
      <3>3. QED
        BY <2>6, <2>8, <3>1, <3>2 DEF Once
    <2>11. QED
      BY <2>1, <2>3, <2>4, <2>7, <2>9, <2>10 DEF CandleSinksInv
  <1>2. CandleSinksInv /\ [Next]_vars => CandleSinksInv'
    <2> SUFFICES ASSUME CandleSinksInv, [Next]_vars PROVE CandleSinksInv'
      OBVIOUS
    <2>1. CASE UNCHANGED vars
      <3>1. /\ UNCHANGED <<prog, stream, memory, stores, drops>> /\ phase' = phase
            /\ UNCHANGED <<fetched, todo, acking, avail, acked, durable, resets, stops, cuts, faults>>
        BY <2>1 DEF vars, work, consumer, counters
      <3>2. TypeOK' /\ Roles' /\ Apart'
        BY <3>1 DEF CandleSinksInv, TypeOK, Roles, Apart, Messages, Candles, memory, stores
      <3>3. Inserted' = Inserted /\ Appended' = Appended
        BY <3>1 DEF Inserted, Appended
      <3>4. faults' \in Nat /\ faults' >= faults
        BY <3>1, RowTypes DEF CandleSinksInv
      <3>5. MemoryBounded' /\ LossBounded' /\ Stored' /\ FewHeld' /\ RoomLeft' /\ Once'
        BY <3>1, <3>3, <3>4, Quiet
      <3>6. QED
        BY <3>2, <3>5 DEF CandleSinksInv
    <2>2. CASE Next
      BY <2>2, FetchStep, LeaveStep, AckStep, AgainStep, HandleCandleStep, FlushStep,
         WriteCandleStep, AppendRowStep, DownStep
         DEF Next, Work
    <2>3. QED
      BY <2>1, <2>2
  <1>3. QED
    BY <1>1, <1>2, PTL DEF Spec

\* For every stream and all sizes of batches: a program that ends without a
\* fault has uploaded what it held (the deferred Close), and the candle batch
\* and the buckets outgrow their limits by at most one row for every fault and
\* for every shutdown that cuts a write.
THEOREM SinksTheorem == Spec => []SinksInv
  <1>1. CandleSinksInv => SinksInv
    BY DEF CandleSinksInv, SinksInv, CleanExitUploads, Once
  <1>2. QED
    BY <1>1, CandleSinksCorrect, PTL

\* A process that ends takes less than a full batch and less than a full bucket
\* of the candles that Process and handleMessage acknowledged with it, however
\* many rows failed writes left in memory, and nothing else loses a candle.
THEOREM LossTheorem == Spec => []LossBounded
  <1>1. CandleSinksInv => LossBounded
    BY DEF CandleSinksInv
  <1>2. QED
    BY <1>1, CandleSinksCorrect, PTL

\* Without a fault a candle has a second row only by a shutdown in the middle of
\* a batch, at most two for each, or by a new durable, one for each: messages
\* that cannot be decoded, other shutdowns and restarts repeat nothing.
THEOREM DuplicatesTheorem == Spec => []DuplicatesBounded
  <1>1. CandleSinksInv => DuplicatesBounded
    <2> SUFFICES ASSUME CandleSinksInv, faults = 0, NEW m \in Messages
                 PROVE  /\ table[m] + batch[m] <= 1 + 2 * cuts + resets
                        /\ objects[m] + rows[m] <= 1 + 2 * cuts + resets
      BY DEF DuplicatesBounded
    <2>1. /\ table[m] + batch[m] + Open(m, Inserted) <= 1 + 2 * cuts + resets
          /\ objects[m] + rows[m] + Open(m, Appended) <= 1 + 2 * cuts + resets
      BY DEF CandleSinksInv, Once
    <2>2. Open(m, Inserted) \in {0, 1} /\ Open(m, Appended) \in {0, 1}
      BY OpenFacts
    <2>3. QED
      BY <2>1, <2>2, RowTypes DEF CandleSinksInv
  <1>2. QED
    BY <1>1, CandleSinksCorrect, PTL
=============================================================================

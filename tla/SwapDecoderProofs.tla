-------------------------- MODULE SwapDecoderProofs --------------------------
(***************************************************************************)
(* What the decoder returns is right for every set of accounts, updates    *)
(* and transactions, every table of mints and every even word: the fee of  *)
(* the account data received last, the amounts the balances changed by,    *)
(* the same events again, the same market for the opposite trade, and one  *)
(* canonical pair for both packages.                                       *)
(***************************************************************************)
EXTENDS SwapDecoder, NaturalsInduction, WellFoundedInduction, SequenceTheorems, TLAPS

-----------------------------------------------------------------------------
(* 64-bit arithmetic *)

\* Half of an even word.
LEMMA HalfWord == Word \in Nat /\ Half \in Nat /\ Half > 0 /\ Word = 2 * Half
  <1>1. Word \in Nat /\ Word > 1 /\ Word % 2 = 0
    BY WordAssumption
  <1>2. QED
    BY <1>1 DEF Half

\* The remainder is a word.
LEMMA ModRange == \A x \in Int : x % Word \in Words
  BY HalfWord DEF Words

\* A word is its own remainder, and so is one that is off by the modulus.
LEMMA ModExact ==
    ASSUME NEW x \in Words
    PROVE  /\ x % Word = x
           /\ (x + Word) % Word = x
           /\ (x - Word) % Word = x
  BY HalfWord DEF Words

\* A conversion to int64 gives a signed number, and the number itself if it is
\* in range, or off by the modulus.
LEMMA Int64Range == \A x \in Int : Int64(x) \in -Half..(Half - 1)
  BY HalfWord, ModRange DEF Int64, Words

LEMMA Int64Exact ==
    ASSUME NEW x \in Int, -Half <= x, x < Half
    PROVE  Int64(x) = x /\ Int64(x + Word) = x /\ Int64(x - Word) = x
  <1>1. x + Half \in Words /\ x + Half \in Int
    BY HalfWord DEF Words
  <1>2. /\ (x + Half) % Word = x + Half
        /\ ((x + Half) + Word) % Word = x + Half
        /\ ((x + Half) - Word) % Word = x + Half
    BY <1>1, ModExact
  <1>3. (x + Word) + Half = (x + Half) + Word /\ (x - Word) + Half = (x + Half) - Word
    BY HalfWord
  <1>4. QED
    BY <1>2, <1>3, HalfWord DEF Int64

\* A conversion to uint64 gives a word, and a word is not changed.
LEMMA Uint64Word ==
    /\ \A x \in Int : Uint64(x) \in Words
    /\ \A x \in Words : Uint64(x) = x
  BY ModRange, ModExact DEF Uint64

\* The difference of two balances is a signed number, and exact when it is in
\* range.
LEMMA DeltaExact ==
    ASSUME NEW b, b.pre \in Words, b.post \in Words
    PROVE  /\ Delta(b) \in -Half..(Half - 1)
           /\ (-Half < b.post - b.pre /\ b.post - b.pre < Half) => Delta(b) = b.post - b.pre
  <1> DEFINE pre == b.pre
             post == b.post
             d == post - pre
  <1>1. pre \in Int /\ post \in Int /\ 0 <= pre /\ 0 <= post /\ pre < Word /\ post < Word
    BY HalfWord DEF Words
  <1>2. /\ Int64(pre) = IF pre < Half THEN pre ELSE pre - Word
        /\ Int64(post) = IF post < Half THEN post ELSE post - Word
    <2>1. ASSUME NEW x \in Int, 0 <= x, x < Word
          PROVE  Int64(x) = IF x < Half THEN x ELSE x - Word
      <3>1. CASE x < Half
        BY <2>1, <3>1, Int64Exact, HalfWord
      <3>2. CASE x >= Half
        <4>1. x - Word \in Int /\ -Half <= x - Word /\ x - Word < Half /\ (x - Word) + Word = x
          BY <2>1, <3>2, HalfWord
        <4>2. Int64((x - Word) + Word) = x - Word
          BY <4>1, Int64Exact
        <4>3. QED
          BY <4>1, <4>2, <2>1, <3>2, HalfWord
      <3>3. QED
        BY <3>1, <3>2, <2>1, HalfWord
    <2>2. QED
      BY <1>1, <2>1
  <1>3. Int64(post) - Int64(pre) \in {d, d + Word, d - Word} /\ d \in Int
    BY <1>1, <1>2, HalfWord
  <1>4. Int64(post) - Int64(pre) \in Int
    BY <1>3, HalfWord
  <1>5. Delta(b) \in -Half..(Half - 1)
    BY <1>4, Int64Range DEF Delta
  <1>6. ASSUME -Half < d, d < Half PROVE Delta(b) = d
    BY <1>3, <1>6, Int64Exact, HalfWord DEF Delta
  <1>7. QED
    BY <1>5, <1>6

-----------------------------------------------------------------------------
(* Base and quote *)

\* Priorities are numbers.
LEMMA Priorities == \A symbol : getQuotePriority(symbol) \in Nat /\ getPriority(symbol) \in Nat
  BY DEF getQuotePriority, getPriority, QuotePriority, CanonicalPriority

\* The pair is made of the two mints, in an order that does not depend on which
\* of them was named first.
LEMMA OrderedPair ==
    ASSUME NEW a \in Nat, NEW b \in Nat, NEW p \in Nat, NEW q \in Nat
    PROVE  LET ab == Ordered(a, b, p, q)
               ba == Ordered(b, a, q, p)
           IN  /\ ab \in PairType
               /\ ab.base = (IF ab.inverted THEN b ELSE a)
               /\ ab.quote = (IF ab.inverted THEN a ELSE b)
               /\ a # b => /\ ba.inverted = ~ab.inverted
                           /\ ba.base = ab.base /\ ba.quote = ab.quote
  <1> DEFINE inv == p > q \/ (p = q /\ a > b)
             back == q > p \/ (q = p /\ b > a)
  <1>1. inv \in BOOLEAN /\ back \in BOOLEAN /\ (a # b => back = ~inv)
    OBVIOUS
  <1>2. /\ Ordered(a, b, p, q) = [base |-> IF inv THEN b ELSE a, quote |-> IF inv THEN a ELSE b,
                                  inverted |-> inv]
        /\ Ordered(b, a, q, p) = [base |-> IF back THEN a ELSE b, quote |-> IF back THEN b ELSE a,
                                  inverted |-> back]
    BY DEF Ordered
  <1> HIDE DEF inv, back
  <1>3. QED
    BY <1>1, <1>2 DEF PairType

\* ResolvePair gives a pair of two mints one orientation.
LEMMA OneOrientation ==
    ASSUME NEW a \in Nat \ {0}, NEW b \in Nat \ {0}
    PROVE  LET ab == ResolvePair(a, b)
               ba == ResolvePair(b, a)
           IN  /\ ab \in PairType /\ ab # Error
               /\ ab.base = (IF ab.inverted THEN b ELSE a)
               /\ ab.quote = (IF ab.inverted THEN a ELSE b)
               /\ a # b => /\ ba.inverted = ~ab.inverted
                           /\ ba.base = ab.base /\ ba.quote = ab.quote
  <1> DEFINE p == getQuotePriority(resolveTokenSymbol(a))
             q == getQuotePriority(resolveTokenSymbol(b))
  <1>1. p \in Nat /\ q \in Nat
    BY Priorities
  <1>2. ResolvePair(a, b) = Ordered(a, b, p, q) /\ ResolvePair(b, a) = Ordered(b, a, q, p)
    BY DEF ResolvePair
  <1>3. \A r \in PairType : r # Error
    BY MarkersAssumption
  <1> HIDE DEF p, q
  <1>4. QED
    BY <1>1, <1>2, <1>3, OrderedPair

\* DetermineBaseQuote agrees with it on the mints it knows.
LEMMA PackagesAgree ==
    ASSUME NEW a \in Nat \ {0}, NEW b \in Nat \ {0}, DetermineBaseQuote(a, b) # Error
    PROVE  DetermineBaseQuote(a, b) = ResolvePair(a, b)
  <1>1. a \in DOMAIN Metadata /\ b \in DOMAIN Metadata
    BY DEF DetermineBaseQuote
  <1>2. /\ getPriority(Metadata[a]) = getQuotePriority(resolveTokenSymbol(a))
        /\ getPriority(Metadata[b]) = getQuotePriority(resolveTokenSymbol(b))
    BY <1>1, PairsAssumption
  <1>3. QED
    BY <1>1, <1>2 DEF DetermineBaseQuote, ResolvePair

-----------------------------------------------------------------------------
(* Events and balances *)

\* A nonempty set of numbers has a first one.
LEMMA LeastNat ==
    ASSUME NEW T, T \subseteq Nat, T # {}
    PROVE  \E x \in T : \A y \in T : x <= y
  <1>1. \E x \in T : \A y \in T : ~(<<y, x>> \in OpToRel(<, Nat))
    BY NatLessThanWellFounded, WFMin
  <1>2. \A x \in Nat, y \in Nat : ~(<<y, x>> \in OpToRel(<, Nat)) => x <= y
    BY DEF OpToRel
  <1>3. QED
    BY <1>1, <1>2

LEMMA FirstIsMember == ASSUME NEW S, S \subseteq Nat, S # {} PROVE First(S) \in S
  BY LeastNat DEF First

\* The last of the lines of a log.
LEMMA LastIsMember ==
    ASSUME NEW n \in Nat, NEW S, S \subseteq 1..n, S # {}
    PROVE  Last(S) \in S
  <1> DEFINE T == {n - i : i \in S}
  <1>1. T \subseteq Nat /\ T # {}
    <2>1. \A i \in S : i \in 1..n /\ n - i \in Nat
      OBVIOUS
    <2>2. QED
      BY <2>1
  <1>2. PICK x \in T : \A y \in T : x <= y
    BY <1>1, LeastNat
  <1>3. PICK i \in S : x = n - i
    OBVIOUS
  <1>4. \A j \in S : j <= i
    <2>1. TAKE j \in S
    <2>2. x <= n - j
      BY <1>2
    <2>3. QED
      BY <1>3, <2>2
  <1>5. QED
    BY <1>4 DEF Last

\* An event with its four amounts.
Filled(program, pool, base, quote, fee, reserves, baseIn, baseOut, quoteIn, quoteOut) ==
    [program |-> program, pool |-> pool, base |-> base, quote |-> quote,
     fee |-> fee, reserves |-> reserves,
     baseIn |-> baseIn, baseOut |-> baseOut, quoteIn |-> quoteIn, quoteOut |-> quoteOut]

\* The two ways the code fills one in.
LEMMA Fill ==
    ASSUME NEW program, NEW pool, NEW base, NEW quote, NEW fee, NEW reserves, NEW x, NEW y
    PROVE  /\ BaseToQuote(Event(program, pool, base, quote, fee, reserves), x, y) =
                  Filled(program, pool, base, quote, fee, reserves, x, 0, 0, y)
           /\ QuoteToBase(Event(program, pool, base, quote, fee, reserves), y, x) =
                  Filled(program, pool, base, quote, fee, reserves, 0, x, y, 0)
  <1> DEFINE msg == Event(program, pool, base, quote, fee, reserves)
             F(bi, bo, qi, qo) ==
                 Filled(program, pool, base, quote, fee, reserves, bi, bo, qi, qo)
  <1>1. msg = F(0, 0, 0, 0)
    BY DEF Event, Filled
  <1>2. /\ BaseToQuote(msg, x, y) = [[msg EXCEPT !.baseIn = x] EXCEPT !.quoteOut = y]
        /\ QuoteToBase(msg, y, x) = [[msg EXCEPT !.baseOut = x] EXCEPT !.quoteIn = y]
    BY Zenon DEF BaseToQuote, QuoteToBase
  <1>3. /\ [F(0, 0, 0, 0) EXCEPT !.baseIn = x] = F(x, 0, 0, 0)
        /\ [F(x, 0, 0, 0) EXCEPT !.quoteOut = y] = F(x, 0, 0, y)
    BY DEF Filled
  <1>4. /\ [F(0, 0, 0, 0) EXCEPT !.baseOut = x] = F(0, x, 0, 0)
        /\ [F(0, x, 0, 0) EXCEPT !.quoteIn = y] = F(0, x, y, 0)
    BY DEF Filled
  <1> HIDE DEF msg, F
  <1>5. QED
    BY <1>1, <1>2, <1>3, <1>4, Zenon DEF msg, F

\* The event of a swap in which the pool gained b of the base and q of the quote.
Moved(program, pool, base, quote, fee, reserves, b, q) ==
    Filled(program, pool, base, quote, fee, reserves,
           IF b > 0 THEN b ELSE 0, IF b < 0 THEN -b ELSE 0,
           IF q > 0 THEN q ELSE 0, IF q < 0 THEN -q ELSE 0)

LEMMA MovedIn ==
    ASSUME NEW program, NEW pool, NEW base, NEW quote, NEW fee, NEW reserves,
           NEW b \in Int, NEW q \in Int, b > 0, q < 0
    PROVE  BaseToQuote(Event(program, pool, base, quote, fee, reserves), b, -q) =
           Moved(program, pool, base, quote, fee, reserves, b, q)
  <1>1. /\ (IF b > 0 THEN b ELSE 0) = b /\ (IF b < 0 THEN -b ELSE 0) = 0
        /\ (IF q > 0 THEN q ELSE 0) = 0 /\ (IF q < 0 THEN -q ELSE 0) = -q
    OBVIOUS
  <1>2. Moved(program, pool, base, quote, fee, reserves, b, q) =
            Filled(program, pool, base, quote, fee, reserves, b, 0, 0, -q)
    BY <1>1, Zenon DEF Moved
  <1>3. QED
    BY <1>2, Fill

LEMMA MovedOut ==
    ASSUME NEW program, NEW pool, NEW base, NEW quote, NEW fee, NEW reserves,
           NEW b \in Int, NEW q \in Int, b < 0, q > 0
    PROVE  QuoteToBase(Event(program, pool, base, quote, fee, reserves), q, -b) =
           Moved(program, pool, base, quote, fee, reserves, b, q)
  <1>1. /\ (IF b > 0 THEN b ELSE 0) = 0 /\ (IF b < 0 THEN -b ELSE 0) = -b
        /\ (IF q > 0 THEN q ELSE 0) = q /\ (IF q < 0 THEN -q ELSE 0) = 0
    OBVIOUS
  <1>2. Moved(program, pool, base, quote, fee, reserves, b, q) =
            Filled(program, pool, base, quote, fee, reserves, 0, -b, q, 0)
    BY <1>1, Zenon DEF Moved
  <1>3. QED
    BY <1>2, Fill

\* One mint came in and the other went out.
Exchanged(b, q) == (b > 0 /\ q < 0) \/ (b < 0 /\ q > 0)

\* An amount, and an amount that could be read, are words.
LEMMA AmountWord == \A a \in Amounts : Amount(a) \in Words
  BY HalfWord DEF Amounts, Amount, Words

\* The balance of an account is typed, and its change a signed number.
LEMMA VaultType ==
    ASSUME NEW tx, IsTransaction(tx), NEW i \in DOMAIN tx.bal
    PROVE  /\ Vault(tx, i) \in BalanceType
           /\ Vault(tx, i).mint = tx.bal[i].mint /\ tx.bal[i].mint \in Nat \ {0}
           /\ Vault(tx, i).pre = Amount(tx.bal[i].pre) /\ Vault(tx, i).post = Amount(tx.bal[i].post)
           /\ Delta(Vault(tx, i)) \in -Half..(Half - 1)
  <1>1. tx.bal[i] \in Balance
    BY DEF IsTransaction
  <1>2. Amount(tx.bal[i].pre) \in Words /\ Amount(tx.bal[i].post) \in Words
    BY <1>1, AmountWord DEF Balance
  <1>3. /\ Vault(tx, i) \in BalanceType
        /\ Vault(tx, i).mint = tx.bal[i].mint /\ tx.bal[i].mint \in Nat \ {0}
        /\ Vault(tx, i).pre = Amount(tx.bal[i].pre) /\ Vault(tx, i).post = Amount(tx.bal[i].post)
    BY <1>1, <1>2 DEF Balance, BalanceType, Vault
  <1>4. QED
    BY <1>2, <1>3, DeltaExact

\* A Raydium event between the mints a and b.
Traded(pool, a, b, isBaseInput, amountIn, amountOut) ==
    [pool |-> pool, mintA |-> a, mintB |-> b, decA |-> a, decB |-> b,
     isBaseInput |-> isBaseInput, amountIn |-> amountIn, amountOut |-> amountOut]

\* What ParseSwapEvent makes of the changes of two vaults.
LEMMA Parsed ==
    ASSUME NEW pool, NEW a \in BalanceType, NEW b \in BalanceType
    PROVE  LET dA == Delta(a)
               dB == Delta(b)
           IN  /\ (dA > 0 /\ dB < 0) =>
                      ParseSwapEvent(pool, a, b) = Traded(pool, a.mint, b.mint, TRUE, dA, -dB)
               /\ (dA < 0 /\ dB > 0) =>
                      ParseSwapEvent(pool, a, b) = Traded(pool, a.mint, b.mint, FALSE, dB, -dA)
               /\ ~Exchanged(dA, dB) => ParseSwapEvent(pool, a, b) = Error
  <1>1. /\ Delta(a) \in -Half..(Half - 1) /\ Delta(b) \in -Half..(Half - 1)
    BY DeltaExact DEF BalanceType
  <1> DEFINE dA == Delta(a)
             dB == Delta(b)
  <1>2. dA \in Int /\ dB \in Int /\ -Half <= dA /\ dA < Half /\ -Half <= dB /\ dB < Half
    BY <1>1, HalfWord
  <1>3. \A x \in Int : 0 < x /\ x <= Half => Uint64(x) = x
    BY Uint64Word, HalfWord DEF Words
  <1>4. /\ dA > 0 => Uint64(dA) = dA
        /\ dB > 0 => Uint64(dB) = dB
        /\ dA < 0 => Uint64(-dA) = -dA
        /\ dB < 0 => Uint64(-dB) = -dB
    BY <1>2, <1>3, HalfWord
  <1>5. ASSUME dA > 0, dB < 0
        PROVE  ParseSwapEvent(pool, a, b) = Traded(pool, a.mint, b.mint, TRUE, dA, -dB)
    BY <1>2, <1>4, <1>5 DEF ParseSwapEvent, Traded
  <1>6. ASSUME dA < 0, dB > 0
        PROVE  ParseSwapEvent(pool, a, b) = Traded(pool, a.mint, b.mint, FALSE, dB, -dA)
    <2>1. (dA > 0) = FALSE
      BY <1>2, <1>6
    <2>2. ParseSwapEvent(pool, a, b) =
              Traded(pool, a.mint, b.mint, dA > 0, Uint64(dB), Uint64(-dA))
      BY <2>1, <1>6 DEF ParseSwapEvent, Traded
    <2>3. QED
      BY <2>1, <2>2, <1>4, <1>6
  <1>7. ASSUME ~Exchanged(dA, dB) PROVE ParseSwapEvent(pool, a, b) = Error
    BY <1>7 DEF ParseSwapEvent, Exchanged
  <1>8. QED
    BY <1>5, <1>6, <1>7

-----------------------------------------------------------------------------
(* Raydium *)

\* The accounts of an instruction that own a balance, the pool and the pairs of
\* vaults that resolvePool may take.
Owners(tx, instr) ==
    {p \in DOMAIN instr.accounts :
        /\ instr.accounts[p] <= Len(tx.keys)
        /\ Vaults(tx, tx.keys[instr.accounts[p]]) # {}}

PoolOf(tx, instr) == tx.keys[instr.accounts[First(Owners(tx, instr))]]

PairsOf(tx, instr) ==
    IF Owners(tx, instr) = {} THEN {} ELSE VaultPairs(instr, Vaults(tx, PoolOf(tx, instr)))

RaydiumSwap(tx, instr, p) ==
    LET ev == ParseSwapEvent(PoolOf(tx, instr), Vault(tx, p[1]), Vault(tx, p[2]))
    IN  IF instr.data = "short" \/ ev = Error THEN Error ELSE convertRaydiumSwap(ev)

\* buildRaydiumSwap in these terms.
LEMMA RaydiumBuild ==
    ASSUME NEW tx, NEW instr
    PROVE  buildRaydiumSwap(tx, instr) =
               IF instr.data = "empty" \/ PairsOf(tx, instr) = {} THEN {Nil}
               ELSE {RaydiumSwap(tx, instr, p) : p \in PairsOf(tx, instr)}
  <1> DEFINE Resolved(p) == [pool |-> PoolOf(tx, instr),
                             vaultA |-> Vault(tx, p[1]), vaultB |-> Vault(tx, p[2])]
             Swap(r) == LET ev == ParseSwapEvent(r.pool, r.vaultA, r.vaultB)
                        IN  IF instr.data = "short" \/ ev = Error THEN Error
                            ELSE convertRaydiumSwap(ev)
  <1>1. resolvePool(tx, instr) = {Resolved(p) : p \in PairsOf(tx, instr)}
    BY DEF resolvePool, PairsOf, PoolOf, Owners
  <1>2. \A p : Swap(Resolved(p)) = RaydiumSwap(tx, instr, p)
    BY DEF RaydiumSwap
  <1>3. buildRaydiumSwap(tx, instr) =
            IF instr.data = "empty" \/ resolvePool(tx, instr) = {} THEN {Nil}
            ELSE {Swap(r) : r \in resolvePool(tx, instr)}
    BY DEF buildRaydiumSwap
  <1> HIDE DEF Resolved, Swap
  <1>4. {Swap(r) : r \in {Resolved(p) : p \in PairsOf(tx, instr)}}
            = {RaydiumSwap(tx, instr, p) : p \in PairsOf(tx, instr)}
    BY <1>2
  <1>5. QED
    BY <1>1, <1>3, <1>4

\* The pool is an account, and the pairs are of its vaults.
LEMMA PairsType ==
    ASSUME NEW tx, IsTransaction(tx), NEW instr \in Instruction, NEW p \in PairsOf(tx, instr)
    PROVE  /\ PoolOf(tx, instr) \in Accounts
           /\ p[1] \in Vaults(tx, PoolOf(tx, instr)) /\ p[2] \in Vaults(tx, PoolOf(tx, instr))
           /\ p[1] \in DOMAIN tx.bal /\ p[2] \in DOMAIN tx.bal
  <1> DEFINE V == Vaults(tx, PoolOf(tx, instr))
             N == {k \in DOMAIN instr.accounts : instr.accounts[k] \in V}
  <1>1. instr.accounts \in Seq(Nat \ {0}) /\ tx.keys \in Seq(Accounts)
    BY DEF Instruction, IsTransaction
  <1>2. Owners(tx, instr) # {} /\ p \in VaultPairs(instr, V)
    BY DEF PairsOf
  <1>3. Owners(tx, instr) \subseteq Nat
    BY <1>1 DEF Owners
  <1>4. First(Owners(tx, instr)) \in Owners(tx, instr)
    BY <1>2, <1>3, FirstIsMember
  <1>5. PoolOf(tx, instr) \in Accounts
    <2> DEFINE k == instr.accounts[First(Owners(tx, instr))]
    <2>1. k \in Nat \ {0} /\ k <= Len(tx.keys)
      <3>1. First(Owners(tx, instr)) \in DOMAIN instr.accounts /\ k <= Len(tx.keys)
        BY <1>4 DEF Owners
      <3>2. \A i \in DOMAIN instr.accounts : instr.accounts[i] \in Nat \ {0}
        BY <1>1
      <3>3. QED
        BY <3>1, <3>2
    <2>2. tx.keys[k] \in Accounts
      BY <1>1, <2>1
    <2>3. QED
      BY <2>2 DEF PoolOf
  <1>6. N \subseteq Nat
    BY <1>1
  <1>7. p[1] \in V /\ p[2] \in V
    <2>1. CASE \E k, l \in N : k # l
      <3>1. First(N) \in N /\ N \ {First(N)} # {}
        <4>1. N # {}
          BY <2>1
        <4> HIDE DEF N
        <4>2. First(N) \in N
          BY <1>6, <4>1, FirstIsMember
        <4>3. QED
          BY <2>1, <4>2
      <3>2. First(N \ {First(N)}) \in N \ {First(N)}
        BY <1>6, <3>1, FirstIsMember
      <3>3. p = <<instr.accounts[First(N)], instr.accounts[First(N \ {First(N)})]>>
        BY <1>2, <2>1 DEF VaultPairs
      <3>4. QED
        BY <3>1, <3>2, <3>3
    <2>2. CASE ~\E k, l \in N : k # l
      BY <1>2, <2>2 DEF VaultPairs
    <2>3. QED
      BY <2>1, <2>2
  <1>8. V \subseteq DOMAIN tx.bal
    BY DEF Vaults
  <1>9. QED
    BY <1>5, <1>7, <1>8

\* The Raydium event of a pair of vaults.
LEMMA RaydiumMoved ==
    ASSUME NEW tx, IsTransaction(tx), NEW instr \in Instruction, NEW p \in PairsOf(tx, instr),
           instr.data # "short"
    PROVE  LET a == Delta(Vault(tx, p[1]))
               b == Delta(Vault(tx, p[2]))
               pool == PoolOf(tx, instr)
           IN  /\ Exchanged(a, b) =>
                      RaydiumSwap(tx, instr, p) =
                          Moved("raydium", pool, tx.bal[p[1]].mint, tx.bal[p[2]].mint,
                                Fee(pool), <<0, 0>>, a, b)
               /\ ~Exchanged(a, b) => RaydiumSwap(tx, instr, p) = Error
  <1> DEFINE pool == PoolOf(tx, instr)
             vA == Vault(tx, p[1])
             vB == Vault(tx, p[2])
             a == Delta(vA)
             b == Delta(vB)
  <1>1. p[1] \in DOMAIN tx.bal /\ p[2] \in DOMAIN tx.bal /\ pool \in Accounts
    BY PairsType
  <1>2. /\ vA \in BalanceType /\ vB \in BalanceType
        /\ vA.mint = tx.bal[p[1]].mint /\ vB.mint = tx.bal[p[2]].mint
        /\ vA.mint \in Nat /\ vB.mint \in Nat
        /\ a \in Int /\ b \in Int
        /\ a \in -Half..(Half - 1) /\ b \in -Half..(Half - 1)
    BY <1>1, VaultType, HalfWord
  <1> DEFINE mA == vA.mint
             mB == vB.mint
  <1>3. ASSUME a > 0, b < 0
        PROVE  RaydiumSwap(tx, instr, p) = Moved("raydium", pool, mA, mB, Fee(pool), <<0, 0>>, a, b)
    <2> DEFINE ev == Traded(pool, mA, mB, TRUE, a, -b)
    <2>1. ParseSwapEvent(pool, vA, vB) = ev
      BY <1>2, <1>3, Parsed
    <2>2. ev \in RaydiumEvent
      BY <1>1, <1>2, <1>3, HalfWord DEF Traded, RaydiumEvent, Words
    <2>3. RaydiumSwap(tx, instr, p) = convertRaydiumSwap(ev)
      BY <2>1, <2>2, ResultsAssumption DEF RaydiumSwap
    <2>4. ev.pool = pool /\ ev.mintA = mA /\ ev.mintB = mB /\ ev.isBaseInput = TRUE
          /\ ev.amountIn = a /\ ev.amountOut = -b
      BY DEF Traded
    <2>5. convertRaydiumSwap(ev) =
              BaseToQuote(Event("raydium", pool, mA, mB, Fee(pool), <<0, 0>>), a, -b)
      BY <2>4 DEF convertRaydiumSwap
    <2> HIDE DEF pool, vA, vB, a, b, mA, mB, ev
    <2>6. BaseToQuote(Event("raydium", pool, mA, mB, Fee(pool), <<0, 0>>), a, -b) =
              Moved("raydium", pool, mA, mB, Fee(pool), <<0, 0>>, a, b)
      BY <1>2, <1>3, MovedIn
    <2>7. QED
      BY <2>3, <2>5, <2>6
  <1>4. ASSUME a < 0, b > 0
        PROVE  RaydiumSwap(tx, instr, p) = Moved("raydium", pool, mA, mB, Fee(pool), <<0, 0>>, a, b)
    <2> DEFINE ev == Traded(pool, mA, mB, FALSE, b, -a)
    <2>1. ParseSwapEvent(pool, vA, vB) = ev
      BY <1>2, <1>4, Parsed
    <2>2. ev \in RaydiumEvent
      BY <1>1, <1>2, <1>4, HalfWord DEF Traded, RaydiumEvent, Words
    <2>3. RaydiumSwap(tx, instr, p) = convertRaydiumSwap(ev)
      BY <2>1, <2>2, ResultsAssumption DEF RaydiumSwap
    <2>4. ev.pool = pool /\ ev.mintA = mA /\ ev.mintB = mB /\ ev.isBaseInput = FALSE
          /\ ev.amountIn = b /\ ev.amountOut = -a
      BY DEF Traded
    <2>5. convertRaydiumSwap(ev) =
              QuoteToBase(Event("raydium", pool, mA, mB, Fee(pool), <<0, 0>>), b, -a)
      BY <2>4 DEF convertRaydiumSwap
    <2> HIDE DEF pool, vA, vB, a, b, mA, mB, ev
    <2>6. QuoteToBase(Event("raydium", pool, mA, mB, Fee(pool), <<0, 0>>), b, -a) =
              Moved("raydium", pool, mA, mB, Fee(pool), <<0, 0>>, a, b)
      BY <1>2, <1>4, MovedOut
    <2>7. QED
      BY <2>3, <2>5, <2>6
  <1>5. ASSUME ~Exchanged(a, b) PROVE RaydiumSwap(tx, instr, p) = Error
    BY <1>2, <1>5, Parsed DEF RaydiumSwap
  <1>6. QED
    BY <1>2, <1>3, <1>4, <1>5 DEF Exchanged

-----------------------------------------------------------------------------
(* Orca *)

OrcaPoolOf(tx, instr) == tx.keys[instr.accounts[3]]

OfA(tx, pool) == {i \in Vaults(tx, pool) : tx.bal[i].mint = orcaPools[pool].mintA}

OfB(tx, pool) == {i \in Vaults(tx, pool) : tx.bal[i].mint = orcaPools[pool].mintB} \ OfA(tx, pool)

\* The early returns of buildOrcaSwap.
NoOrcaSwap(tx, instr) ==
    \/ Len(instr.accounts) < 3
    \/ instr.accounts[3] > Len(tx.keys)
    \/ orcaPools[OrcaPoolOf(tx, instr)] = Absent
    \/ OfA(tx, OrcaPoolOf(tx, instr)) = {}
    \/ OfB(tx, OrcaPoolOf(tx, instr)) = {}

OrcaMsg(pool) ==
    Event("orca", pool, orcaPools[pool].mintA, orcaPools[pool].mintB,
          FeeBps(orcaPools[pool].rate), <<0, 0>>)

OrcaSwap(pool, deltaA, deltaB) ==
    CASE deltaA = 0 /\ deltaB = 0 -> Nil
      [] deltaA < 0 /\ deltaB > 0 -> QuoteToBase(OrcaMsg(pool), Uint64(deltaB), Uint64(-deltaA))
      [] OTHER -> BaseToQuote(OrcaMsg(pool), IF deltaA > 0 THEN Uint64(deltaA) ELSE 0,
                              IF deltaB < 0 THEN Uint64(-deltaB) ELSE 0)

\* buildOrcaSwap in these terms.
LEMMA OrcaBuild ==
    ASSUME NEW tx, NEW instr
    PROVE  LET pool == OrcaPoolOf(tx, instr)
           IN  buildOrcaSwap(tx, instr) =
                   IF NoOrcaSwap(tx, instr) THEN {Nil}
                   ELSE {OrcaSwap(pool, Delta(Vault(tx, p[1])), Delta(Vault(tx, p[2]))) :
                            p \in OfA(tx, pool) \X OfB(tx, pool)}
  BY DEF buildOrcaSwap, OrcaPoolOf, NoOrcaSwap, OfA, OfB, OrcaSwap, OrcaMsg

\* The fee in basis points is of 16 bits.
LEMMA FeeBpsRange == \A rate \in Nat : FeeBps(rate) \in Nat /\ FeeBps(rate) <= 65535
  BY DEF FeeBps

\* The Orca event of two vaults: the swap they show, or one of its sides.
LEMMA OrcaMoved ==
    ASSUME NEW pool, NEW a \in -Half..(Half - 1), NEW b \in -Half..(Half - 1)
    PROVE  LET info == orcaPools[pool]
           IN  /\ Exchanged(a, b) =>
                      OrcaSwap(pool, a, b) = Moved("orca", pool, info.mintA, info.mintB,
                                                   FeeBps(info.rate), <<0, 0>>, a, b)
               /\ ~Exchanged(a, b) =>
                      \/ OrcaSwap(pool, a, b) = Nil
                      \/ \E x, y \in Words :
                            OrcaSwap(pool, a, b) = Filled("orca", pool, info.mintA, info.mintB,
                                                          FeeBps(info.rate), <<0, 0>>, x, 0, 0, y)
  <1> DEFINE mA == orcaPools[pool].mintA
             mB == orcaPools[pool].mintB
             fee == FeeBps(orcaPools[pool].rate)
             msg == Event("orca", pool, mA, mB, fee, <<0, 0>>)
  <1>1. a \in Int /\ b \in Int /\ -Half <= a /\ a < Half /\ -Half <= b /\ b < Half
    BY HalfWord
  <1>2. \A x \in Int : 0 < x /\ x <= Half => Uint64(x) = x /\ x \in Words
    BY Uint64Word, HalfWord DEF Words
  <1>3. /\ a > 0 => Uint64(a) = a /\ a \in Words
        /\ b > 0 => Uint64(b) = b /\ b \in Words
        /\ a < 0 => Uint64(-a) = -a /\ -a \in Words
        /\ b < 0 => Uint64(-b) = -b /\ -b \in Words
    BY <1>1, <1>2, HalfWord
  <1> DEFINE x == IF a > 0 THEN Uint64(a) ELSE 0
             y == IF b < 0 THEN Uint64(-b) ELSE 0
  <1>4. x \in Words /\ y \in Words
    BY <1>1, <1>3, HalfWord DEF Words
  <1>5. OrcaSwap(pool, a, b) =
            CASE a = 0 /\ b = 0 -> Nil
              [] a < 0 /\ b > 0 -> QuoteToBase(msg, Uint64(b), Uint64(-a))
              [] OTHER -> BaseToQuote(msg, x, y)
    BY DEF OrcaSwap, OrcaMsg
  <1>6. BaseToQuote(msg, x, y) = Filled("orca", pool, mA, mB, fee, <<0, 0>>, x, 0, 0, y)
    BY Fill
  <1>7. ASSUME a > 0, b < 0
        PROVE  OrcaSwap(pool, a, b) = Moved("orca", pool, mA, mB, fee, <<0, 0>>, a, b)
    <2>1. x = a /\ y = -b /\ ~(a = 0) /\ ~(a < 0)
      BY <1>1, <1>3, <1>7
    <2> HIDE DEF mA, mB, fee, x, y, msg
    <2>2. OrcaSwap(pool, a, b) = BaseToQuote(msg, a, -b)
      BY <1>5, <2>1
    <2>3. BaseToQuote(msg, a, -b) = Moved("orca", pool, mA, mB, fee, <<0, 0>>, a, b)
      BY <1>1, <1>7, MovedIn DEF msg
    <2>4. QED
      BY <2>2, <2>3
  <1>8. ASSUME a < 0, b > 0
        PROVE  OrcaSwap(pool, a, b) = Moved("orca", pool, mA, mB, fee, <<0, 0>>, a, b)
    <2>1. Uint64(b) = b /\ Uint64(-a) = -a /\ ~(a = 0)
      BY <1>1, <1>3, <1>8
    <2> HIDE DEF mA, mB, fee, x, y, msg
    <2>2. OrcaSwap(pool, a, b) = QuoteToBase(msg, b, -a)
      BY <1>5, <2>1, <1>8
    <2>3. QuoteToBase(msg, b, -a) = Moved("orca", pool, mA, mB, fee, <<0, 0>>, a, b)
      BY <1>1, <1>8, MovedOut DEF msg
    <2>4. QED
      BY <2>2, <2>3
  <1>9. ASSUME ~Exchanged(a, b), ~(a = 0 /\ b = 0)
        PROVE  OrcaSwap(pool, a, b) = Filled("orca", pool, mA, mB, fee, <<0, 0>>, x, 0, 0, y)
    BY <1>5, <1>6, <1>9 DEF Exchanged
  <1>10. a = 0 /\ b = 0 => OrcaSwap(pool, a, b) = Nil
    BY <1>5
  <1> HIDE DEF mA, mB, fee, x, y, msg
  <1>11. Exchanged(a, b) => OrcaSwap(pool, a, b) = Moved("orca", pool, mA, mB, fee, <<0, 0>>, a, b)
    BY <1>7, <1>8 DEF Exchanged
  <1>12. ~Exchanged(a, b) =>
             \/ OrcaSwap(pool, a, b) = Nil
             \/ \E u, v \in Words :
                   OrcaSwap(pool, a, b) = Filled("orca", pool, mA, mB, fee, <<0, 0>>, u, 0, 0, v)
    BY <1>4, <1>9, <1>10
  <1>13. QED
    BY <1>11, <1>12 DEF mA, mB, fee

-----------------------------------------------------------------------------
(* Meteora *)

\* balanceForAccount finds the account and can read what it finds.
Readable(tx, k) ==
    /\ k \in DOMAIN tx.bal
    /\ ~(tx.bal[k].pre = Absent /\ tx.bal[k].post = Absent)
    /\ Bad \notin {tx.bal[k].pre, tx.bal[k].post}

\* It then returns the balance the other decoders would, and otherwise an error.
LEMMA BalanceOf ==
    ASSUME NEW tx, IsTransaction(tx), NEW k
    PROVE  /\ Readable(tx, k) => /\ balanceForAccount(tx, k) = Vault(tx, k)
                                 /\ balanceForAccount(tx, k) # Error
           /\ ~Readable(tx, k) => balanceForAccount(tx, k) = Error
  <1>1. ASSUME Readable(tx, k)
        PROVE  balanceForAccount(tx, k) = Vault(tx, k) /\ balanceForAccount(tx, k) # Error
    <2>1. balanceForAccount(tx, k) = Vault(tx, k)
      BY <1>1 DEF Readable, balanceForAccount, Vault
    <2>2. Vault(tx, k) \in BalanceType
      BY <1>1, VaultType DEF Readable
    <2>3. QED
      BY <2>1, <2>2, MarkersAssumption
  <1>2. ASSUME ~Readable(tx, k) PROVE balanceForAccount(tx, k) = Error
    BY <1>2 DEF Readable, balanceForAccount
  <1>3. QED
    BY <1>1, <1>2

\* What left the trader's input account and what arrived in the output account.
Given(tx, instr) == outgoing(Vault(tx, instr.accounts[3]))

Received(tx, instr) == incoming(Vault(tx, instr.accounts[4]))

MeteoraPair(tx, instr) ==
    ResolvePair(tx.bal[instr.accounts[3]].mint, tx.bal[instr.accounts[4]].mint)

\* DecodeSwapEvent succeeds.
IsMeteora(tx, instr) ==
    /\ Len(instr.accounts) >= 8
    /\ instr.accounts[2] <= Len(tx.keys)
    /\ Readable(tx, instr.accounts[3]) /\ Readable(tx, instr.accounts[4])
    /\ Given(tx, instr) # 0 /\ Received(tx, instr) # 0

GaveBase(tx, instr) == MeteoraPair(tx, instr).base = tx.bal[instr.accounts[3]].mint

MeteoraSwap(tx, instr) ==
    Moved("meteora", tx.keys[instr.accounts[2]],
          MeteoraPair(tx, instr).base, MeteoraPair(tx, instr).quote,
          LoggedFee(tx.logs), LoggedReserves(tx.logs, instr.kind),
          IF GaveBase(tx, instr) THEN Given(tx, instr) ELSE -Received(tx, instr),
          IF GaveBase(tx, instr) THEN -Received(tx, instr) ELSE Given(tx, instr))

\* The amounts are words.
LEMMA GivenType ==
    ASSUME NEW tx, IsTransaction(tx), NEW instr, IsMeteora(tx, instr)
    PROVE  /\ Given(tx, instr) \in Words /\ Given(tx, instr) > 0
           /\ Received(tx, instr) \in Words /\ Received(tx, instr) > 0
           /\ Given(tx, instr) =
                  Vault(tx, instr.accounts[3]).pre - Vault(tx, instr.accounts[3]).post
           /\ Received(tx, instr) =
                  Vault(tx, instr.accounts[4]).post - Vault(tx, instr.accounts[4]).pre
  <1> DEFINE u == Vault(tx, instr.accounts[3])
             v == Vault(tx, instr.accounts[4])
  <1>1. u \in BalanceType /\ v \in BalanceType
    BY VaultType DEF IsMeteora, Readable
  <1>2. /\ u.pre \in Nat /\ u.post \in Nat /\ v.pre \in Nat /\ v.post \in Nat
        /\ u.pre < Word /\ u.post < Word /\ v.pre < Word /\ v.post < Word
    BY <1>1, HalfWord DEF BalanceType, Words
  <1>3. outgoing(u) # 0 /\ incoming(v) # 0
    BY DEF IsMeteora, Given, Received
  <1> HIDE DEF u, v
  <1>4. /\ outgoing(u) \in Words /\ outgoing(u) > 0 /\ outgoing(u) = u.pre - u.post
        /\ incoming(v) \in Words /\ incoming(v) > 0 /\ incoming(v) = v.post - v.pre
    BY <1>2, <1>3, HalfWord DEF outgoing, incoming, Words
  <1>5. QED
    BY <1>4 DEF Given, Received, u, v

\* The fee and the reserves are numbers, whatever the lines of the log are.
LEMMA LogTypes ==
    ASSUME NEW tx, IsTransaction(tx), NEW kind
    PROVE  /\ LoggedFee(tx.logs) \in Nat /\ LoggedFee(tx.logs) < FeeWord
           /\ LoggedReserves(tx.logs, kind) \in Nat \X Nat
  <1> DEFINE logs == tx.logs
             fees == {i \in DOMAIN logs : logs[i].fee # Absent}
             marker == IF kind = "dlmm" THEN "virtual_reserves" ELSE "cpmm_reserves"
             lines == {i \in DOMAIN logs : logs[i].marker = marker /\ logs[i].reserves # <<0, 0>>}
  <1>1. logs \in Seq(LogLine)
    BY DEF IsTransaction
  <1>2. Len(logs) \in Nat /\ DOMAIN logs = 1..Len(logs)
    BY <1>1
  <1>3. \A i \in DOMAIN logs : logs[i] \in LogLine
    BY <1>1
  <1>4. LoggedFee(logs) \in Nat /\ LoggedFee(logs) < FeeWord
    <2>1. CASE fees = {}
      BY <2>1, FeeWordAssumption DEF LoggedFee
    <2>2. CASE fees # {}
      <3>1. fees \subseteq 1..Len(logs)
        BY <1>2
      <3> HIDE DEF fees
      <3>2. Last(fees) \in fees
        BY <1>2, <2>2, <3>1, LastIsMember
      <3>3. logs[Last(fees)] \in LogLine /\ logs[Last(fees)].fee # Absent
        BY <1>3, <3>2 DEF fees
      <3>4. LoggedFee(logs) = logs[Last(fees)].fee % FeeWord
        BY <2>2 DEF LoggedFee, fees
      <3>5. QED
        BY <3>3, <3>4, FeeWordAssumption DEF LogLine
    <2>3. QED
      BY <2>1, <2>2
  <1>5. LoggedReserves(logs, kind) \in Nat \X Nat
    <2>1. CASE lines = {}
      <3>1. LoggedReserves(logs, kind) = <<0, 0>>
        BY <2>1 DEF LoggedReserves
      <3>2. QED
        BY <3>1
    <2>2. CASE lines # {}
      <3>1. lines \subseteq 1..Len(logs)
        BY <1>2
      <3> HIDE DEF lines
      <3>2. Last(lines) \in lines
        BY <1>2, <2>2, <3>1, LastIsMember
      <3>3. logs[Last(lines)] \in LogLine
        BY <1>3, <3>2 DEF lines
      <3>4. LoggedReserves(logs, kind) = logs[Last(lines)].reserves
        BY <2>2 DEF LoggedReserves, lines
      <3>5. QED
        BY <3>3, <3>4 DEF LogLine
    <2>3. QED
      BY <2>1, <2>2
  <1>6. QED
    BY <1>4, <1>5

\* buildMeteoraSwap in these terms.
LEMMA MeteoraBuild ==
    ASSUME NEW tx, IsTransaction(tx), NEW instr \in Instruction
    PROVE  buildMeteoraSwap(tx, instr) =
               IF IsMeteora(tx, instr) THEN {MeteoraSwap(tx, instr)} ELSE {Error}
  <1> DEFINE k == instr.accounts[3]
             l == instr.accounts[4]
             pool == tx.keys[instr.accounts[2]]
             input == balanceForAccount(tx, k)
             output == balanceForAccount(tx, l)
             pair == ResolvePair(input.mint, output.mint)
             given == outgoing(input)
             received == incoming(output)
             fee == LoggedFee(tx.logs)
             reserves == LoggedReserves(tx.logs, instr.kind)
             gave == pair.base = input.mint
             ev == [pool |-> pool, base |-> pair.base, quote |-> pair.quote,
                    baseAmount |-> IF gave THEN given ELSE received,
                    quoteAmount |-> IF gave THEN received ELSE given,
                    baseDecreased |-> pair.base # input.mint,
                    fee |-> fee, reserves |-> reserves]
  <1>1. DecodeSwapEvent(tx, instr) =
            IF Len(instr.accounts) < 8 \/ instr.accounts[2] > Len(tx.keys) THEN Error
            ELSE IF Error \in {input, output} THEN Error
            ELSE IF pair = Error \/ given = 0 \/ received = 0 THEN Error
            ELSE ev
    BY DEF DecodeSwapEvent
  <1>2. /\ Readable(tx, k) => input = Vault(tx, k) /\ input # Error
        /\ ~Readable(tx, k) => input = Error
        /\ Readable(tx, l) => output = Vault(tx, l) /\ output # Error
        /\ ~Readable(tx, l) => output = Error
    BY BalanceOf
  <1>3. ASSUME ~IsMeteora(tx, instr) PROVE DecodeSwapEvent(tx, instr) = Error
    <2>1. CASE ~(Readable(tx, k) /\ Readable(tx, l))
      BY <1>1, <1>2, <2>1
    <2>2. CASE Readable(tx, k) /\ Readable(tx, l)
      <3>1. given = Given(tx, instr) /\ received = Received(tx, instr)
        BY <1>2, <2>2 DEF Given, Received
      <3>2. instr.accounts \in Seq(Nat \ {0}) /\ tx.keys \in Seq(Accounts)
        BY DEF Instruction, IsTransaction
      <3>3. /\ Len(instr.accounts) \in Nat /\ Len(tx.keys) \in Nat
            /\ Len(instr.accounts) >= 8 => instr.accounts[2] \in Nat
        BY <3>2
      <3> HIDE DEF input, output, pair, given, received, ev
      <3>4. QED
        BY <1>1, <1>3, <2>2, <3>1, <3>3 DEF IsMeteora
    <2>3. QED
      BY <2>1, <2>2
  <1>4. ASSUME IsMeteora(tx, instr) PROVE buildMeteoraSwap(tx, instr) = {MeteoraSwap(tx, instr)}
    <2>1. Readable(tx, k) /\ Readable(tx, l) /\ k \in DOMAIN tx.bal /\ l \in DOMAIN tx.bal
      BY <1>4 DEF IsMeteora, Readable
    <2>2. input.mint = tx.bal[k].mint /\ output.mint = tx.bal[l].mint
      BY <1>2, <2>1, VaultType
    <2>3. /\ tx.bal[k].mint \in Nat \ {0} /\ tx.bal[l].mint \in Nat \ {0}
          /\ pair = MeteoraPair(tx, instr)
      BY <2>1, <2>2, VaultType DEF MeteoraPair
    <2>4. pair \in PairType /\ pair # Error
      BY <2>2, <2>3, OneOrientation
    <2>5. /\ given = Given(tx, instr) /\ received = Received(tx, instr)
          /\ given \in Words /\ given > 0 /\ received \in Words /\ received > 0
      BY <1>2, <1>4, <2>1, GivenType DEF Given, Received
    <2>6. gave = GaveBase(tx, instr)
      BY <2>2, <2>3 DEF GaveBase
    <2>7. pool \in Accounts
      <3>1. instr.accounts \in Seq(Nat \ {0}) /\ tx.keys \in Seq(Accounts)
        BY DEF Instruction, IsTransaction
      <3>2. instr.accounts[2] \in Nat \ {0} /\ instr.accounts[2] <= Len(tx.keys)
        BY <1>4, <3>1 DEF IsMeteora
      <3>3. QED
        BY <3>1, <3>2
    <2>8. fee \in Nat /\ reserves \in Nat \X Nat
      BY LogTypes
    <2>9. ev \in MeteoraEvent
      BY <2>4, <2>5, <2>7, <2>8 DEF MeteoraEvent, PairType
    <2>10. DecodeSwapEvent(tx, instr) = ev /\ ev # Error
      <3>1. ev # Error
        BY <2>9, ResultsAssumption
      <3>2. Len(instr.accounts) \in Nat /\ Len(instr.accounts) >= 8 /\ instr.accounts[2] <= Len(tx.keys)
        BY <1>4 DEF IsMeteora, Instruction
      <3>3. ~(instr.accounts[2] > Len(tx.keys))
        <4>1. instr.accounts \in Seq(Nat \ {0}) /\ tx.keys \in Seq(Accounts)
          BY DEF Instruction, IsTransaction
        <4>2. instr.accounts[2] \in Nat /\ Len(tx.keys) \in Nat
          BY <3>2, <4>1
        <4>3. QED
          BY <3>2, <4>2
      <3>4. input # Error /\ output # Error /\ ~(given = 0) /\ ~(received = 0)
        BY <1>2, <2>1, <2>5
      <3> HIDE DEF input, output, pair, given, received, ev
      <3>5. QED
        BY <1>1, <2>4, <3>1, <3>2, <3>3, <3>4
    <2> DEFINE msg == Event("meteora", pool, pair.base, pair.quote, fee, reserves)
    <2>11. buildMeteoraSwap(tx, instr) =
               {IF gave THEN BaseToQuote(msg, given, received) ELSE QuoteToBase(msg, given, received)}
      <3>1. /\ ev.pool = pool /\ ev.base = pair.base /\ ev.quote = pair.quote
            /\ ev.fee = fee /\ ev.reserves = reserves
            /\ ev.baseDecreased = (pair.base # input.mint)
            /\ ev.baseAmount = (IF gave THEN given ELSE received)
            /\ ev.quoteAmount = (IF gave THEN received ELSE given)
        OBVIOUS
      <3> HIDE DEF ev
      <3>2. buildMeteoraSwap(tx, instr) =
                {IF ev.baseDecreased
                 THEN QuoteToBase(Event("meteora", ev.pool, ev.base, ev.quote, ev.fee, ev.reserves),
                                  ev.quoteAmount, ev.baseAmount)
                 ELSE BaseToQuote(Event("meteora", ev.pool, ev.base, ev.quote, ev.fee, ev.reserves),
                                  ev.baseAmount, ev.quoteAmount)}
        BY <2>10 DEF buildMeteoraSwap
      <3> HIDE DEF pool, fee, reserves, input, output, pair, given, received
      <3>3. CASE gave
        BY <3>1, <3>2, <3>3
      <3>4. CASE ~gave
        BY <3>1, <3>2, <3>4
      <3>5. QED
        BY <3>3, <3>4
    <2> DEFINE M(b, q) == Moved("meteora", pool, pair.base, pair.quote, fee, reserves, b, q)
    <2>12. MeteoraSwap(tx, instr) = M(IF gave THEN given ELSE -received,
                                      IF gave THEN -received ELSE given)
      BY <2>3, <2>5, <2>6, Zenon DEF MeteoraSwap
    <2>13. given \in Int /\ received \in Int /\ given > 0 /\ received > 0
           /\ -received \in Int /\ -received < 0 /\ -(-received) = received
      BY <2>5, HalfWord DEF Words
    <2> HIDE DEF pool, pair, fee, reserves, given, received, gave
    <2>14. BaseToQuote(msg, given, received) = M(given, -received)
      <3>1. BaseToQuote(msg, given, -(-received)) = M(given, -received)
        BY <2>13, MovedIn
      <3>2. QED
        BY <2>13, <3>1
    <2>15. QuoteToBase(msg, given, received) = M(-received, given)
      <3>1. QuoteToBase(msg, given, -(-received)) = M(-received, given)
        BY <2>13, MovedOut
      <3>2. QED
        BY <2>13, <3>1
    <2>16. QED
      BY <2>11, <2>12, <2>14, <2>15
  <1>5. QED
    BY <1>3, <1>4 DEF buildMeteoraSwap

-----------------------------------------------------------------------------
(* The events of a transaction *)

\* The fields of an event.
LEMMA FilledFields ==
    ASSUME NEW program, NEW pool, NEW base, NEW quote, NEW fee, NEW reserves,
           NEW bi, NEW bo, NEW qi, NEW qo
    PROVE  LET e == Filled(program, pool, base, quote, fee, reserves, bi, bo, qi, qo)
           IN  /\ e.program = program /\ e.pool = pool /\ e.base = base /\ e.quote = quote
               /\ e.fee = fee /\ e.reserves = reserves
               /\ e.baseIn = bi /\ e.baseOut = bo /\ e.quoteIn = qi /\ e.quoteOut = qo
  BY DEF Filled

LEMMA MovedFields ==
    ASSUME NEW program, NEW pool, NEW base, NEW quote, NEW fee, NEW reserves,
           NEW b \in Int, NEW q \in Int
    PROVE  LET e == Moved(program, pool, base, quote, fee, reserves, b, q)
           IN  /\ e.program = program /\ e.pool = pool /\ e.base = base /\ e.quote = quote
               /\ e.fee = fee /\ e.reserves = reserves
               /\ e.baseIn = (IF b > 0 THEN b ELSE 0) /\ e.baseOut = (IF b < 0 THEN -b ELSE 0)
               /\ e.quoteIn = (IF q > 0 THEN q ELSE 0) /\ e.quoteOut = (IF q < 0 THEN -q ELSE 0)
               /\ e.baseIn - e.baseOut = b /\ e.quoteIn - e.quoteOut = q
  <1> DEFINE bi == IF b > 0 THEN b ELSE 0
             bo == IF b < 0 THEN -b ELSE 0
             qi == IF q > 0 THEN q ELSE 0
             qo == IF q < 0 THEN -q ELSE 0
  <1>1. bi - bo = b /\ qi - qo = q
    OBVIOUS
  <1>2. Moved(program, pool, base, quote, fee, reserves, b, q) =
            Filled(program, pool, base, quote, fee, reserves, bi, bo, qi, qo)
    BY Zenon DEF Moved
  <1> HIDE DEF bi, bo, qi, qo
  <1>3. QED
    BY <1>1, <1>2, FilledFields DEF bi, bo, qi, qo

\* An event of typed parts.
LEMMA FilledType ==
    ASSUME NEW program \in {"raydium", "orca", "meteora"}, NEW pool \in Accounts,
           NEW base \in Nat, NEW quote \in Nat, NEW fee \in Nat, NEW reserves \in Nat \X Nat,
           NEW bi \in Words, NEW bo \in Words, NEW qi \in Words, NEW qo \in Words
    PROVE  Filled(program, pool, base, quote, fee, reserves, bi, bo, qi, qo) \in SwapEvent
  BY DEF Filled, SwapEvent

LEMMA MovedType ==
    ASSUME NEW program \in {"raydium", "orca", "meteora"}, NEW pool \in Accounts,
           NEW base \in Nat, NEW quote \in Nat, NEW fee \in Nat, NEW reserves \in Nat \X Nat,
           NEW b \in Int, NEW q \in Int, -Word < b, b < Word, -Word < q, q < Word
    PROVE  Moved(program, pool, base, quote, fee, reserves, b, q) \in SwapEvent
  <1> DEFINE bi == IF b > 0 THEN b ELSE 0
             bo == IF b < 0 THEN -b ELSE 0
             qi == IF q > 0 THEN q ELSE 0
             qo == IF q < 0 THEN -q ELSE 0
  <1>1. bi \in Words /\ bo \in Words /\ qi \in Words /\ qo \in Words
    BY HalfWord DEF Words
  <1>2. Moved(program, pool, base, quote, fee, reserves, b, q) =
            Filled(program, pool, base, quote, fee, reserves, bi, bo, qi, qo)
    BY Zenon DEF Moved
  <1> HIDE DEF bi, bo, qi, qo
  <1>3. Filled(program, pool, base, quote, fee, reserves, bi, bo, qi, qo) \in SwapEvent
    BY <1>1, FilledType
  <1>4. QED
    BY <1>2, <1>3

\* The swap with what came in going out.
LEMMA MovedReversed ==
    ASSUME NEW program, NEW pool, NEW base, NEW quote, NEW fee, NEW reserves,
           NEW b \in Int, NEW q \in Int
    PROVE  Reversed(Moved(program, pool, base, quote, fee, reserves, b, q)) =
               Moved(program, pool, base, quote, fee, reserves, -b, -q)
  <1> DEFINE bi == IF b > 0 THEN b ELSE 0
             bo == IF b < 0 THEN -b ELSE 0
             qi == IF q > 0 THEN q ELSE 0
             qo == IF q < 0 THEN -q ELSE 0
             F(w, x, y, z) == Filled(program, pool, base, quote, fee, reserves, w, x, y, z)
  <1>1. /\ (IF -b > 0 THEN -b ELSE 0) = bo /\ (IF -b < 0 THEN -(-b) ELSE 0) = bi
        /\ (IF -q > 0 THEN -q ELSE 0) = qo /\ (IF -q < 0 THEN -(-q) ELSE 0) = qi
    OBVIOUS
  <1>2. Moved(program, pool, base, quote, fee, reserves, b, q) = F(bi, bo, qi, qo)
    BY Zenon DEF Moved
  <1>3. Moved(program, pool, base, quote, fee, reserves, -b, -q) = F(bo, bi, qo, qi)
    BY <1>1, Zenon DEF Moved
  <1> HIDE DEF bi, bo, qi, qo
  <1>4. Reversed(F(bi, bo, qi, qo)) = F(bo, bi, qo, qi)
    <2> DEFINE e == F(bi, bo, qi, qo)
    <2>1. e.baseIn = bi /\ e.baseOut = bo /\ e.quoteIn = qi /\ e.quoteOut = qo
      BY FilledFields
    <2>2. Reversed(e) = [[[[e EXCEPT !.baseIn = bo] EXCEPT !.baseOut = bi]
                             EXCEPT !.quoteIn = qo] EXCEPT !.quoteOut = qi]
      <3> HIDE DEF e, F
      <3>1. QED
        BY <2>1, Zenon DEF Reversed
    <2>3. /\ [F(bi, bo, qi, qo) EXCEPT !.baseIn = bo] = F(bo, bo, qi, qo)
          /\ [F(bo, bo, qi, qo) EXCEPT !.baseOut = bi] = F(bo, bi, qi, qo)
      BY DEF Filled
    <2>4. /\ [F(bo, bi, qi, qo) EXCEPT !.quoteIn = qo] = F(bo, bi, qo, qo)
          /\ [F(bo, bi, qo, qo) EXCEPT !.quoteOut = qi] = F(bo, bi, qo, qi)
      BY DEF Filled
    <2> HIDE DEF F
    <2>5. QED
      BY <2>2, <2>3, <2>4, Zenon
  <1>5. QED
    BY <1>2, <1>3, <1>4, Zenon

\* The events of two vaults that show a swap.
RaydiumEventAt(tx, instr, p) ==
    Moved("raydium", PoolOf(tx, instr), tx.bal[p[1]].mint, tx.bal[p[2]].mint,
          Fee(PoolOf(tx, instr)), <<0, 0>>, Delta(Vault(tx, p[1])), Delta(Vault(tx, p[2])))

OrcaEventAt(tx, pool, i, j) ==
    Moved("orca", pool, orcaPools[pool].mintA, orcaPools[pool].mintB,
          FeeBps(orcaPools[pool].rate), <<0, 0>>, Delta(Vault(tx, i)), Delta(Vault(tx, j)))

HalfOrcaEvent(pool, x, y) ==
    Filled("orca", pool, orcaPools[pool].mintA, orcaPools[pool].mintB,
           FeeBps(orcaPools[pool].rate), <<0, 0>>, x, 0, 0, y)

\* Every Raydium event is the swap of a pair of vaults of the pool.
LEMMA RaydiumEvents ==
    ASSUME NEW tx, IsTransaction(tx), NEW instr \in Instruction,
           NEW e \in buildRaydiumSwap(tx, instr), e # Nil, e # Error
    PROVE  /\ instr.data # "empty" /\ instr.data # "short"
           /\ \E p \in PairsOf(tx, instr) :
                 /\ Exchanged(Delta(Vault(tx, p[1])), Delta(Vault(tx, p[2])))
                 /\ e = RaydiumEventAt(tx, instr, p)
  <1>1. instr.data # "empty" /\ PairsOf(tx, instr) # {}
    BY RaydiumBuild
  <1>2. PICK p \in PairsOf(tx, instr) : e = RaydiumSwap(tx, instr, p)
    BY <1>1, RaydiumBuild
  <1>3. instr.data # "short"
    BY <1>2 DEF RaydiumSwap
  <1>4. QED
    BY <1>1, <1>2, <1>3, RaydiumMoved DEF RaydiumEventAt

\* Every Orca event is the swap of a vault of each mint, or one side of it.
LEMMA OrcaEvents ==
    ASSUME NEW tx, IsTransaction(tx), NEW instr \in Instruction,
           NEW e \in buildOrcaSwap(tx, instr), e # Nil
    PROVE  LET pool == OrcaPoolOf(tx, instr)
           IN  /\ ~NoOrcaSwap(tx, instr)
               /\ \E i \in OfA(tx, pool), j \in OfB(tx, pool) :
                     \/ /\ Exchanged(Delta(Vault(tx, i)), Delta(Vault(tx, j)))
                        /\ e = OrcaEventAt(tx, pool, i, j)
                     \/ /\ ~Exchanged(Delta(Vault(tx, i)), Delta(Vault(tx, j)))
                        /\ \E x, y \in Words : e = HalfOrcaEvent(pool, x, y)
  <1> DEFINE pool == OrcaPoolOf(tx, instr)
  <1>1. ~NoOrcaSwap(tx, instr)
    BY OrcaBuild
  <1>2. PICK p \in OfA(tx, pool) \X OfB(tx, pool) :
            e = OrcaSwap(pool, Delta(Vault(tx, p[1])), Delta(Vault(tx, p[2])))
    BY <1>1, OrcaBuild
  <1> DEFINE i == p[1]
             j == p[2]
             a == Delta(Vault(tx, i))
             b == Delta(Vault(tx, j))
  <1>3. i \in OfA(tx, pool) /\ j \in OfB(tx, pool)
    BY <1>2
  <1>4. i \in DOMAIN tx.bal /\ j \in DOMAIN tx.bal
    BY <1>3 DEF OfA, OfB, Vaults
  <1>5. a \in -Half..(Half - 1) /\ b \in -Half..(Half - 1)
    BY <1>4, VaultType
  <1> HIDE DEF pool
  <1>6. /\ Exchanged(a, b) => e = OrcaEventAt(tx, pool, i, j)
        /\ ~Exchanged(a, b) => \E x, y \in Words : e = HalfOrcaEvent(pool, x, y)
    <2> HIDE DEF a, b, i, j
    <2>1. e = OrcaSwap(pool, a, b)
      BY <1>2 DEF a, b, i, j
    <2>2. Exchanged(a, b) => e = OrcaEventAt(tx, pool, i, j)
      <3>1. OrcaEventAt(tx, pool, i, j) = Moved("orca", pool, orcaPools[pool].mintA,
                orcaPools[pool].mintB, FeeBps(orcaPools[pool].rate), <<0, 0>>, a, b)
        BY DEF OrcaEventAt, a, b
      <3>2. QED
        BY <1>5, <2>1, <3>1, OrcaMoved
    <2>3. ~Exchanged(a, b) => \E x, y \in Words : e = HalfOrcaEvent(pool, x, y)
      BY <1>5, <2>1, OrcaMoved DEF HalfOrcaEvent
    <2>4. QED
      BY <2>2, <2>3
  <1>7. QED
    BY <1>1, <1>3, <1>6 DEF pool

\* The tables of the registries that a swap is built from.
Tables ==
    /\ poolFees \in [Accounts -> Nat \cup {Absent}]
    /\ \A a \in Accounts : poolFees[a] # Absent => poolFees[a] <= 65535
    /\ orcaPools \in [Accounts -> OrcaPool \cup {Absent}]

\* An event fits its protobuf, and its fee is what the tables have.
LEMMA RaydiumEventType ==
    ASSUME Tables, NEW tx, IsTransaction(tx), NEW instr \in Instruction,
           NEW p \in PairsOf(tx, instr)
    PROVE  LET e == RaydiumEventAt(tx, instr, p)
           IN  /\ e \in SwapEvent /\ e.fee <= 65535 /\ e.program = "raydium"
               /\ e.fee = Fee(e.pool) /\ e.pool = PoolOf(tx, instr)
               /\ e.base = tx.bal[p[1]].mint /\ e.quote = tx.bal[p[2]].mint
  <1> DEFINE pool == PoolOf(tx, instr)
             fee == Fee(pool)
             mA == tx.bal[p[1]].mint
             mB == tx.bal[p[2]].mint
             a == Delta(Vault(tx, p[1]))
             b == Delta(Vault(tx, p[2]))
             none == <<0, 0>>
  <1>1. p[1] \in DOMAIN tx.bal /\ p[2] \in DOMAIN tx.bal /\ pool \in Accounts
    BY PairsType
  <1>2. mA \in Nat /\ mB \in Nat /\ a \in -Half..(Half - 1) /\ b \in -Half..(Half - 1)
    BY <1>1, VaultType
  <1>3. a \in Int /\ b \in Int /\ -Word < a /\ a < Word /\ -Word < b /\ b < Word
    BY <1>2, HalfWord
  <1>4. fee \in Nat /\ fee <= 65535
    BY <1>1 DEF Tables, Fee
  <1>5. RaydiumEventAt(tx, instr, p) = Moved("raydium", pool, mA, mB, fee, none, a, b)
    BY DEF RaydiumEventAt
  <1>6. none \in Nat \X Nat
    OBVIOUS
  <1> HIDE DEF pool, fee, mA, mB, a, b, none
  <1>7. Moved("raydium", pool, mA, mB, fee, none, a, b) \in SwapEvent
    <2> DEFINE program == "raydium"
    <2>1. program \in {"raydium", "orca", "meteora"} /\ pool \in Accounts
      BY <1>1
    <2>2. mA \in Nat /\ mB \in Nat /\ fee \in Nat
      BY <1>2, <1>4
    <2> HIDE DEF program
    <2>3. Moved(program, pool, mA, mB, fee, none, a, b) \in SwapEvent
      BY <1>3, <1>6, <2>1, <2>2, MovedType
    <2>4. QED
      BY <2>3 DEF program
  <1> DEFINE e == Moved("raydium", pool, mA, mB, fee, none, a, b)
  <1>8. e.program = "raydium" /\ e.pool = pool /\ e.base = mA /\ e.quote = mB /\ e.fee = fee
    BY FilledFields DEF Moved
  <1>9. QED
    BY <1>4, <1>5, <1>7, <1>8 DEF pool, fee, mA, mB

LEMMA OrcaEventType ==
    ASSUME Tables, NEW tx, IsTransaction(tx), NEW instr \in Instruction, ~NoOrcaSwap(tx, instr),
           NEW i \in OfA(tx, OrcaPoolOf(tx, instr)), NEW j \in OfB(tx, OrcaPoolOf(tx, instr)),
           NEW x \in Words, NEW y \in Words
    PROVE  LET pool == OrcaPoolOf(tx, instr)
           IN  \A e \in {OrcaEventAt(tx, pool, i, j), HalfOrcaEvent(pool, x, y)} :
                  /\ e \in SwapEvent /\ e.fee <= 65535 /\ e.program = "orca" /\ e.pool = pool
                  /\ e.base = tx.bal[i].mint /\ e.quote = tx.bal[j].mint
                  /\ orcaPools[pool] # Absent /\ e.fee = FeeBps(orcaPools[pool].rate)
  <1> DEFINE pool == OrcaPoolOf(tx, instr)
             info == orcaPools[pool]
             fee == FeeBps(info.rate)
             mA == info.mintA
             mB == info.mintB
             a == Delta(Vault(tx, i))
             b == Delta(Vault(tx, j))
             none == <<0, 0>>
  <1>1. /\ i \in DOMAIN tx.bal /\ j \in DOMAIN tx.bal
        /\ tx.bal[i].mint = mA /\ tx.bal[j].mint = mB
    BY DEF OfA, OfB, Vaults
  <1>2. pool \in Accounts
    <2>1. instr.accounts \in Seq(Nat \ {0}) /\ tx.keys \in Seq(Accounts)
      BY DEF Instruction, IsTransaction
    <2>2. ~(Len(instr.accounts) < 3) /\ ~(instr.accounts[3] > Len(tx.keys))
      BY DEF NoOrcaSwap
    <2>3. instr.accounts[3] \in Nat \ {0} /\ Len(tx.keys) \in Nat
      BY <2>1, <2>2
    <2>4. instr.accounts[3] \in 1..Len(tx.keys)
      BY <2>2, <2>3
    <2>5. QED
      BY <2>1, <2>4 DEF OrcaPoolOf
  <1>3. info \in OrcaPool /\ info # Absent
    BY <1>2 DEF NoOrcaSwap, Tables
  <1>4. mA \in Nat /\ mB \in Nat /\ fee \in Nat /\ fee <= 65535
    BY <1>3, FeeBpsRange DEF OrcaPool
  <1>5. a \in -Half..(Half - 1) /\ b \in -Half..(Half - 1)
    BY <1>1, VaultType
  <1>6. a \in Int /\ b \in Int /\ -Word < a /\ a < Word /\ -Word < b /\ b < Word
    BY <1>5, HalfWord
  <1>7. none \in Nat \X Nat /\ 0 \in Words
    BY HalfWord DEF Words
  <1> DEFINE e == Moved("orca", pool, mA, mB, fee, none, a, b)
             h == Filled("orca", pool, mA, mB, fee, none, x, 0, 0, y)
  <1>8. OrcaEventAt(tx, pool, i, j) = e /\ HalfOrcaEvent(pool, x, y) = h
    BY DEF OrcaEventAt, HalfOrcaEvent
  <1> HIDE DEF pool, fee, mA, mB, a, b, none
  <1>9. e \in SwapEvent /\ h \in SwapEvent
    <2> DEFINE program == "orca"
    <2>1. program \in {"raydium", "orca", "meteora"}
      OBVIOUS
    <2>2. mA \in Nat /\ mB \in Nat /\ fee \in Nat /\ none \in Nat \X Nat
      BY <1>4, <1>7
    <2> HIDE DEF program
    <2>3. Moved(program, pool, mA, mB, fee, none, a, b) \in SwapEvent
      BY <1>2, <1>6, <2>1, <2>2, MovedType
    <2> DEFINE zero == 0
    <2>4. zero \in Words
      BY <1>7
    <2> HIDE DEF zero
    <2>5. Filled(program, pool, mA, mB, fee, none, x, zero, zero, y) \in SwapEvent
      BY <1>2, <2>1, <2>2, <2>4, FilledType
    <2>6. QED
      BY <2>3, <2>5 DEF program, zero
  <1>10. /\ e.program = "orca" /\ e.pool = pool /\ e.base = mA /\ e.quote = mB /\ e.fee = fee
         /\ h.program = "orca" /\ h.pool = pool /\ h.base = mA /\ h.quote = mB /\ h.fee = fee
    BY FilledFields DEF Moved
  <1> HIDE DEF e, h
  <1>11. \A f \in {e, h} :
            /\ f \in SwapEvent /\ f.fee <= 65535 /\ f.program = "orca" /\ f.pool = pool
            /\ f.base = mA /\ f.quote = mB /\ f.fee = fee
    BY <1>4, <1>9, <1>10
  <1>12. QED
    BY <1>1, <1>3, <1>8, <1>11 DEF pool, fee, mA, mB

LEMMA MeteoraEventType ==
    ASSUME NEW tx, IsTransaction(tx), NEW instr \in Instruction, IsMeteora(tx, instr)
    PROVE  LET e == MeteoraSwap(tx, instr)
           IN  /\ e \in SwapEvent /\ e.program = "meteora" /\ e.fee < FeeWord
               /\ e.base = MeteoraPair(tx, instr).base /\ e.quote = MeteoraPair(tx, instr).quote
  <1> DEFINE pool == tx.keys[instr.accounts[2]]
             pair == MeteoraPair(tx, instr)
             base == pair.base
             quote == pair.quote
             fee == LoggedFee(tx.logs)
             reserves == LoggedReserves(tx.logs, instr.kind)
             given == Given(tx, instr)
             received == Received(tx, instr)
             b == IF GaveBase(tx, instr) THEN given ELSE -received
             q == IF GaveBase(tx, instr) THEN -received ELSE given
  <1>1. pool \in Accounts
    <2>1. instr.accounts \in Seq(Nat \ {0}) /\ tx.keys \in Seq(Accounts)
      BY DEF Instruction, IsTransaction
    <2>2. instr.accounts[2] \in Nat \ {0} /\ instr.accounts[2] <= Len(tx.keys)
      BY <2>1 DEF IsMeteora
    <2>3. QED
      BY <2>1, <2>2
  <1>2. base \in Nat /\ quote \in Nat
    <2>1. /\ tx.bal[instr.accounts[3]].mint \in Nat \ {0}
          /\ tx.bal[instr.accounts[4]].mint \in Nat \ {0}
      BY VaultType DEF IsMeteora, Readable
    <2>2. pair \in PairType
      BY <2>1, OneOrientation DEF MeteoraPair
    <2>3. QED
      BY <2>2 DEF PairType
  <1>3. fee \in Nat /\ fee < FeeWord /\ reserves \in Nat \X Nat
    BY LogTypes
  <1>4. given \in Words /\ received \in Words
    BY GivenType
  <1>5. b \in Int /\ q \in Int /\ -Word < b /\ b < Word /\ -Word < q /\ q < Word
    BY <1>4, HalfWord DEF Words
  <1> DEFINE e == Moved("meteora", pool, base, quote, fee, reserves, b, q)
  <1>6. MeteoraSwap(tx, instr) = e
    BY Zenon DEF MeteoraSwap
  <1> HIDE DEF pool, base, quote, fee, reserves, b, q
  <1>7. e \in SwapEvent
    <2> DEFINE program == "meteora"
    <2>1. program \in {"raydium", "orca", "meteora"}
      OBVIOUS
    <2> HIDE DEF program
    <2>2. Moved(program, pool, base, quote, fee, reserves, b, q) \in SwapEvent
      BY <1>1, <1>2, <1>3, <1>5, <2>1, MovedType
    <2>3. QED
      BY <2>2 DEF program
  <1>8. e.program = "meteora" /\ e.base = base /\ e.quote = quote /\ e.fee = fee
    BY FilledFields DEF Moved
  <1> HIDE DEF e
  <1>9. QED
    BY <1>3, <1>6, <1>7, <1>8 DEF base, quote

\* Every event of an instruction.
LEMMA BuiltEvent ==
    ASSUME Tables, NEW tx, IsTransaction(tx), NEW instr \in Instruction,
           NEW e \in Build(tx, instr), e # Nil, e # Error
    PROVE  /\ e \in SwapEvent /\ e.program = instr.program
           /\ e.program # "meteora" => e.fee <= 65535
           /\ e.program = "meteora" => e.fee < FeeWord
           /\ e.program = "raydium" => e.fee = Fee(e.pool)
           /\ e.program = "orca" => /\ orcaPools[e.pool] # Absent
                                    /\ e.fee = FeeBps(orcaPools[e.pool].rate)
  <1>1. CASE instr.program = "raydium"
    <2>1. e \in buildRaydiumSwap(tx, instr)
      BY <1>1 DEF Build
    <2>2. PICK p \in PairsOf(tx, instr) : e = RaydiumEventAt(tx, instr, p)
      BY <2>1, RaydiumEvents
    <2>3. QED
      BY <1>1, <2>2, RaydiumEventType
  <1>2. CASE instr.program = "orca"
    <2> DEFINE pool == OrcaPoolOf(tx, instr)
    <2>1. e \in buildOrcaSwap(tx, instr)
      BY <1>2 DEF Build
    <2>2. /\ ~NoOrcaSwap(tx, instr)
          /\ \E i \in OfA(tx, pool), j \in OfB(tx, pool), x, y \in Words :
                e \in {OrcaEventAt(tx, pool, i, j), HalfOrcaEvent(pool, x, y)}
      <3>1. 0 \in Words
        BY HalfWord DEF Words
      <3>2. QED
        BY <2>1, <3>1, OrcaEvents
    <2>3. PICK i \in OfA(tx, pool), j \in OfB(tx, pool), x \in Words, y \in Words :
              e \in {OrcaEventAt(tx, pool, i, j), HalfOrcaEvent(pool, x, y)}
      BY <2>2
    <2>4. QED
      BY <1>2, <2>2, <2>3, OrcaEventType
  <1>3. CASE instr.program = "meteora"
    <2>1. e \in buildMeteoraSwap(tx, instr)
      BY <1>3 DEF Build
    <2>2. IsMeteora(tx, instr) /\ e = MeteoraSwap(tx, instr)
      BY <2>1, MeteoraBuild
    <2>3. QED
      BY <1>3, <2>2, MeteoraEventType
  <1>4. CASE instr.program \notin {"raydium", "orca", "meteora"}
    BY <1>4 DEF Build
  <1>5. QED
    BY <1>1, <1>2, <1>3, <1>4

\* What is built for each instruction.
Choices(tx) ==
    LET built == [i \in DOMAIN tx.instrs |-> Build(tx, tx.instrs[i])]
    IN  {r \in [DOMAIN tx.instrs -> UNION {built[i] : i \in DOMAIN tx.instrs}] :
            \A i \in DOMAIN tx.instrs : r[i] \in built[i]}

Kept(r) == [i \in {j \in DOMAIN r : r[j] # Nil} |-> r[i]]

Outcome(r) == IF \E i \in DOMAIN r : r[i] = Error THEN Error ELSE Kept(r)

\* A result chooses an outcome for every instruction.
LEMMA OutcomesOf ==
    ASSUME NEW tx
    PROVE  Outcomes(tx) = {Outcome(r) : r \in Choices(tx)}
  BY DEF Outcomes, Choices, Outcome, Kept

\* An outcome without an error holds what was built, by instruction.
LEMMA OutcomeEvents ==
    ASSUME NEW tx, NEW result \in Outcomes(tx), result # Error, NEW i \in DOMAIN result
    PROVE  /\ i \in DOMAIN tx.instrs /\ result[i] \in Build(tx, tx.instrs[i])
           /\ result[i] # Nil /\ result[i] # Error
  <1>1. PICK r \in Choices(tx) : result = Outcome(r)
    BY OutcomesOf
  <1>2. DOMAIN r = DOMAIN tx.instrs /\ \A j \in DOMAIN tx.instrs : r[j] \in Build(tx, tx.instrs[j])
    BY DEF Choices
  <1>3. result = Kept(r) /\ \A j \in DOMAIN r : r[j] # Error
    BY <1>1 DEF Outcome
  <1>4. /\ i \in DOMAIN r /\ r[i] # Nil /\ result[i] = r[i]
    BY <1>3 DEF Kept
  <1>5. QED
    BY <1>2, <1>3, <1>4

\* With one instruction there is an outcome for everything that can be built,
LEMMA OneOutcome ==
    ASSUME NEW tx, DOMAIN tx.instrs = {1}, NEW e \in Build(tx, tx.instrs[1]), e # Nil, e # Error
    PROVE  [i \in {1} |-> e] \in Outcomes(tx)
  <1> DEFINE r == [i \in {1} |-> e]
  <1>1. r \in Choices(tx)
    BY DEF Choices
  <1>2. DOMAIN r = {1} /\ r[1] = e
    OBVIOUS
  <1> HIDE DEF r
  <1>3. {j \in DOMAIN r : r[j] # Nil} = {1}
    BY <1>2
  <1>4. Kept(r) = [i \in {1} |-> r[i]]
    BY <1>3, Zenon DEF Kept
  <1>5. Kept(r) = [i \in {1} |-> e]
    BY <1>2, <1>4
  <1>6. Outcome(r) = Kept(r)
    BY <1>2 DEF Outcome
  <1>7. QED
    BY <1>1, <1>5, <1>6, OutcomesOf

-----------------------------------------------------------------------------
(* The invariant *)

\* The registries have their types.
RegistriesOK ==
    /\ slotCache \in [Slots -> Times \cup {Absent}]
    /\ poolConfig \in [Accounts -> Accounts \cup {Absent}]
    /\ {poolFees, configFees} \subseteq [Accounts -> Nat \cup {Absent}]
    /\ \A a \in Accounts, f \in {poolFees, configFees} : f[a] # Absent => f[a] <= 65535
    /\ orcaPools \in [Accounts -> OrcaPool \cup {Absent}]
    /\ latest \in [Accounts -> Updates \cup {Absent}]
    /\ updates \in 0..MaxUpdates

\* The registries say what the last update of an account said.
RegistriesCurrent ==
    \A a \in Accounts :
        /\ IsA(a, "pool") => poolConfig[a] = latest[a].config
        /\ IsA(a, "config") => configFees[a] = FeeBps(latest[a].rate)
        /\ (IsA(a, "pool") /\ IsA(latest[a].config, "config")) =>
               poolFees[a] = FeeBps(latest[latest[a].config].rate)
        /\ IsWhirlpool(a) => orcaPools[a] = [mintA |-> latest[a].mintA, mintB |-> latest[a].mintB,
                                             rate |-> latest[a].rate]

\* What was returned is an outcome of the registries as they are.
Returned ==
    out # Nil /\ fresh => out.tx \in Transactions /\ out.result \in Outcomes(out.tx)

FreshOK == fresh \in BOOLEAN

DecoderIInv == RegistriesOK /\ RegistriesCurrent /\ Returned /\ FreshOK

\* Decoding reads the registries of fees and of whirlpools and no other state.
LEMMA OutcomesFrame ==
    ASSUME poolFees' = poolFees, orcaPools' = orcaPools, NEW tx
    PROVE  Outcomes(tx)' = Outcomes(tx)
  <1>1. \A ev : convertRaydiumSwap(ev)' = convertRaydiumSwap(ev)
    BY DEF convertRaydiumSwap, Fee
  <1>2. \A instr : buildRaydiumSwap(tx, instr)' = buildRaydiumSwap(tx, instr)
    <2>1. TAKE instr
    <2> DEFINE Parse(r) == ParseSwapEvent(r.pool, r.vaultA, r.vaultB)
               Swap(r) == IF instr.data = "short" \/ Parse(r) = Error THEN Error
                          ELSE convertRaydiumSwap(Parse(r))
    <2>2. \A r : Swap(r)' = Swap(r)
      BY <1>1
    <2>3. buildRaydiumSwap(tx, instr) =
              IF instr.data = "empty" \/ resolvePool(tx, instr) = {} THEN {Nil}
              ELSE {Swap(r) : r \in resolvePool(tx, instr)}
      BY DEF buildRaydiumSwap
    <2>4. buildRaydiumSwap(tx, instr)' =
              IF instr.data = "empty" \/ resolvePool(tx, instr) = {} THEN {Nil}
              ELSE {Swap(r)' : r \in resolvePool(tx, instr)}
      BY DEF buildRaydiumSwap
    <2> HIDE DEF Swap
    <2>5. QED
      BY <2>2, <2>3, <2>4
  <1>3. \A instr : buildOrcaSwap(tx, instr)' = buildOrcaSwap(tx, instr)
    BY DEF buildOrcaSwap
  <1>4. \A instr : buildMeteoraSwap(tx, instr)' = buildMeteoraSwap(tx, instr)
    BY DEF buildMeteoraSwap
  <1>5. \A instr : Build(tx, instr)' = Build(tx, instr)
    BY <1>2, <1>3, <1>4 DEF Build
  <1> DEFINE built == [i \in DOMAIN tx.instrs |-> Build(tx, tx.instrs[i])]
             Results(b) ==
                 {IF \E i \in DOMAIN r : r[i] = Error THEN Error
                  ELSE [i \in {j \in DOMAIN r : r[j] # Nil} |-> r[i]] :
                     r \in {c \in [DOMAIN b -> UNION {b[i] : i \in DOMAIN b}] :
                               \A i \in DOMAIN b : c[i] \in b[i]}}
  <1>6. built' = built
    BY <1>5
  <1>7. Outcomes(tx) = Results(built) /\ Outcomes(tx)' = Results(built')
    BY Zenon DEF Outcomes
  <1> HIDE DEF built, Results
  <1>8. QED
    BY <1>6, <1>7

\* The registries start empty.
LEMMA DecoderInit == Init => DecoderIInv
  <1> SUFFICES ASSUME Init PROVE DecoderIInv
    OBVIOUS
  <1>1. RegistriesOK
    BY MaxUpdatesAssumption DEF Init, RegistriesOK
  <1>2. RegistriesCurrent
    BY DEF Init, RegistriesCurrent, IsA, IsWhirlpool
  <1>3. QED
    BY <1>1, <1>2 DEF DecoderIInv, Returned, FreshOK, Init

\* An account update keeps the types,
LEMMA HandleAccountTypes ==
    ASSUME RegistriesOK, NEW u \in Updates, HandleAccount(u)
    PROVE  RegistriesOK'
  <1>1. /\ u.pubkey \in Accounts /\ u.config \in Accounts
        /\ u.rate \in Nat /\ u.mintA \in Nat /\ u.mintB \in Nat
    BY UpdatesAssumption
  <1>2. FeeBps(u.rate) \in Nat /\ FeeBps(u.rate) <= 65535
    BY <1>1, FeeBpsRange
  <1>3. /\ poolConfig \in [Accounts -> Accounts \cup {Absent}]
        /\ poolFees \in [Accounts -> Nat \cup {Absent}]
        /\ configFees \in [Accounts -> Nat \cup {Absent}]
        /\ \A a \in Accounts : poolFees[a] # Absent => poolFees[a] <= 65535
        /\ \A a \in Accounts : configFees[a] # Absent => configFees[a] <= 65535
        /\ orcaPools \in [Accounts -> OrcaPool \cup {Absent}]
        /\ latest \in [Accounts -> Updates \cup {Absent}]
        /\ slotCache' \in [Slots -> Times \cup {Absent}]
    BY DEF RegistriesOK, HandleAccount
  <1> DEFINE Fees(f) == /\ f \in [Accounts -> Nat \cup {Absent}]
                        /\ \A a \in Accounts : f[a] # Absent => f[a] <= 65535
  <1>4. /\ poolConfig' \in [Accounts -> Accounts \cup {Absent}]
        /\ Fees(poolFees') /\ Fees(configFees')
        /\ orcaPools' \in [Accounts -> OrcaPool \cup {Absent}]
    <2>1. CASE UNCHANGED <<poolConfig, poolFees, configFees, orcaPools>>
      BY <1>3, <2>1
    <2>2. CASE SetPool(u) /\ UNCHANGED orcaPools
      BY <1>1, <1>3, <2>2 DEF SetPool
    <2>3. CASE SetConfig(u) /\ UNCHANGED orcaPools
      BY <1>1, <1>2, <1>3, <2>3 DEF SetConfig
    <2>4. CASE handleOrcaAccount(u)
      <3>1. [mintA |-> u.mintA, mintB |-> u.mintB, rate |-> u.rate] \in OrcaPool
        BY <1>1 DEF OrcaPool
      <3>2. QED
        BY <1>1, <1>3, <2>4, <3>1 DEF handleOrcaAccount
    <2>5. QED
      BY <2>1, <2>2, <2>3, <2>4 DEF HandleAccount, handleRaydiumAccount
  <1>5. latest' \in [Accounts -> Updates \cup {Absent}]
    BY <1>1, <1>3 DEF HandleAccount
  <1>6. updates' \in 0..MaxUpdates
    BY MaxUpdatesAssumption DEF RegistriesOK, HandleAccount
  <1>7. QED
    BY <1>3, <1>4, <1>5, <1>6 DEF RegistriesOK

\* and each registry says what the last update of its account said: a config's
\* fee reaches the pools known to use it, and a pool's fee is that of its config.
LEMMA HandleAccountCurrent ==
    ASSUME RegistriesOK, RegistriesCurrent, NEW u \in Updates, HandleAccount(u)
    PROVE  RegistriesCurrent'
  <1> SUFFICES ASSUME NEW a \in Accounts
               PROVE  /\ IsA(a, "pool")' => poolConfig'[a] = latest'[a].config
                      /\ IsA(a, "config")' => configFees'[a] = FeeBps(latest'[a].rate)
                      /\ (IsA(a, "pool")' /\ IsA(latest[a].config, "config")') =>
                             poolFees'[a] = FeeBps(latest'[latest'[a].config].rate)
                      /\ IsWhirlpool(a)' =>
                             orcaPools'[a] = [mintA |-> latest'[a].mintA, mintB |-> latest'[a].mintB,
                                              rate |-> latest'[a].rate]
    BY DEF RegistriesCurrent
  <1> DEFINE k == u.pubkey
  <1>1. /\ k \in Accounts /\ u.config \in Accounts /\ u # Absent
        /\ u.rate \in Nat
    BY UpdatesAssumption, ResultsAssumption
  <1>2. FeeBps(u.rate) \in Nat /\ FeeBps(u.rate) # Absent
    BY <1>1, FeeBpsRange, MarkersAssumption
  <1>3. /\ latest' = [latest EXCEPT ![k] = u]
        /\ latest'[k] = u
        /\ \A c \in Accounts : c # k => latest'[c] = latest[c]
    BY <1>1 DEF HandleAccount, RegistriesOK
  <1>4. \A c \in Accounts : c # k => /\ IsA(c, "pool")' <=> IsA(c, "pool")
                                     /\ IsA(c, "config")' <=> IsA(c, "config")
                                     /\ IsWhirlpool(c)' <=> IsWhirlpool(c)
    BY <1>3 DEF IsA, IsWhirlpool
  <1>5. /\ IsA(k, "pool")' <=> u.owner = "raydium" /\ ReadAs(u) = "pool"
        /\ IsA(k, "config")' <=> u.owner = "raydium" /\ ReadAs(u) = "config"
        /\ IsWhirlpool(k)' <=> u.owner = "orca" /\ u.len >= OrcaRequiredLength
    BY <1>1, <1>3 DEF IsA, IsWhirlpool
  <1>6. \A c \in Accounts : latest[c] # Absent => latest[c].config \in Accounts
    BY UpdatesAssumption DEF RegistriesOK
  <1>7. /\ poolConfig \in [Accounts -> Accounts \cup {Absent}]
        /\ poolFees \in [Accounts -> Nat \cup {Absent}]
        /\ configFees \in [Accounts -> Nat \cup {Absent}]
        /\ orcaPools \in [Accounts -> OrcaPool \cup {Absent}]
    BY DEF RegistriesOK
  <1> DEFINE c == latest'[a].config
             IsConfig(d) == /\ latest'[d] # Absent
                            /\ latest'[d].owner = "raydium"
                            /\ ReadAs(latest'[d]) = "config"
  <1>8. IsA(a, "pool")' => c \in Accounts
    <2>1. CASE a = k
      BY <1>1, <1>3, <2>1
    <2>2. CASE a # k
      BY <1>3, <1>4, <1>6, <2>2 DEF IsA
    <2>3. QED
      BY <2>1, <2>2
  <1>9. (IsA(a, "pool")' /\ a # k) => c = latest[a].config
    BY <1>3
  <1>10. /\ \A d \in Accounts : d # k => (IsConfig(d) <=> IsA(d, "config"))
         /\ IsConfig(k) <=> u.owner = "raydium" /\ ReadAs(u) = "config"
         /\ IsA(a, "config")' <=> IsConfig(a)
         /\ IsA(latest[a].config, "config")' <=> IsConfig(c)
    BY <1>1, <1>3 DEF IsA
  <1> HIDE DEF IsConfig
  <1>11. \A d \in Accounts : IsA(d, "config") => configFees[d] # Absent
    <2>1. \A d \in Accounts : IsA(d, "config") =>
              configFees[d] = FeeBps(latest[d].rate) /\ latest[d].rate \in Nat
      BY UpdatesAssumption DEF RegistriesCurrent, RegistriesOK, IsA
    <2>2. QED
      BY <2>1, FeeBpsRange, MarkersAssumption
  <1>12. CASE u.owner = "raydium" /\ ReadAs(u) = "pool"
    <2>1. SetPool(u) /\ orcaPools' = orcaPools
      BY <1>12 DEF HandleAccount, handleRaydiumAccount
    <2>2. /\ configFees' = configFees
          /\ poolConfig'[k] = u.config
          /\ \A d \in Accounts : d # k => poolConfig'[d] = poolConfig[d] /\ poolFees'[d] = poolFees[d]
          /\ configFees[u.config] # Absent => poolFees'[k] = configFees[u.config]
      BY <1>1, <1>7, <2>1 DEF SetPool
    <2>3. ~IsConfig(k) /\ ~IsWhirlpool(k)'
      BY <1>5, <1>10, <1>12
    <2>4. CASE a = k
      <3>1. IsA(a, "pool")' => poolConfig'[a] = latest'[a].config
        BY <1>3, <2>2, <2>4
      <3>2. IsConfig(c) => poolFees'[a] = FeeBps(latest'[c].rate)
        <4>1. HAVE IsConfig(c)
        <4>2. c = u.config /\ c \in Accounts /\ c # k
          BY <1>1, <1>3, <2>3, <2>4, <4>1
        <4>3. IsA(c, "config") /\ latest'[c] = latest[c]
          BY <1>3, <1>4, <1>10, <4>1, <4>2
        <4>4. configFees[c] = FeeBps(latest[c].rate) /\ configFees[c] # Absent
          BY <1>11, <4>2, <4>3 DEF RegistriesCurrent
        <4>5. QED
          BY <2>2, <2>4, <4>2, <4>3, <4>4
      <3>3. QED
        BY <1>10, <2>3, <2>4, <3>1, <3>2
    <2>5. CASE a # k
      <3>1. (IsA(a, "pool")' /\ IsConfig(c)) => poolFees'[a] = FeeBps(latest'[c].rate)
        <4>1. HAVE IsA(a, "pool")' /\ IsConfig(c)
        <4>2. c \in Accounts /\ c # k /\ c = latest[a].config
          BY <1>8, <1>9, <2>3, <2>5, <4>1
        <4>3. IsA(a, "pool") /\ IsA(c, "config") /\ latest'[c] = latest[c]
          BY <1>3, <1>4, <1>10, <2>5, <4>1, <4>2
        <4>4. poolFees[a] = FeeBps(latest[c].rate)
          BY <4>2, <4>3 DEF RegistriesCurrent
        <4>5. poolFees'[a] = poolFees[a]
          BY <2>2, <2>5
        <4>6. QED
          BY <4>3, <4>4, <4>5
      <3>2. QED
        BY <1>3, <1>4, <1>10, <2>1, <2>2, <2>5, <3>1 DEF RegistriesCurrent
    <2>6. QED
      BY <2>4, <2>5
  <1>13. CASE u.owner = "raydium" /\ ReadAs(u) = "config"
    <2>1. SetConfig(u) /\ orcaPools' = orcaPools
      BY <1>13 DEF HandleAccount, handleRaydiumAccount
    <2>2. /\ poolConfig' = poolConfig
          /\ configFees'[k] = FeeBps(u.rate)
          /\ \A d \in Accounts : d # k => configFees'[d] = configFees[d]
          /\ \A d \in Accounts : poolFees'[d] =
                IF poolConfig[d] = k THEN FeeBps(u.rate) ELSE poolFees[d]
      BY <1>1, <1>7, <2>1 DEF SetConfig
    <2>3. ~IsA(k, "pool")' /\ ~IsWhirlpool(k)'
      BY <1>5, <1>13
    <2>4. CASE a = k
      BY <1>3, <2>2, <2>3, <2>4
    <2>5. CASE a # k
      <3>1. (IsA(a, "pool")' /\ IsConfig(c)) => poolFees'[a] = FeeBps(latest'[c].rate)
        <4>1. HAVE IsA(a, "pool")' /\ IsConfig(c)
        <4>2. c \in Accounts /\ c = latest[a].config /\ IsA(a, "pool")
          BY <1>4, <1>8, <1>9, <2>5, <4>1
        <4>3. poolConfig[a] = c
          BY <4>2 DEF RegistriesCurrent
        <4>4. CASE c = k
          BY <1>3, <2>2, <4>3, <4>4
        <4>5. CASE c # k
          <5>1. IsA(c, "config") /\ latest'[c] = latest[c]
            BY <1>3, <1>4, <1>10, <4>1, <4>2, <4>5
          <5>2. poolFees[a] = FeeBps(latest[c].rate)
            BY <4>2, <5>1 DEF RegistriesCurrent
          <5>3. QED
            BY <2>2, <4>3, <4>5, <5>1, <5>2
        <4>6. QED
          BY <4>4, <4>5
      <3>2. QED
        BY <1>3, <1>4, <1>10, <2>1, <2>2, <2>5, <3>1 DEF RegistriesCurrent
    <2>6. QED
      BY <2>4, <2>5
  <1>14. CASE ~(u.owner = "raydium" /\ ReadAs(u) \in {"pool", "config"})
    <2>1. poolConfig' = poolConfig /\ poolFees' = poolFees /\ configFees' = configFees
      BY <1>14 DEF HandleAccount, handleRaydiumAccount, handleOrcaAccount
    <2>2. ~IsA(k, "pool")' /\ ~IsConfig(k)
      BY <1>5, <1>10, <1>14
    <2>3. (IsA(a, "pool")' /\ IsConfig(c)) => poolFees'[a] = FeeBps(latest'[c].rate)
      <3>1. HAVE IsA(a, "pool")' /\ IsConfig(c)
      <3>2. a # k /\ c # k /\ c \in Accounts /\ c = latest[a].config
        BY <1>8, <1>9, <2>2, <3>1
      <3>3. IsA(a, "pool") /\ IsA(c, "config") /\ latest'[c] = latest[c]
        BY <1>3, <1>4, <1>10, <3>1, <3>2
      <3>4. QED
        BY <2>1, <3>2, <3>3 DEF RegistriesCurrent
    <2>4. IsWhirlpool(a)' => orcaPools'[a] = [mintA |-> latest'[a].mintA, mintB |-> latest'[a].mintB,
                                              rate |-> latest'[a].rate]
      <3>1. HAVE IsWhirlpool(a)'
      <3>2. CASE a = k
        <4>1. u.owner = "orca" /\ u.len >= OrcaRequiredLength
          BY <1>5, <3>1, <3>2
        <4>2. ~(u.len < OrcaRequiredLength)
          BY <4>1, UpdatesAssumption DEF OrcaRequiredLength
        <4>3. handleOrcaAccount(u)
          BY <4>1 DEF HandleAccount
        <4>4. orcaPools' = [orcaPools EXCEPT ![k] =
                               [mintA |-> u.mintA, mintB |-> u.mintB, rate |-> u.rate]]
          BY <4>2, <4>3 DEF handleOrcaAccount
        <4>5. QED
          BY <1>1, <1>3, <1>7, <3>2, <4>4
      <3>3. CASE a # k
        <4>1. IsWhirlpool(a) /\ latest'[a] = latest[a]
          BY <1>3, <1>4, <3>1, <3>3
        <4>2. orcaPools'[a] = orcaPools[a]
          <5>1. CASE UNCHANGED orcaPools
            BY <5>1
          <5>2. CASE handleOrcaAccount(u)
            BY <1>7, <3>3, <5>2 DEF handleOrcaAccount
          <5>3. QED
            BY <5>1, <5>2 DEF HandleAccount, handleRaydiumAccount
        <4>3. QED
          BY <4>1, <4>2 DEF RegistriesCurrent
      <3>4. QED
        BY <3>2, <3>3
    <2>5. CASE a = k
      BY <1>10, <2>2, <2>3, <2>4, <2>5
    <2>6. CASE a # k
      BY <1>3, <1>4, <1>10, <2>1, <2>3, <2>4, <2>6 DEF RegistriesCurrent
    <2>7. QED
      BY <2>5, <2>6
  <1>15. QED
    BY <1>12, <1>13, <1>14

\* Nothing that is returned is lost by a step that leaves the registries alone.
LEMMA ReturnedFrame ==
    ASSUME Returned, UNCHANGED <<poolFees, orcaPools, out, fresh>>
    PROVE  Returned'
  <1>1. CASE out = Nil \/ ~fresh
    BY <1>1 DEF Returned
  <1>2. CASE out # Nil /\ fresh
    <2>1. PICK tx \in Transactions : tx = out.tx /\ out.result \in Outcomes(tx)
      BY <1>2 DEF Returned
    <2>2. Outcomes(tx)' = Outcomes(tx)
      BY OutcomesFrame
    <2>3. out'.tx = tx /\ out'.result = out.result
      BY <2>1
    <2>4. QED
      BY <2>1, <2>2, <2>3 DEF Returned
  <1>3. QED
    BY <1>1, <1>2

\* Every step keeps the invariant.
LEMMA DecoderStep == DecoderIInv /\ [Next]_vars => DecoderIInv'
  <1> SUFFICES ASSUME DecoderIInv, [Next]_vars PROVE DecoderIInv'
    OBVIOUS
  <1> USE DEF DecoderIInv
  <1>0. FreshOK'
    BY DEF FreshOK, Next, HandleAccount, HandleBlockMeta, Restart, DecodeTransaction, Forget, vars
  <1>1. ASSUME NEW u \in Updates, HandleAccount(u) PROVE DecoderIInv'
    <2>1. RegistriesOK' /\ RegistriesCurrent'
      BY <1>1, HandleAccountTypes, HandleAccountCurrent
    <2>2. Returned'
      BY <1>1 DEF Returned, HandleAccount
    <2>3. QED
      BY <1>0, <2>1, <2>2
  <1>2. ASSUME NEW s \in Slots, NEW t \in Times \cup {Absent}, HandleBlockMeta(s, t)
        PROVE  DecoderIInv'
    <2>1. RegistriesOK'
      BY <1>2, MaxUpdatesAssumption DEF RegistriesOK, HandleBlockMeta
    <2>2. RegistriesCurrent'
      BY <1>2 DEF RegistriesCurrent, HandleBlockMeta, IsA, IsWhirlpool
    <2>3. Returned'
      BY <1>2 DEF Returned, HandleBlockMeta
    <2>4. QED
      BY <1>0, <2>1, <2>2, <2>3
  <1>3. ASSUME UNCHANGED <<registries, latest, updates>> PROVE RegistriesOK' /\ RegistriesCurrent'
    BY <1>3 DEF RegistriesOK, RegistriesCurrent, IsA, IsWhirlpool, registries
  <1>4. ASSUME NEW tx \in Transactions, DecodeTransaction(tx) PROVE DecoderIInv'
    <2>1. RegistriesOK' /\ RegistriesCurrent'
      BY <1>3, <1>4 DEF DecodeTransaction
    <2>2. PICK r \in Outcomes(tx) : out' = [tx |-> tx, result |-> r]
      BY <1>4 DEF DecodeTransaction
    <2>3. Outcomes(tx)' = Outcomes(tx)
      BY <1>4, OutcomesFrame DEF DecodeTransaction, registries
    <2>4. out'.tx = tx /\ out'.result = r
      BY <2>2
    <2>5. Returned'
      BY <2>3, <2>4 DEF Returned
    <2>6. QED
      BY <1>0, <2>1, <2>5
  <1>5. ASSUME Forget PROVE DecoderIInv'
    <2>1. RegistriesOK' /\ RegistriesCurrent'
      BY <1>3, <1>5 DEF Forget
    <2>2. QED
      BY <1>0, <2>1, <1>5 DEF Returned, Forget
  <1>6. ASSUME UNCHANGED vars PROVE DecoderIInv'
    <2>1. RegistriesOK' /\ RegistriesCurrent'
      BY <1>3, <1>6 DEF vars
    <2>2. Returned'
      BY <1>6, ReturnedFrame DEF vars, registries
    <2>3. QED
      BY <1>0, <2>1, <2>2
  <1>7. ASSUME Restart PROVE DecoderIInv'
    <2>1. RegistriesOK'
      BY <1>7, MaxUpdatesAssumption DEF RegistriesOK, Restart
    <2>2. RegistriesCurrent'
      BY <1>7 DEF RegistriesCurrent, Restart, IsA, IsWhirlpool
    <2>3. Returned'
      BY <1>7 DEF Returned, Restart
    <2>4. QED
      BY <1>0, <2>1, <2>2, <2>3
  <1>8. QED
    BY <1>1, <1>2, <1>4, <1>5, <1>6, <1>7 DEF Next

\* The registries and what was decoded with them, in every reachable state.
THEOREM DecoderCorrect == Spec => []DecoderIInv
  BY DecoderInit, DecoderStep, PTL DEF Spec

\* Every event was built for an instruction of the transaction.
LEMMA EventOf ==
    ASSUME DecoderIInv, NEW e \in Events
    PROVE  /\ out # Nil /\ out.tx \in Transactions /\ IsTransaction(out.tx)
           /\ \E i \in DOMAIN out.tx.instrs :
                 /\ out.tx.instrs[i] \in Instruction
                 /\ e \in Build(out.tx, out.tx.instrs[i])
           /\ e # Nil /\ e # Error
  <1>1. out # Nil /\ fresh /\ out.result # Error
    BY DEF Events
  <1>2. PICK i \in DOMAIN out.result : e = out.result[i]
    BY <1>1 DEF Events
  <1>3. out.tx \in Transactions /\ out.result \in Outcomes(out.tx)
    BY <1>1 DEF DecoderIInv, Returned
  <1>4. IsTransaction(out.tx)
    BY <1>3, TransactionsAssumption
  <1>5. /\ i \in DOMAIN out.tx.instrs /\ e \in Build(out.tx, out.tx.instrs[i])
        /\ e # Nil /\ e # Error
    BY <1>1, <1>2, <1>3, OutcomeEvents
  <1>6. out.tx.instrs[i] \in Instruction
    BY <1>4, <1>5 DEF IsTransaction
  <1>7. QED
    BY <1>1, <1>3, <1>4, <1>5, <1>6

\* A rate that is one does not overflow.
LEMMA BpsExact == \A rate \in Nat : IsBps(FeeBps(rate), rate)
  BY DEF IsBps, FeeBps

\* The types and the fees follow from the invariant.
LEMMA DecoderInvHolds == DecoderIInv => DecoderInv
  <1> SUFFICES ASSUME DecoderIInv PROVE DecoderInv
    OBVIOUS
  <1>1. Tables
    BY DEF DecoderIInv, RegistriesOK, Tables
  <1>2. ASSUME NEW e \in Events
        PROVE  /\ e \in SwapEvent
               /\ e.program # "meteora" => e.fee <= 65535
               /\ e.program = "meteora" => e.fee < FeeWord
               /\ e.program = "raydium" => e.fee = Fee(e.pool)
               /\ e.program = "orca" => /\ orcaPools[e.pool] # Absent
                                        /\ e.fee = FeeBps(orcaPools[e.pool].rate)
    BY <1>1, EventOf, BuiltEvent
  <1>3. TypeOK
    <2>1. ASSUME NEW e \in Events
          PROVE  e \in SwapEvent /\ e.fee < IF e.program = "meteora" THEN FeeWord ELSE 65536
      <3>1. e.fee \in Nat
        BY <1>2 DEF SwapEvent
      <3>2. QED
        BY <1>2, <3>1
    <2>2. QED
      BY <2>1 DEF TypeOK, DecoderIInv, RegistriesOK, FreshOK
  <1>4. FeeIsCurrent
    <2> SUFFICES ASSUME NEW e \in Events
                 PROVE  /\ (/\ e.program = "raydium"
                            /\ IsA(e.pool, "pool")
                            /\ IsA(latest[e.pool].config, "config"))
                           => IsBps(e.fee, latest[latest[e.pool].config].rate)
                        /\ (e.program = "orca" /\ IsWhirlpool(e.pool)) =>
                               IsBps(e.fee, latest[e.pool].rate)
      BY DEF FeeIsCurrent
    <2>1. e.pool \in Accounts
      BY <1>2 DEF SwapEvent
    <2>2. \A a \in Accounts : latest[a] # Absent => latest[a].rate \in Nat /\ latest[a].config \in Accounts
      BY UpdatesAssumption DEF DecoderIInv, RegistriesOK
    <2>3. ASSUME e.program = "raydium", IsA(e.pool, "pool"), IsA(latest[e.pool].config, "config")
          PROVE  IsBps(e.fee, latest[latest[e.pool].config].rate)
      <3> DEFINE rate == latest[latest[e.pool].config].rate
      <3>1. poolFees[e.pool] = FeeBps(rate)
        BY <2>1, <2>3 DEF DecoderIInv, RegistriesCurrent
      <3>2. rate \in Nat
        BY <2>1, <2>2, <2>3 DEF IsA
      <3> HIDE DEF rate
      <3>3. FeeBps(rate) \in Nat /\ FeeBps(rate) # Absent
        BY <3>2, FeeBpsRange, MarkersAssumption
      <3>4. e.fee = FeeBps(rate)
        BY <1>2, <2>3, <3>1, <3>3 DEF Fee
      <3>5. QED
        BY <3>2, <3>4, BpsExact DEF rate
    <2>4. ASSUME e.program = "orca", IsWhirlpool(e.pool) PROVE IsBps(e.fee, latest[e.pool].rate)
      <3> DEFINE rate == latest[e.pool].rate
      <3>1. orcaPools[e.pool].rate = rate
        <4> DEFINE a == e.pool
        <4>1. orcaPools[a] = [mintA |-> latest[a].mintA, mintB |-> latest[a].mintB,
                              rate |-> latest[a].rate]
          BY <2>1, <2>4 DEF DecoderIInv, RegistriesCurrent
        <4>2. QED
          BY <4>1
      <3>2. rate \in Nat
        BY <2>1, <2>2, <2>4 DEF IsWhirlpool
      <3>3. e.fee = FeeBps(rate)
        BY <1>2, <2>4, <3>1
      <3>4. QED
        BY <3>2, <3>3, BpsExact
    <2>5. QED
      BY <2>3, <2>4
  <1>5. QED
    BY <1>3, <1>4 DEF DecoderInv

\* The registries are typed, every event fits its protobuf, and a swap carries
\* the fee of the account data received last, in whatever order pools, configs
\* and whirlpools arrived (handleRaydiumAccount, handleOrcaAccount).
THEOREM DecoderTheorem == Spec => []DecoderInv
  BY DecoderCorrect, DecoderInvHolds, PTL

-----------------------------------------------------------------------------
(* The amounts *)

\* In a plain transaction an account's owner and mint say which it is.
LEMMA NetOf ==
    ASSUME NEW tx, IsTransaction(tx), Plain(tx), NEW i \in DOMAIN tx.bal
    PROVE  /\ Net(tx, tx.bal[i].owner, tx.bal[i].mint) = Vault(tx, i).post - Vault(tx, i).pre
           /\ Vault(tx, i).post - Vault(tx, i).pre \in Int
  <1> DEFINE owner == tx.bal[i].owner
             mint == tx.bal[i].mint
             k == CHOOSE n \in DOMAIN tx.bal : tx.bal[n].owner = owner /\ tx.bal[n].mint = mint
  <1>1. k \in DOMAIN tx.bal /\ tx.bal[k].owner = owner /\ tx.bal[k].mint = mint
    OBVIOUS
  <1>2. k = i
    <2> HIDE DEF k
    <2>1. QED
      BY <1>1 DEF Plain
  <1>3. Net(tx, owner, mint) = Amount(tx.bal[k].post) - Amount(tx.bal[k].pre)
    BY DEF Net
  <1> HIDE DEF k
  <1>4. Net(tx, owner, mint) = Vault(tx, i).post - Vault(tx, i).pre
    BY <1>2, <1>3, VaultType
  <1>5. Vault(tx, i).post \in Int /\ Vault(tx, i).pre \in Int
    BY VaultType, HalfWord DEF BalanceType, Words
  <1>6. QED
    BY <1>4, <1>5

\* The owner of a trader's token account, and the balances an event was read from:
\* those of the pool the decoder found, or the Meteora instruction's accounts.
Giver(tx, n) == tx.bal[tx.instrs[1].accounts[n]].owner

ReadSide(tx, e, mint) ==
    IF e.program = "meteora" THEN -Net(tx, Giver(tx, 3), mint) ELSE Net(tx, e.pool, mint)

ReadSwap(tx, e) ==
    LET b == ReadSide(tx, e, e.base)
        q == ReadSide(tx, e, e.quote)
    IN  /\ (b > 0 /\ q < 0) \/ (b < 0 /\ q > 0)
        /\ IF e.program = "meteora" THEN Giver(tx, 3) = Giver(tx, 4)
           ELSE \A d \in {b, q} : -Half < d /\ d < Half

\* The first owner a Raydium instruction names is the pool.
LEMMA FirstOwner ==
    ASSUME NEW tx, IsTransaction(tx), NEW instr \in Instruction, instr = tx.instrs[1],
           instr.program = "raydium", NamesPool(tx), NEW p \in PairsOf(tx, instr)
    PROVE  PoolOf(tx, instr) = Pool(tx)
  <1> DEFINE Is(n, a) == instr.accounts[n] <= Len(tx.keys) /\ tx.keys[instr.accounts[n]] = a
             f == First(Owners(tx, instr))
  <1>1. Holders(tx) \ {Trader(tx)} = {Pool(tx)}
    BY DEF NamesPool
  <1>2. PICK n \in DOMAIN instr.accounts :
            Is(n, Pool(tx)) /\ \A k \in DOMAIN instr.accounts : k < n => ~Is(k, Trader(tx))
    BY DEF NamesPool
  <1>3. Vaults(tx, Pool(tx)) # {}
    BY <1>1 DEF Holders
  <1>4. n \in Owners(tx, instr)
    BY <1>2, <1>3 DEF Owners
  <1>5. Owners(tx, instr) \subseteq Nat
    BY DEF Owners, Instruction
  <1>6. f \in Owners(tx, instr) /\ f <= n
    BY <1>4, <1>5, LeastNat DEF First
  <1>7. PoolOf(tx, instr) = tx.keys[instr.accounts[f]]
    BY DEF PoolOf
  <1> HIDE DEF f
  <1>8. f \in DOMAIN instr.accounts /\ Is(f, PoolOf(tx, instr)) /\ Vaults(tx, PoolOf(tx, instr)) # {}
    BY <1>6, <1>7 DEF Owners
  <1>9. PoolOf(tx, instr) \in Holders(tx)
    BY <1>8, PairsType DEF Holders
  <1>10. CASE f = n
    BY <1>2, <1>8, <1>10
  <1>11. CASE f # n
    <2>1. f < n
      BY <1>4, <1>5, <1>6, <1>11
    <2>2. PoolOf(tx, instr) # Trader(tx)
      BY <1>2, <1>8, <2>1
    <2>3. QED
      BY <1>1, <1>9, <2>2
  <1>12. QED
    BY <1>10, <1>11

\* So the balances an event of a trade was read from are the trader's and the pool's.
LEMMA AsRead ==
    ASSUME Tables, NEW tx, IsTransaction(tx), NEW e \in Build(tx, tx.instrs[1]), e # Nil, e # Error,
           IsTrade(tx, e)
    PROVE  /\ ReadSwap(tx, e)
           /\ \A m : ReadSide(tx, e, m) = Reference(tx, e, m)
           /\ e.program # "meteora" => e.pool = Pool(tx)
  <1> DEFINE instr == tx.instrs[1]
  <1>1. Plain(tx) /\ NamesPool(tx) /\ IsSwap(tx, e)
    BY DEF IsTrade
  <1>2. instr \in Instruction
    BY <1>1 DEF IsTransaction, Plain
  <1>3. e.program = instr.program
    BY <1>2, BuiltEvent
  <1>4. CASE instr.program = "raydium"
    <2>1. PICK p \in PairsOf(tx, instr) : e = RaydiumEventAt(tx, instr, p)
      BY <1>2, <1>4, RaydiumEvents DEF Build
    <2>2. e.pool = PoolOf(tx, instr)
      BY <1>2, <2>1, RaydiumEventType
    <2>3. e.pool = Pool(tx)
      BY <1>1, <1>2, <1>4, <2>1, <2>2, FirstOwner
    <2>4. e.program # "meteora"
      BY <1>3, <1>4
    <2>5. \A m : ReadSide(tx, e, m) = Reference(tx, e, m)
      BY <2>3, <2>4 DEF ReadSide, Reference
    <2>6. QED
      BY <1>1, <2>3, <2>4, <2>5 DEF ReadSwap, IsSwap
  <1>5. CASE instr.program = "orca"
    <2>1. e \in buildOrcaSwap(tx, instr)
      BY <1>5 DEF Build
    <2>2. PICK i \in OfA(tx, OrcaPoolOf(tx, instr)), j \in OfB(tx, OrcaPoolOf(tx, instr)),
               x \in Words, y \in Words :
              e \in {OrcaEventAt(tx, OrcaPoolOf(tx, instr), i, j),
                     HalfOrcaEvent(OrcaPoolOf(tx, instr), x, y)}
      <3>1. 0 \in Words
        BY HalfWord DEF Words
      <3>2. QED
        BY <1>2, <2>1, <3>1, OrcaEvents
    <2>3. e.pool = OrcaPoolOf(tx, instr)
      BY <1>2, <2>1, <2>2, OrcaEvents, OrcaEventType
    <2>4. e.pool = Pool(tx)
      BY <1>1, <1>5, <2>3 DEF NamesPool, OrcaPoolOf
    <2>5. e.program # "meteora"
      BY <1>3, <1>5
    <2>6. \A m : ReadSide(tx, e, m) = Reference(tx, e, m)
      BY <2>4, <2>5 DEF ReadSide, Reference
    <2>7. QED
      BY <1>1, <2>4, <2>5, <2>6 DEF ReadSwap, IsSwap
  <1>6. CASE instr.program = "meteora"
    <2>1. Giver(tx, 3) = Trader(tx) /\ Giver(tx, 4) = Trader(tx)
      BY <1>1, <1>6 DEF NamesPool, Giver
    <2>2. e.program = "meteora"
      BY <1>3, <1>6
    <2>3. \A m : ReadSide(tx, e, m) = Reference(tx, e, m)
      BY <2>1, <2>2 DEF ReadSide, Reference
    <2>4. QED
      BY <1>1, <2>1, <2>2, <2>3 DEF ReadSwap, IsSwap
  <1>7. CASE instr.program \notin {"raydium", "orca", "meteora"}
    BY <1>7 DEF Build
  <1>8. QED
    BY <1>4, <1>5, <1>6, <1>7

\* The change of a vault is the change of its owner's balance when it fits.
LEMMA DeltaNet ==
    ASSUME NEW tx, IsTransaction(tx), Plain(tx), NEW i \in DOMAIN tx.bal,
           -Half < Net(tx, tx.bal[i].owner, tx.bal[i].mint),
           Net(tx, tx.bal[i].owner, tx.bal[i].mint) < Half
    PROVE  Delta(Vault(tx, i)) = Net(tx, tx.bal[i].owner, tx.bal[i].mint)
  <1>1. Vault(tx, i).pre \in Words /\ Vault(tx, i).post \in Words
    BY VaultType DEF BalanceType
  <1>2. QED
    BY <1>1, NetOf, DeltaExact

\* The references of a swap of a pool are the changes of the two vaults.
LEMMA PoolReferences ==
    ASSUME NEW tx, IsTransaction(tx), Plain(tx), NEW e, e.program # "meteora", ReadSwap(tx, e),
           NEW i \in Vaults(tx, e.pool), NEW j \in Vaults(tx, e.pool),
           tx.bal[i].mint = e.base, tx.bal[j].mint = e.quote
    PROVE  LET a == Delta(Vault(tx, i))
               b == Delta(Vault(tx, j))
           IN  /\ a = ReadSide(tx, e, e.base) /\ b = ReadSide(tx, e, e.quote)
               /\ a = Net(tx, e.pool, e.base) /\ b = Net(tx, e.pool, e.quote)
               /\ a = Vault(tx, i).post - Vault(tx, i).pre
               /\ b = Vault(tx, j).post - Vault(tx, j).pre
               /\ a \in Int /\ b \in Int /\ -Half < a /\ a < Half /\ -Half < b /\ b < Half
               /\ Exchanged(a, b)
  <1>1. /\ i \in DOMAIN tx.bal /\ j \in DOMAIN tx.bal
        /\ tx.bal[i].owner = e.pool /\ tx.bal[j].owner = e.pool
    BY DEF Vaults
  <1> DEFINE x == Net(tx, e.pool, e.base)
             y == Net(tx, e.pool, e.quote)
  <1>2. x = ReadSide(tx, e, e.base) /\ y = ReadSide(tx, e, e.quote)
    BY DEF ReadSide
  <1>3. (x > 0 /\ y < 0) \/ (x < 0 /\ y > 0)
    BY <1>2 DEF ReadSwap
  <1>4. -Half < x /\ x < Half /\ -Half < y /\ y < Half
    BY <1>2 DEF ReadSwap
  <1>5. /\ x = Vault(tx, i).post - Vault(tx, i).pre /\ x \in Int
        /\ y = Vault(tx, j).post - Vault(tx, j).pre /\ y \in Int
    BY <1>1, NetOf
  <1>6. Delta(Vault(tx, i)) = x /\ Delta(Vault(tx, j)) = y
    BY <1>1, <1>4, DeltaNet
  <1> HIDE DEF x, y
  <1>7. QED
    BY <1>2, <1>3, <1>4, <1>5, <1>6 DEF Exchanged, x, y

\* An event of the pool is the swap of its vaults.
LEMMA RaydiumShape ==
    ASSUME Tables, NEW tx, IsTransaction(tx), Plain(tx), NEW instr \in Instruction,
           NEW p \in PairsOf(tx, instr), NEW e, e = RaydiumEventAt(tx, instr, p), ReadSwap(tx, e)
    PROVE  LET a == Delta(Vault(tx, p[1]))
               b == Delta(Vault(tx, p[2]))
           IN  /\ p[1] \in Vaults(tx, e.pool) /\ p[2] \in Vaults(tx, e.pool)
               /\ p[1] \in DOMAIN tx.bal /\ p[2] \in DOMAIN tx.bal
               /\ tx.bal[p[1]].mint = e.base /\ tx.bal[p[2]].mint = e.quote
               /\ a = ReadSide(tx, e, e.base) /\ b = ReadSide(tx, e, e.quote)
               /\ a = Net(tx, e.pool, e.base) /\ b = Net(tx, e.pool, e.quote)
               /\ a = Vault(tx, p[1]).post - Vault(tx, p[1]).pre
               /\ b = Vault(tx, p[2]).post - Vault(tx, p[2]).pre
               /\ a \in Int /\ b \in Int /\ -Half < a /\ a < Half /\ -Half < b /\ b < Half
               /\ Exchanged(a, b)
  <1>1. /\ e.program = "raydium" /\ e.pool = PoolOf(tx, instr)
        /\ tx.bal[p[1]].mint = e.base /\ tx.bal[p[2]].mint = e.quote
    BY RaydiumEventType
  <1>2. /\ p[1] \in Vaults(tx, e.pool) /\ p[2] \in Vaults(tx, e.pool)
        /\ p[1] \in DOMAIN tx.bal /\ p[2] \in DOMAIN tx.bal
    BY <1>1, PairsType
  <1>3. e.program # "meteora"
    BY <1>1
  <1>4. QED
    BY <1>1, <1>2, <1>3, PoolReferences

\* So is one of a whirlpool, which then has both its sides.
LEMMA OrcaShape ==
    ASSUME Tables, NEW tx, IsTransaction(tx), Plain(tx), NEW instr \in Instruction,
           NEW e \in buildOrcaSwap(tx, instr), e # Nil, ReadSwap(tx, e)
    PROVE  LET pool == OrcaPoolOf(tx, instr)
           IN  /\ ~NoOrcaSwap(tx, instr)
               /\ \E i \in OfA(tx, pool), j \in OfB(tx, pool) :
                     LET a == Delta(Vault(tx, i))
                         b == Delta(Vault(tx, j))
                     IN  /\ e = OrcaEventAt(tx, pool, i, j)
                         /\ i \in DOMAIN tx.bal /\ j \in DOMAIN tx.bal
                         /\ a = ReadSide(tx, e, e.base) /\ b = ReadSide(tx, e, e.quote)
                         /\ a = Vault(tx, i).post - Vault(tx, i).pre
                         /\ b = Vault(tx, j).post - Vault(tx, j).pre
                         /\ a \in Int /\ b \in Int /\ -Half < a /\ a < Half /\ -Half < b /\ b < Half
                         /\ Exchanged(a, b)
  <1> DEFINE pool == OrcaPoolOf(tx, instr)
  <1>1. ~NoOrcaSwap(tx, instr)
    BY OrcaEvents
  <1>2. PICK i \in OfA(tx, pool), j \in OfB(tx, pool) :
            \/ /\ Exchanged(Delta(Vault(tx, i)), Delta(Vault(tx, j)))
               /\ e = OrcaEventAt(tx, pool, i, j)
            \/ /\ ~Exchanged(Delta(Vault(tx, i)), Delta(Vault(tx, j)))
               /\ \E x, y \in Words : e = HalfOrcaEvent(pool, x, y)
    BY OrcaEvents
  <1>3. 0 \in Words
    BY HalfWord DEF Words
  <1>4. PICK x \in Words, y \in Words : e \in {OrcaEventAt(tx, pool, i, j), HalfOrcaEvent(pool, x, y)}
    BY <1>2, <1>3
  <1>5. /\ e.program = "orca" /\ e.pool = pool
        /\ e.base = tx.bal[i].mint /\ e.quote = tx.bal[j].mint
    BY <1>1, <1>4, OrcaEventType
  <1>6. i \in Vaults(tx, e.pool) /\ j \in Vaults(tx, e.pool)
    BY <1>5 DEF OfA, OfB
  <1>7. i \in DOMAIN tx.bal /\ j \in DOMAIN tx.bal
    BY <1>6 DEF Vaults
  <1>8. e.program # "meteora"
    BY <1>5
  <1> DEFINE a == Delta(Vault(tx, i))
             b == Delta(Vault(tx, j))
  <1>9. /\ a = ReadSide(tx, e, e.base) /\ b = ReadSide(tx, e, e.quote)
        /\ a = Vault(tx, i).post - Vault(tx, i).pre
        /\ b = Vault(tx, j).post - Vault(tx, j).pre
        /\ a \in Int /\ b \in Int /\ -Half < a /\ a < Half /\ -Half < b /\ b < Half
        /\ Exchanged(a, b)
    BY <1>5, <1>6, <1>8, PoolReferences
  <1>10. e = OrcaEventAt(tx, pool, i, j)
    BY <1>2, <1>9
  <1> HIDE DEF pool
  <1>11. QED
    BY <1>1, <1>7, <1>9, <1>10 DEF pool

\* A Meteora event is the trader's swap seen from the pool; its two mints differ
\* and are those of the trader's accounts.
LEMMA MeteoraShape ==
    ASSUME NEW tx, IsTransaction(tx), Plain(tx), tx.instrs[1] \in Instruction,
           IsMeteora(tx, tx.instrs[1]), NEW e, e = MeteoraSwap(tx, tx.instrs[1]), ReadSwap(tx, e)
    PROVE  LET instr == tx.instrs[1]
           IN  /\ tx.bal[instr.accounts[3]].mint # tx.bal[instr.accounts[4]].mint
               /\ (IF GaveBase(tx, instr) THEN Given(tx, instr) ELSE -Received(tx, instr)) =
                      ReadSide(tx, e, e.base)
               /\ (IF GaveBase(tx, instr) THEN -Received(tx, instr) ELSE Given(tx, instr)) =
                      ReadSide(tx, e, e.quote)
  <1> DEFINE instr == tx.instrs[1]
             k == instr.accounts[3]
             l == instr.accounts[4]
             mK == tx.bal[k].mint
             mL == tx.bal[l].mint
             pair == MeteoraPair(tx, instr)
             owner == Giver(tx, 3)
             given == Given(tx, instr)
             received == Received(tx, instr)
  <1>1. e.program = "meteora" /\ e.base = pair.base /\ e.quote = pair.quote
    BY MeteoraEventType
  <1>2. k \in DOMAIN tx.bal /\ l \in DOMAIN tx.bal
    BY DEF IsMeteora, Readable
  <1>3. mK \in Nat \ {0} /\ mL \in Nat \ {0}
    BY <1>2, VaultType
  <1>4. tx.bal[k].owner = owner /\ tx.bal[l].owner = owner
    BY <1>1 DEF ReadSwap, Giver
  <1>5. \A m : ReadSide(tx, e, m) = -Net(tx, owner, m)
    BY <1>1 DEF ReadSide
  <1> DEFINE b == ReadSide(tx, e, e.base)
             q == ReadSide(tx, e, e.quote)
  <1>6. (b > 0 /\ q < 0) \/ (b < 0 /\ q > 0)
    BY DEF ReadSwap
  <1>7. /\ Net(tx, owner, mK) = Vault(tx, k).post - Vault(tx, k).pre
        /\ Net(tx, owner, mL) = Vault(tx, l).post - Vault(tx, l).pre
    BY <1>2, <1>4, NetOf
  <1>8. /\ Vault(tx, k).pre \in Int /\ Vault(tx, k).post \in Int
        /\ Vault(tx, l).pre \in Int /\ Vault(tx, l).post \in Int
    BY <1>2, VaultType, HalfWord DEF BalanceType, Words
  <1>9. /\ given = Vault(tx, k).pre - Vault(tx, k).post
        /\ received = Vault(tx, l).post - Vault(tx, l).pre
    BY GivenType
  <1>10. /\ -Net(tx, owner, mK) = given /\ -Net(tx, owner, mL) = -received
         /\ given \in Int /\ received \in Int
    BY <1>7, <1>8, <1>9
  <1>11. pair.base \in {mK, mL} /\ pair.quote \in {mK, mL} /\ (pair.base = mK \/ pair.quote = mK)
         /\ (pair.base = mL \/ pair.quote = mL)
    <2>1. pair = ResolvePair(mK, mL)
      BY DEF MeteoraPair
    <2> HIDE DEF mK, mL, pair
    <2>2. /\ pair.base = (IF pair.inverted THEN mL ELSE mK)
          /\ pair.quote = (IF pair.inverted THEN mK ELSE mL)
      BY <1>3, <2>1, OneOrientation
    <2>3. QED
      BY <2>2
  <1>12. b \in Int /\ q \in Int
    BY <1>1, <1>5, <1>10, <1>11
  <1>13. pair.base # pair.quote
    BY <1>1, <1>6, <1>12
  <1>14. mK # mL
    BY <1>11, <1>13
  <1>15. CASE GaveBase(tx, instr)
    <2>1. pair.base = mK /\ pair.quote = mL
      BY <1>11, <1>13, <1>15 DEF GaveBase
    <2>2. QED
      BY <1>1, <1>5, <1>10, <1>14, <1>15, <2>1
  <1>16. CASE ~GaveBase(tx, instr)
    <2>1. pair.base = mL /\ pair.quote = mK
      BY <1>11, <1>16 DEF GaveBase
    <2>2. QED
      BY <1>1, <1>5, <1>10, <1>14, <1>16, <2>1
  <1>17. QED
    BY <1>15, <1>16

\* The one instruction of a plain transaction.
LEMMA PlainInstr ==
    ASSUME NEW tx, IsTransaction(tx), Plain(tx)
    PROVE  DOMAIN tx.instrs = {1} /\ tx.instrs[1] \in Instruction
  BY DEF IsTransaction, Plain

\* The event of a swap is made of its references.
LEMMA SwapShape ==
    ASSUME Tables, NEW tx, IsTransaction(tx), Plain(tx),
           NEW e \in Build(tx, tx.instrs[1]), e # Nil, e # Error, ReadSwap(tx, e)
    PROVE  LET b == ReadSide(tx, e, e.base)
               q == ReadSide(tx, e, e.quote)
           IN  /\ b \in Int /\ q \in Int
               /\ e.baseIn - e.baseOut = b /\ e.quoteIn - e.quoteOut = q
  <1> DEFINE instr == tx.instrs[1]
             b == ReadSide(tx, e, e.base)
             q == ReadSide(tx, e, e.quote)
  <1>1. instr \in Instruction
    BY PlainInstr
  <1> SUFFICES /\ b \in Int /\ q \in Int
               /\ \E program, pool, base, quote, fee, reserves :
                     e = Moved(program, pool, base, quote, fee, reserves, b, q)
    <2> HIDE DEF b, q
    <2>1. ASSUME b \in Int, q \in Int, NEW program, NEW pool, NEW base, NEW quote, NEW fee,
                 NEW reserves, e = Moved(program, pool, base, quote, fee, reserves, b, q)
          PROVE  e.baseIn - e.baseOut = b /\ e.quoteIn - e.quoteOut = q
      BY <2>1, MovedFields
    <2>2. QED
      BY <2>1 DEF b, q
  <1>2. CASE instr.program = "raydium"
    <2>1. e \in buildRaydiumSwap(tx, instr)
      BY <1>2 DEF Build
    <2>2. PICK p \in PairsOf(tx, instr) : e = RaydiumEventAt(tx, instr, p)
      BY <1>1, <2>1, RaydiumEvents
    <2>3. /\ Delta(Vault(tx, p[1])) = b /\ b \in Int
          /\ Delta(Vault(tx, p[2])) = q /\ q \in Int
      BY <1>1, <2>2, RaydiumShape
    <2> HIDE DEF b, q
    <2>4. QED
      BY <2>2, <2>3 DEF RaydiumEventAt
  <1>3. CASE instr.program = "orca"
    <2> DEFINE pool == OrcaPoolOf(tx, instr)
    <2>1. e \in buildOrcaSwap(tx, instr)
      BY <1>3 DEF Build
    <2>2. PICK i \in OfA(tx, pool), j \in OfB(tx, pool) :
              /\ e = OrcaEventAt(tx, pool, i, j)
              /\ Delta(Vault(tx, i)) = b /\ Delta(Vault(tx, i)) \in Int
              /\ Delta(Vault(tx, j)) = q /\ Delta(Vault(tx, j)) \in Int
      BY <1>1, <2>1, OrcaShape
    <2> HIDE DEF b, q
    <2>3. QED
      BY <2>2 DEF OrcaEventAt
  <1>4. CASE instr.program = "meteora"
    <2>1. e \in buildMeteoraSwap(tx, instr)
      BY <1>4 DEF Build
    <2>2. IsMeteora(tx, instr) /\ e = MeteoraSwap(tx, instr)
      BY <1>1, <2>1, MeteoraBuild
    <2>3. /\ (IF GaveBase(tx, instr) THEN Given(tx, instr) ELSE -Received(tx, instr)) = b
          /\ (IF GaveBase(tx, instr) THEN -Received(tx, instr) ELSE Given(tx, instr)) = q
      BY <1>1, <2>2, MeteoraShape
    <2>4. Given(tx, instr) \in Int /\ Received(tx, instr) \in Int
      BY <2>2, GivenType, HalfWord DEF Words
    <2> HIDE DEF b, q
    <2>5. b \in Int /\ q \in Int
      BY <2>3, <2>4
    <2>6. QED
      BY <2>2, <2>3, <2>5, Zenon DEF MeteoraSwap
  <1>5. CASE instr.program \notin {"raydium", "orca", "meteora"}
    BY <1>5 DEF Build
  <1>6. QED
    BY <1>2, <1>3, <1>4, <1>5

\* The one event of a plain transaction.
LEMMA PlainEvent ==
    ASSUME DecoderIInv, NEW e \in Events, Plain(out.tx)
    PROVE  /\ Tables /\ out # Nil /\ out.tx \in Transactions /\ IsTransaction(out.tx)
           /\ DOMAIN out.tx.instrs = {1} /\ out.tx.instrs[1] \in Instruction
           /\ e \in Build(out.tx, out.tx.instrs[1]) /\ e # Nil /\ e # Error
  <1>1. Tables
    BY DEF DecoderIInv, RegistriesOK, Tables
  <1>2. IsTransaction(out.tx) /\ out # Nil /\ out.tx \in Transactions
    BY EventOf
  <1>3. DOMAIN out.tx.instrs = {1} /\ out.tx.instrs[1] \in Instruction
    BY <1>2, PlainInstr
  <1>4. QED
    BY <1>1, <1>2, <1>3, EventOf

\* The invariant gives each property, by the shape of a single event.
LEMMA AmountsHold == DecoderIInv => AmountsAreChanges
  <1> SUFFICES ASSUME DecoderIInv, NEW e \in Events, IsTrade(out.tx, e)
               PROVE  /\ e.program # "meteora" => e.pool = Pool(out.tx)
                      /\ e.baseIn - e.baseOut = Reference(out.tx, e, e.base)
                      /\ e.quoteIn - e.quoteOut = Reference(out.tx, e, e.quote)
    BY DEF AmountsAreChanges
  <1>1. Plain(out.tx)
    BY DEF IsTrade
  <1>2. /\ ReadSwap(out.tx, e) /\ \A m : ReadSide(out.tx, e, m) = Reference(out.tx, e, m)
        /\ e.program # "meteora" => e.pool = Pool(out.tx)
    BY <1>1, PlainEvent, AsRead
  <1>3. /\ e.baseIn - e.baseOut = ReadSide(out.tx, e, e.base)
        /\ e.quoteIn - e.quoteOut = ReadSide(out.tx, e, e.quote)
    BY <1>1, <1>2, PlainEvent, SwapShape
  <1>4. QED
    BY <1>2, <1>3

\* A trade of one instruction that names the pool where its decoder looks is an
\* event of that pool, and its amounts are what the pool gained and lost, each
\* under its mint and on its side (resolvePool, ParseSwapEvent, convertRaydiumSwap,
\* buildOrcaSwap, buildMeteoraSwap), for words of any width and changes below
\* half of it.
THEOREM AmountsTheorem == Spec => []AmountsAreChanges
  BY DecoderCorrect, AmountsHold, PTL

-----------------------------------------------------------------------------
(* Delivered again *)

\* When an instruction names every balance there is one pair of vaults at most.
LEMMA OnePair ==
    ASSUME NEW tx, NEW instr,
           DOMAIN tx.bal \subseteq {instr.accounts[k] : k \in DOMAIN instr.accounts},
           NEW p \in PairsOf(tx, instr), NEW r \in PairsOf(tx, instr)
    PROVE  p = r
  <1> DEFINE V == Vaults(tx, PoolOf(tx, instr))
             N == {k \in DOMAIN instr.accounts : instr.accounts[k] \in V}
  <1>1. p \in VaultPairs(instr, V) /\ r \in VaultPairs(instr, V)
    BY DEF PairsOf
  <1>2. CASE \E k, l \in N : k # l
    BY <1>1, <1>2 DEF VaultPairs
  <1>3. CASE ~\E k, l \in N : k # l
    <2>1. p \in V \X V /\ p[1] # p[2]
      BY <1>1, <1>3 DEF VaultPairs
    <2>2. p[1] \in DOMAIN tx.bal /\ p[2] \in DOMAIN tx.bal /\ p[1] \in V /\ p[2] \in V
      BY <2>1 DEF Vaults
    <2>3. PICK k \in DOMAIN instr.accounts : instr.accounts[k] = p[1]
      BY <2>2
    <2>4. PICK l \in DOMAIN instr.accounts : instr.accounts[l] = p[2]
      BY <2>2
    <2>5. k \in N /\ l \in N /\ k # l
      BY <2>1, <2>2, <2>3, <2>4
    <2>6. QED
      BY <1>3, <2>5
  <1>4. QED
    BY <1>2, <1>3

\* An event without the fee, which is all that Raydium and Orca events take from
\* what may change in the registries.
Unpriced(e) == IF e \in {Nil, Error} THEN e ELSE [e EXCEPT !.fee = 0]

LEMMA UnpricedFilled ==
    ASSUME NEW program, NEW pool, NEW base, NEW quote, NEW fee, NEW reserves,
           NEW bi, NEW bo, NEW qi, NEW qo
    PROVE  [Filled(program, pool, base, quote, fee, reserves, bi, bo, qi, qo) EXCEPT !.fee = 0] =
               Filled(program, pool, base, quote, 0, reserves, bi, bo, qi, qo)
  BY DEF Filled

LEMMA UnpricedMoved ==
    ASSUME NEW program, NEW pool, NEW base, NEW quote, NEW fee, NEW reserves, NEW b, NEW q
    PROVE  [Moved(program, pool, base, quote, fee, reserves, b, q) EXCEPT !.fee = 0] =
               Moved(program, pool, base, quote, 0, reserves, b, q)
  <1> DEFINE bi == IF b > 0 THEN b ELSE 0
             bo == IF b < 0 THEN -b ELSE 0
             qi == IF q > 0 THEN q ELSE 0
             qo == IF q < 0 THEN -q ELSE 0
  <1>1. \A f : Moved(program, pool, base, quote, f, reserves, b, q) =
                   Filled(program, pool, base, quote, f, reserves, bi, bo, qi, qo)
    BY Zenon DEF Moved
  <1> HIDE DEF bi, bo, qi, qo
  <1>2. [Filled(program, pool, base, quote, fee, reserves, bi, bo, qi, qo) EXCEPT !.fee = 0] =
            Filled(program, pool, base, quote, 0, reserves, bi, bo, qi, qo)
    BY UnpricedFilled
  <1>3. QED
    BY <1>1, <1>2

\* The mints the chain gives a whirlpool, and the registry of those that are known.
IsMints(a, m) ==
    \E u \in Updates : /\ u.owner = "orca" /\ u.pubkey = a /\ OrcaRequiredLength <= u.len
                       /\ m = <<u.mintA, u.mintB>>

ChainMints(a) == CHOOSE m : IsMints(a, m)

MintsOK ==
    \A a \in Accounts :
        orcaPools[a] # Absent => <<orcaPools[a].mintA, orcaPools[a].mintB>> = ChainMints(a)

\* The swap of two vaults of a whirlpool with given mints and fee.
OrcaWith(pool, m, fee, a, b) ==
    LET msg == Event("orca", pool, m[1], m[2], fee, <<0, 0>>)
    IN  CASE a = 0 /\ b = 0 -> Nil
          [] a < 0 /\ b > 0 -> QuoteToBase(msg, Uint64(b), Uint64(-a))
          [] OTHER -> BaseToQuote(msg, IF a > 0 THEN Uint64(a) ELSE 0,
                                  IF b < 0 THEN Uint64(-b) ELSE 0)

\* What an instruction can be built to but for the fee, whatever the registries hold.
RaydiumCore(tx, instr, p) ==
    LET a == Delta(Vault(tx, p[1]))
        b == Delta(Vault(tx, p[2]))
    IN  IF instr.data = "short" \/ ~Exchanged(a, b) THEN Error
        ELSE Moved("raydium", PoolOf(tx, instr), tx.bal[p[1]].mint, tx.bal[p[2]].mint,
                   0, <<0, 0>>, a, b)

RaydiumCores(tx, instr) ==
    IF instr.data = "empty" \/ PairsOf(tx, instr) = {} THEN {Nil}
    ELSE {RaydiumCore(tx, instr, p) : p \in PairsOf(tx, instr)}

ChainA(tx, pool) == {i \in Vaults(tx, pool) : tx.bal[i].mint = ChainMints(pool)[1]}

ChainB(tx, pool) == {i \in Vaults(tx, pool) : tx.bal[i].mint = ChainMints(pool)[2]}

OrcaCores(tx, instr) ==
    LET pool == OrcaPoolOf(tx, instr)
    IN  {OrcaWith(pool, ChainMints(pool), 0, Delta(Vault(tx, p[1])), Delta(Vault(tx, p[2]))) :
            p \in ChainA(tx, pool) \X ChainB(tx, pool)}

Core(tx, e) ==
    LET instr == tx.instrs[1]
    IN  /\ e \in SwapEvent \cup {Nil, Error}
        /\ e \in SwapEvent => e.program = instr.program
        /\ instr.program = "raydium" => Unpriced(e) \in RaydiumCores(tx, instr)
        /\ instr.program = "orca" => e = Nil \/ (e # Error /\ Unpriced(e) \in OrcaCores(tx, instr))
        /\ instr.program = "meteora" => e \in buildMeteoraSwap(tx, instr)
        /\ instr.program \notin {"raydium", "orca", "meteora"} => e = Nil

LEMMA RaydiumUnpriced ==
    ASSUME Tables, NEW tx, IsTransaction(tx), NEW instr \in Instruction,
           NEW e \in buildRaydiumSwap(tx, instr)
    PROVE  Unpriced(e) \in RaydiumCores(tx, instr)
  <1>1. CASE instr.data = "empty" \/ PairsOf(tx, instr) = {}
    <2>1. e = Nil
      BY <1>1, RaydiumBuild
    <2>2. QED
      BY <1>1, <2>1 DEF Unpriced, RaydiumCores
  <1>2. CASE ~(instr.data = "empty" \/ PairsOf(tx, instr) = {})
    <2>1. PICK p \in PairsOf(tx, instr) : e = RaydiumSwap(tx, instr, p)
      BY <1>2, RaydiumBuild
    <2> DEFINE a == Delta(Vault(tx, p[1]))
               b == Delta(Vault(tx, p[2]))
               pool == PoolOf(tx, instr)
               mA == tx.bal[p[1]].mint
               mB == tx.bal[p[2]].mint
               none == <<0, 0>>
    <2>2. RaydiumCore(tx, instr, p) \in RaydiumCores(tx, instr)
      BY <1>2 DEF RaydiumCores
    <2>3. CASE instr.data = "short"
      <3>1. e = Error
        BY <2>1, <2>3 DEF RaydiumSwap
      <3>2. RaydiumCore(tx, instr, p) = Error
        BY <2>3 DEF RaydiumCore
      <3>3. QED
        BY <2>2, <3>1, <3>2 DEF Unpriced
    <2>4. CASE instr.data # "short" /\ ~Exchanged(a, b)
      <3>1. e = Error
        BY <2>1, <2>4, RaydiumMoved
      <3>2. RaydiumCore(tx, instr, p) = Error
        BY <2>4 DEF RaydiumCore
      <3>3. QED
        BY <2>2, <3>1, <3>2 DEF Unpriced
    <2>5. CASE instr.data # "short" /\ Exchanged(a, b)
      <3>1. e = Moved("raydium", pool, mA, mB, Fee(pool), none, a, b)
        BY <2>1, <2>5, RaydiumMoved
      <3>2. RaydiumCore(tx, instr, p) = Moved("raydium", pool, mA, mB, 0, none, a, b)
        BY <2>5 DEF RaydiumCore
      <3>3. e \notin {Nil, Error}
        <4>1. e = RaydiumEventAt(tx, instr, p)
          BY <3>1 DEF RaydiumEventAt
        <4>2. e \in SwapEvent
          BY <4>1, RaydiumEventType
        <4>3. QED
          BY <4>2, ResultsAssumption
      <3> HIDE DEF a, b, pool, mA, mB, none
      <3>4. Unpriced(e) = Moved("raydium", pool, mA, mB, 0, none, a, b)
        BY <3>1, <3>3, UnpricedMoved DEF Unpriced
      <3>5. QED
        BY <2>2, <3>2, <3>4
    <2>6. QED
      BY <2>3, <2>4, <2>5
  <1>3. QED
    BY <1>1, <1>2

LEMMA OrcaUnpriced ==
    ASSUME Tables, MintsOK, NEW tx, IsTransaction(tx), NEW instr \in Instruction,
           NEW e \in buildOrcaSwap(tx, instr), e # Nil, e # Error
    PROVE  Unpriced(e) \in OrcaCores(tx, instr)
  <1> DEFINE pool == OrcaPoolOf(tx, instr)
             info == orcaPools[pool]
             fee == FeeBps(info.rate)
             m == ChainMints(pool)
  <1>1. ~NoOrcaSwap(tx, instr)
    BY OrcaBuild
  <1>2. pool \in Accounts /\ info # Absent
    <2>1. instr.accounts \in Seq(Nat \ {0}) /\ tx.keys \in Seq(Accounts)
      BY DEF Instruction, IsTransaction
    <2>2. Len(instr.accounts) >= 3 /\ instr.accounts[3] <= Len(tx.keys) /\ info # Absent
      BY <1>1, <2>1 DEF NoOrcaSwap
    <2>3. instr.accounts[3] \in Nat \ {0}
      BY <2>1, <2>2
    <2>4. QED
      BY <2>1, <2>2, <2>3 DEF OrcaPoolOf
  <1>3. m = <<info.mintA, info.mintB>>
    BY <1>2 DEF MintsOK
  <1>4. m[1] = info.mintA /\ m[2] = info.mintB
    BY <1>3
  <1>5. PICK p \in OfA(tx, pool) \X OfB(tx, pool) :
            e = OrcaSwap(pool, Delta(Vault(tx, p[1])), Delta(Vault(tx, p[2])))
    BY <1>1, OrcaBuild
  <1>6. p \in ChainA(tx, pool) \X ChainB(tx, pool)
    BY <1>4, <1>5 DEF OfA, OfB, ChainA, ChainB
  <1> DEFINE a == Delta(Vault(tx, p[1]))
             b == Delta(Vault(tx, p[2]))
  <1>7. OrcaWith(pool, m, 0, a, b) \in OrcaCores(tx, instr)
    BY <1>6 DEF OrcaCores
  <1> HIDE DEF pool, info, fee, m, a, b
  <1>8. e = OrcaWith(pool, m, fee, a, b)
    BY <1>4, <1>5 DEF OrcaSwap, OrcaMsg, OrcaWith, info, fee, a, b
  <1>9. a \in Int /\ b \in Int
    <2>1. p[1] \in DOMAIN tx.bal /\ p[2] \in DOMAIN tx.bal
      BY <1>6 DEF ChainA, ChainB, Vaults
    <2>2. QED
      BY <2>1, VaultType, HalfWord DEF a, b
  <1>10. [OrcaWith(pool, m, fee, a, b) EXCEPT !.fee = 0] = OrcaWith(pool, m, 0, a, b)
    <2> DEFINE none == <<0, 0>>
               x == IF a > 0 THEN Uint64(a) ELSE 0
               y == IF b < 0 THEN Uint64(-b) ELSE 0
    <2>1. ~(a = 0 /\ b = 0)
      BY <1>8 DEF OrcaWith
    <2>2. CASE a < 0 /\ b > 0
      <3> DEFINE v == Uint64(b)
                 w == Uint64(-a)
      <3>1. \A f : OrcaWith(pool, m, f, a, b) =
                       QuoteToBase(Event("orca", pool, m[1], m[2], f, none), v, w)
        BY <2>1, <2>2 DEF OrcaWith
      <3> HIDE DEF none, v, w
      <3>2. \A f : OrcaWith(pool, m, f, a, b) =
                       Filled("orca", pool, m[1], m[2], f, none, 0, w, v, 0)
        BY <3>1, Fill
      <3>3. QED
        BY <3>2, UnpricedFilled
    <2>3. CASE ~(a < 0 /\ b > 0)
      <3>1. \A f : OrcaWith(pool, m, f, a, b) =
                       BaseToQuote(Event("orca", pool, m[1], m[2], f, none), x, y)
        BY <2>1, <2>3 DEF OrcaWith
      <3> HIDE DEF none, x, y
      <3>2. \A f : OrcaWith(pool, m, f, a, b) =
                       Filled("orca", pool, m[1], m[2], f, none, x, 0, 0, y)
        BY <3>1, Fill
      <3>3. QED
        BY <3>2, UnpricedFilled
    <2>4. QED
      BY <2>2, <2>3
  <1>11. QED
    BY <1>7, <1>8, <1>10 DEF Unpriced

\* The Orca decoder returns no error.
LEMMA OrcaNoError ==
    ASSUME Tables, NEW tx, IsTransaction(tx), NEW instr \in Instruction,
           NEW e \in buildOrcaSwap(tx, instr), e # Nil
    PROVE  e # Error
  <1> DEFINE pool == OrcaPoolOf(tx, instr)
  <1>1. 0 \in Words
    BY HalfWord DEF Words
  <1>2. ~NoOrcaSwap(tx, instr)
    BY OrcaEvents
  <1>3. PICK i \in OfA(tx, pool), j \in OfB(tx, pool), x \in Words, y \in Words :
            e \in {OrcaEventAt(tx, pool, i, j), HalfOrcaEvent(pool, x, y)}
    BY <1>1, OrcaEvents
  <1>4. e \in SwapEvent
    BY <1>2, <1>3, OrcaEventType
  <1>5. QED
    BY <1>4, ResultsAssumption

\* Everything that is built has such a core.
LEMMA BuiltCore ==
    ASSUME Tables, MintsOK, NEW tx, IsTransaction(tx), Plain(tx), NEW e \in Build(tx, tx.instrs[1])
    PROVE  Core(tx, e)
  <1> DEFINE instr == tx.instrs[1]
  <1>1. instr \in Instruction
    BY PlainInstr
  <1>2. e \in SwapEvent \cup {Nil, Error} /\ (e \in SwapEvent => e.program = instr.program)
    <2>1. CASE e \in {Nil, Error}
      BY <2>1, ResultsAssumption
    <2>2. CASE e \notin {Nil, Error}
      BY <1>1, <2>2, BuiltEvent
    <2>3. QED
      BY <2>1, <2>2
  <1>3. CASE instr.program = "raydium"
    <2>1. Unpriced(e) \in RaydiumCores(tx, instr)
      BY <1>1, <1>3, RaydiumUnpriced DEF Build
    <2>2. QED
      BY <1>2, <1>3, <2>1 DEF Core
  <1>4. CASE instr.program = "orca"
    <2>1. e \in buildOrcaSwap(tx, instr)
      BY <1>4 DEF Build
    <2>2. CASE e = Nil
      BY <1>2, <1>4, <2>2 DEF Core
    <2>3. CASE e # Nil
      <3>1. e # Error
        BY <1>1, <2>1, <2>3, OrcaNoError
      <3>2. QED
        BY <1>1, <1>2, <1>4, <2>1, <2>3, <3>1, OrcaUnpriced DEF Core
    <2>4. QED
      BY <2>2, <2>3
  <1>5. CASE instr.program = "meteora"
    <2>1. e \in buildMeteoraSwap(tx, instr)
      BY <1>5 DEF Build
    <2>2. QED
      BY <1>2, <1>5, <2>1 DEF Core
  <1>6. CASE instr.program \notin {"raydium", "orca", "meteora"}
    <2>1. e = Nil
      BY <1>6 DEF Build
    <2>2. QED
      BY <1>2, <1>6, <2>1 DEF Core
  <1>7. QED
    BY <1>3, <1>4, <1>5, <1>6

\* A transaction has one core, but that an Orca swap may be missing.
LEMMA OneCore ==
    ASSUME NEW tx, IsTransaction(tx), Named(tx), NEW d, Core(tx, d), NEW e, Core(tx, e)
    PROVE  \/ Unpriced(d) = Unpriced(e)
           \/ /\ tx.instrs[1].program = "orca"
              /\ d # Error /\ e # Error /\ (d = Nil \/ e = Nil)
  <1> DEFINE instr == tx.instrs[1]
  <1>1. Plain(tx) /\ DOMAIN tx.instrs = {1} /\ instr \in Instruction
    BY PlainInstr DEF Named
  <1>2. CASE instr.program = "raydium"
    <2>1. Unpriced(d) \in RaydiumCores(tx, instr) /\ Unpriced(e) \in RaydiumCores(tx, instr)
      BY <1>2 DEF Core
    <2>2. DOMAIN tx.bal \subseteq {instr.accounts[k] : k \in DOMAIN instr.accounts}
      BY <1>1, <1>2 DEF Named
    <2>3. \A p, r \in PairsOf(tx, instr) : p = r
      BY <2>2, OnePair
    <2>4. QED
      BY <2>1, <2>3 DEF RaydiumCores
  <1>3. CASE instr.program = "orca"
    <2> DEFINE pool == OrcaPoolOf(tx, instr)
    <2>1. /\ d = Nil \/ (d # Error /\ Unpriced(d) \in OrcaCores(tx, instr))
          /\ e = Nil \/ (e # Error /\ Unpriced(e) \in OrcaCores(tx, instr))
      BY <1>3 DEF Core
    <2>2. CASE d = Nil \/ e = Nil
      BY <1>3, <2>1, <2>2, ResultsAssumption
    <2>3. CASE d # Nil /\ e # Nil
      <3>1. \A p, r \in ChainA(tx, pool) \X ChainB(tx, pool) : p[1] = r[1] /\ p[2] = r[2]
        BY <1>1 DEF Plain, ChainA, ChainB, Vaults
      <3>2. QED
        BY <2>1, <2>3, <3>1 DEF OrcaCores
    <2>4. QED
      BY <2>2, <2>3
  <1>4. CASE instr.program = "meteora"
    <2>1. d \in buildMeteoraSwap(tx, instr) /\ e \in buildMeteoraSwap(tx, instr)
      BY <1>4 DEF Core
    <2>2. QED
      BY <1>1, <2>1, MeteoraBuild
  <1>5. CASE instr.program \notin {"raydium", "orca", "meteora"}
    BY <1>5 DEF Core
  <1>6. QED
    BY <1>2, <1>3, <1>4, <1>5

\* With one instruction a result is the outcome of something that can be built,
LEMMA OnlyOutcome ==
    ASSUME NEW tx, DOMAIN tx.instrs = {1}, NEW result \in Outcomes(tx)
    PROVE  \E e \in Build(tx, tx.instrs[1]) : result = Outcome([i \in {1} |-> e])
  <1>1. PICK r \in Choices(tx) : result = Outcome(r)
    BY OutcomesOf
  <1>2. r = [i \in {1} |-> r[i]] /\ r[1] \in Build(tx, tx.instrs[1])
    BY DEF Choices
  <1>3. r = [i \in {1} |-> r[1]]
    BY <1>2
  <1>4. QED
    BY <1>1, <1>2, <1>3

\* and it is an error, nothing, or the event.
LEMMA OutcomeOfOne ==
    ASSUME NEW e
    PROVE  LET r == Outcome([i \in {1} |-> e])
           IN  /\ e = Error => r = Error
               /\ (e # Error /\ e = Nil) => r \in [{} -> SwapEvent]
               /\ (e # Error /\ e # Nil) => r = [i \in {1} |-> e]
  <1> DEFINE s == [i \in {1} |-> e]
  <1>1. DOMAIN s = {1} /\ s[1] = e
    OBVIOUS
  <1> HIDE DEF s
  <1>2. e = Error => Outcome(s) = Error
    BY <1>1 DEF Outcome
  <1>3. e # Error => Outcome(s) = Kept(s)
    BY <1>1 DEF Outcome
  <1>4. e = Nil => Kept(s) \in [{} -> SwapEvent]
    <2>1. {j \in DOMAIN s : s[j] # Nil} = {} \/ e # Nil
      BY <1>1
    <2>2. QED
      BY <2>1 DEF Kept
  <1>5. e # Nil => Kept(s) = [i \in {1} |-> e]
    <2>1. SUFFICES ASSUME e # Nil PROVE Kept(s) = [i \in {1} |-> e]
      OBVIOUS
    <2>2. {j \in DOMAIN s : s[j] # Nil} = {1}
      BY <1>1, <2>1
    <2>3. Kept(s) = [i \in {1} |-> s[i]]
      BY <2>2, Zenon DEF Kept
    <2>4. QED
      BY <1>1, <2>3
  <1>6. QED
    BY <1>2, <1>3, <1>4, <1>5 DEF s

\* Results of one core are the same trades.
LEMMA SameResults ==
    ASSUME NEW tx \in Transactions, Named(tx), NEW d, Core(tx, d), NEW e, Core(tx, e)
    PROVE  SameTrades(Outcome([i \in {1} |-> d]), Outcome([i \in {1} |-> e]))
  <1> DEFINE r == Outcome([i \in {1} |-> d])
             s == Outcome([i \in {1} |-> e])
  <1>1. IsTransaction(tx) /\ DOMAIN tx.instrs = {1}
    BY TransactionsAssumption, PlainInstr DEF Named
  <1>2. /\ d \in SwapEvent \cup {Nil, Error} /\ (d \in SwapEvent => d.program = tx.instrs[1].program)
        /\ e \in SwapEvent \cup {Nil, Error} /\ (e \in SwapEvent => e.program = tx.instrs[1].program)
    BY DEF Core
  <1>3. Nil # Error /\ Nil \notin SwapEvent /\ Error \notin SwapEvent
    BY ResultsAssumption
  <1>4. Error \notin [{} -> SwapEvent] /\ Error \notin [{1} -> SwapEvent]
    <2>1. {} \in SUBSET DOMAIN tx.instrs /\ {1} \in SUBSET DOMAIN tx.instrs
      BY <1>1
    <2>2. QED
      BY <2>1, ResultsAssumption
  <1>5. \A x \in SwapEvent \cup {Nil, Error} :
            LET o == Outcome([i \in {1} |-> x])
            IN  /\ x = Error <=> o = Error
                /\ x = Nil => DOMAIN o = {}
                /\ x \in SwapEvent => DOMAIN o = {1} /\ o[1] = x
    <2>1. TAKE x \in SwapEvent \cup {Nil, Error}
    <2> DEFINE o == Outcome([i \in {1} |-> x])
    <2>2. CASE x = Error
      BY <1>3, <2>2, OutcomeOfOne
    <2>3. CASE x = Nil
      <3>1. o \in [{} -> SwapEvent]
        BY <1>3, <2>3, OutcomeOfOne
      <3> HIDE DEF o
      <3>2. QED
        BY <1>3, <1>4, <2>3, <3>1 DEF o
    <2>4. CASE x \in SwapEvent
      <3>1. o = [i \in {1} |-> x]
        BY <1>3, <2>4, OutcomeOfOne
      <3> HIDE DEF o
      <3>2. o \in [{1} -> SwapEvent] /\ DOMAIN o = {1} /\ o[1] = x
        BY <2>4, <3>1
      <3>3. QED
        BY <1>3, <1>4, <2>4, <3>2 DEF o
    <2>5. QED
      BY <2>2, <2>3, <2>4
  <1>6. \A x \in SwapEvent : Unpriced(x) = [x EXCEPT !.fee = 0] /\ Unpriced(x) \in SwapEvent
    <2>1. \A x \in SwapEvent : [x EXCEPT !.fee = 0] \in SwapEvent
      BY DEF SwapEvent
    <2>2. QED
      BY <1>3, <2>1 DEF Unpriced
  <1>7. /\ d = Error <=> r = Error
        /\ e = Error <=> s = Error
        /\ d = Nil => DOMAIN r = {}
        /\ e = Nil => DOMAIN s = {}
        /\ d \in SwapEvent => DOMAIN r = {1} /\ r[1] = d
        /\ e \in SwapEvent => DOMAIN s = {1} /\ s[1] = e
    BY <1>2, <1>5
  <1> HIDE DEF r, s
  <1>8. CASE Unpriced(d) = Unpriced(e)
    <2>1. CASE d \in SwapEvent
      <3>1. e \in SwapEvent
        BY <1>2, <1>3, <1>6, <1>8, <2>1 DEF Unpriced
      <3>2. [d EXCEPT !.fee = 0] = [e EXCEPT !.fee = 0]
        BY <1>6, <1>8, <2>1, <3>1
      <3>3. QED
        BY <1>3, <1>7, <2>1, <3>1, <3>2 DEF SameTrades, r, s
    <2>2. CASE d \notin SwapEvent
      <3>1. e \notin SwapEvent /\ d = e
        BY <1>2, <1>3, <1>6, <1>8, <2>2 DEF Unpriced
      <3>2. QED
        BY <1>2, <1>3, <1>7, <2>2, <3>1 DEF SameTrades, r, s
    <2>3. QED
      BY <2>1, <2>2
  <1>9. CASE /\ tx.instrs[1].program = "orca"
             /\ d # Error /\ e # Error /\ (d = Nil \/ e = Nil)
    <2>1. r # Error /\ s # Error /\ (DOMAIN r = {} \/ DOMAIN s = {})
      BY <1>7, <1>9
    <2>2. \A i \in DOMAIN r : r[i].program = "orca"
      BY <1>2, <1>7, <1>9
    <2>3. \A i \in DOMAIN s : s[i].program = "orca"
      BY <1>2, <1>7, <1>9
    <2>4. QED
      BY <2>1, <2>2, <2>3 DEF SameTrades, r, s
  <1>10. QED
    BY <1>1, <1>8, <1>9, OneCore

\* The registry of whirlpools agrees with the chain, and what was returned has its
\* transaction's core, however the registries changed since.
Replayable ==
    out # Nil => /\ out.tx \in Transactions
                 /\ Named(out.tx) => \E e : /\ Core(out.tx, e)
                                            /\ out.result = Outcome([i \in {1} |-> e])

\* The chain gives a whirlpool one pair of mints.
LEMMA OneMints ==
    ASSUME NEW a, NEW m, IsMints(a, m)
    PROVE  ChainMints(a) = m
  <1>1. IsMints(a, ChainMints(a))
    BY DEF ChainMints
  <1>2. \A n : IsMints(a, n) => n = m
    BY MintsAssumption DEF IsMints
  <1>3. QED
    BY <1>1, <1>2

LEMMA MintsStep == RegistriesOK /\ MintsOK /\ [Next]_vars => MintsOK'
  <1> SUFFICES ASSUME RegistriesOK, MintsOK, [Next]_vars PROVE MintsOK'
    OBVIOUS
  <1>1. ASSUME UNCHANGED orcaPools PROVE MintsOK'
    BY <1>1 DEF MintsOK
  <1>2. ASSUME NEW u \in Updates, HandleAccount(u) PROVE MintsOK'
    <2>1. CASE UNCHANGED orcaPools
      BY <1>1, <2>1
    <2>2. CASE ~UNCHANGED orcaPools
      <3>1. u.owner = "orca" /\ handleOrcaAccount(u)
        BY <1>2, <2>2 DEF HandleAccount, handleRaydiumAccount
      <3> DEFINE info == [mintA |-> u.mintA, mintB |-> u.mintB, rate |-> u.rate]
      <3>2. ~(u.len < OrcaRequiredLength) /\ orcaPools' = [orcaPools EXCEPT ![u.pubkey] = info]
        BY <2>2, <3>1 DEF handleOrcaAccount
      <3>3. u.pubkey \in Accounts /\ OrcaRequiredLength <= u.len
        BY <3>2, UpdatesAssumption DEF OrcaRequiredLength
      <3>4. IsMints(u.pubkey, <<u.mintA, u.mintB>>)
        BY <3>1, <3>3 DEF IsMints
      <3>5. ChainMints(u.pubkey) = <<u.mintA, u.mintB>>
        BY <3>4, OneMints
      <3>6. info.mintA = u.mintA /\ info.mintB = u.mintB
        OBVIOUS
      <3> HIDE DEF info
      <3>7. ASSUME NEW a \in Accounts, orcaPools'[a] # Absent
            PROVE  <<orcaPools'[a].mintA, orcaPools'[a].mintB>> = ChainMints(a)
        <4>1. CASE a = u.pubkey
          <5>1. orcaPools'[a] = info
            BY <3>2, <4>1 DEF RegistriesOK
          <5>2. QED
            BY <3>5, <3>6, <4>1, <5>1
        <4>2. CASE a # u.pubkey
          <5>1. orcaPools'[a] = orcaPools[a]
            BY <3>2, <4>2 DEF RegistriesOK
          <5>2. QED
            BY <3>7, <5>1 DEF MintsOK
        <4>3. QED
          BY <4>1, <4>2
      <3>8. QED
        BY <3>7 DEF MintsOK
    <2>3. QED
      BY <2>1, <2>2
  <1>3. ASSUME Restart PROVE MintsOK'
    BY <1>3 DEF Restart, MintsOK
  <1>4. CASE UNCHANGED orcaPools
    BY <1>1, <1>4
  <1>5. QED
    BY <1>1, <1>2, <1>3 DEF Next, HandleBlockMeta, DecodeTransaction, Forget, registries, vars

LEMMA ReplayableStep == RegistriesOK /\ MintsOK /\ Replayable /\ [Next]_vars => Replayable'
  <1> SUFFICES ASSUME RegistriesOK, MintsOK, Replayable, [Next]_vars PROVE Replayable'
    OBVIOUS
  <1>1. ASSUME UNCHANGED out PROVE Replayable'
    BY <1>1 DEF Replayable
  <1>2. ASSUME NEW tx \in Transactions, DecodeTransaction(tx) PROVE Replayable'
    <2>1. PICK r \in Outcomes(tx) : out' = [tx |-> tx, result |-> r]
      BY <1>2 DEF DecodeTransaction
    <2>2. out'.tx = tx /\ out'.result = r
      BY <2>1
    <2>3. ASSUME Named(tx) PROVE \E e : Core(tx, e) /\ r = Outcome([i \in {1} |-> e])
      <3>1. IsTransaction(tx) /\ Plain(tx) /\ DOMAIN tx.instrs = {1}
        BY <2>3, TransactionsAssumption, PlainInstr DEF Named
      <3>2. PICK e \in Build(tx, tx.instrs[1]) : r = Outcome([i \in {1} |-> e])
        BY <3>1, OnlyOutcome
      <3>3. Core(tx, e)
        BY <3>1, BuiltCore DEF RegistriesOK, Tables
      <3>4. QED
        BY <3>2, <3>3
    <2>4. QED
      BY <2>2, <2>3 DEF Replayable
  <1>3. ASSUME Forget PROVE Replayable'
    BY <1>3 DEF Forget, Replayable
  <1>4. QED
    BY <1>1, <1>2, <1>3 DEF Next, HandleAccount, HandleBlockMeta, Restart, vars

LEMMA ReplayHolds == RegistriesOK /\ MintsOK /\ Replayable => ReplayDecodesSame
  <1> SUFFICES ASSUME RegistriesOK, MintsOK, Replayable, out # Nil, Named(out.tx),
                      NEW again \in Outcomes(out.tx)
               PROVE  SameTrades(out.result, again)
    BY DEF ReplayDecodesSame
  <1> DEFINE tx == out.tx
  <1>1. tx \in Transactions /\ Named(tx)
    BY DEF Replayable
  <1>2. PICK d : Core(tx, d) /\ out.result = Outcome([i \in {1} |-> d])
    BY DEF Replayable
  <1>3. IsTransaction(tx) /\ Plain(tx) /\ DOMAIN tx.instrs = {1}
    BY <1>1, TransactionsAssumption, PlainInstr DEF Named
  <1>4. PICK e \in Build(tx, tx.instrs[1]) : again = Outcome([i \in {1} |-> e])
    BY <1>3, OnlyOutcome
  <1>5. Core(tx, e)
    BY <1>3, BuiltCore DEF RegistriesOK, Tables
  <1> HIDE DEF tx
  <1>6. QED
    BY <1>1, <1>2, <1>4, <1>5, SameResults DEF tx

\* A transaction that names its balances is decoded to the same trades when it is
\* delivered again, whatever account updates and restarts came in between and
\* whatever the order of the maps of extractVaultBalances: of a swap only the fee
\* may change, and only an Orca swap of a pool that is not known may be missing.
THEOREM ReplayTheorem == Spec => []ReplayDecodesSame
  <1>1. Init => MintsOK /\ Replayable
    BY DEF Init, MintsOK, Replayable
  <1>2. DecoderIInv => RegistriesOK
    BY DEF DecoderIInv
  <1>3. QED
    BY <1>1, <1>2, DecoderCorrect, MintsStep, ReplayableStep, ReplayHolds, PTL DEF Spec

-----------------------------------------------------------------------------
(* The opposite trade *)

\* Its balances run backwards, and only a Meteora instruction changes.
LEMMA OppositeBalances ==
    ASSUME NEW tx, IsTransaction(tx)
    PROVE  LET o == Opposite(tx)
           IN  /\ o.keys = tx.keys /\ o.logs = tx.logs /\ DOMAIN o.bal = DOMAIN tx.bal
               /\ \A i \in DOMAIN tx.bal :
                     /\ o.bal[i] \in Balance
                     /\ o.bal[i].mint = tx.bal[i].mint /\ o.bal[i].owner = tx.bal[i].owner
                     /\ o.bal[i].pre = tx.bal[i].post /\ o.bal[i].post = tx.bal[i].pre
  <1> DEFINE o == Opposite(tx)
             Back(b) == [b EXCEPT !.pre = b.post, !.post = b.pre]
  <1>1. /\ o.keys = tx.keys /\ o.logs = tx.logs
        /\ o.bal = [i \in DOMAIN tx.bal |-> Back(tx.bal[i])]
    BY DEF Opposite
  <1>2. ASSUME NEW b \in Balance
        PROVE  /\ Back(b) \in Balance
               /\ Back(b).mint = b.mint /\ Back(b).owner = b.owner
               /\ Back(b).pre = b.post /\ Back(b).post = b.pre
    BY DEF Balance
  <1> HIDE DEF o, Back
  <1>3. \A i \in DOMAIN tx.bal : tx.bal[i] \in Balance /\ o.bal[i] = Back(tx.bal[i])
    BY <1>1 DEF IsTransaction
  <1>4. QED
    BY <1>1, <1>2, <1>3 DEF o

LEMMA OppositeInstr ==
    ASSUME NEW tx, IsTransaction(tx), Plain(tx)
    PROVE  LET o == Opposite(tx)
           IN  /\ DOMAIN o.instrs = {1}
               /\ tx.instrs[1].program # "meteora" => o.instrs[1] = tx.instrs[1]
               /\ (tx.instrs[1].program = "meteora" /\ Len(tx.instrs[1].accounts) >= 8) =>
                      /\ o.instrs[1] \in Instruction
                      /\ o.instrs[1].program = "meteora"
                      /\ o.instrs[1].kind = tx.instrs[1].kind
                      /\ Len(o.instrs[1].accounts) = Len(tx.instrs[1].accounts)
                      /\ o.instrs[1].accounts[2] = tx.instrs[1].accounts[2]
                      /\ o.instrs[1].accounts[3] = tx.instrs[1].accounts[4]
                      /\ o.instrs[1].accounts[4] = tx.instrs[1].accounts[3]
  <1> DEFINE o == Opposite(tx)
             instr == tx.instrs[1]
             acc == instr.accounts
             Swap(i) == [i EXCEPT !.accounts[3] = i.accounts[4], !.accounts[4] = i.accounts[3]]
  <1>1. o.instrs = [i \in DOMAIN tx.instrs |->
                       IF tx.instrs[i].program = "meteora" THEN Swap(tx.instrs[i]) ELSE tx.instrs[i]]
    BY DEF Opposite
  <1>2. DOMAIN tx.instrs = {1} /\ instr \in Instruction
    BY PlainInstr
  <1>3. acc \in Seq(Nat \ {0})
    BY <1>2 DEF Instruction
  <1>4. ASSUME Len(acc) >= 8
        PROVE  /\ Swap(instr) \in Instruction
               /\ Swap(instr).program = instr.program
               /\ Swap(instr).kind = instr.kind
               /\ Len(Swap(instr).accounts) = Len(acc)
               /\ Swap(instr).accounts[2] = acc[2]
               /\ Swap(instr).accounts[3] = acc[4]
               /\ Swap(instr).accounts[4] = acc[3]
    <2> DEFINE new == [[acc EXCEPT ![3] = acc[4]] EXCEPT ![4] = acc[3]]
    <2>1. /\ new \in Seq(Nat \ {0}) /\ Len(new) = Len(acc)
          /\ new[2] = acc[2] /\ new[3] = acc[4] /\ new[4] = acc[3]
      <3> DEFINE mid == [acc EXCEPT ![3] = acc[4]]
      <3> HIDE DEF acc
      <3>1. Len(acc) \in Nat /\ DOMAIN acc = 1..Len(acc)
        BY <1>3
      <3>2. {2, 3, 4} \subseteq 1..Len(acc)
        BY <1>4, <3>1
      <3>3. acc[3] \in Nat \ {0} /\ acc[4] \in Nat \ {0}
        BY <1>3, <3>2
      <3>4. mid \in Seq(Nat \ {0}) /\ Len(mid) = Len(acc)
        BY <1>3, <3>2, <3>3, ExceptSeq
      <3>5. new = [mid EXCEPT ![4] = acc[3]] /\ 4 \in 1..Len(mid)
        BY <3>2, <3>4
      <3>6. new \in Seq(Nat \ {0}) /\ Len(new) = Len(mid)
        <4> HIDE DEF mid, new
        <4>1. QED
          BY <3>3, <3>4, <3>5, ExceptSeq
      <3>7. new[2] = acc[2] /\ new[3] = acc[4] /\ new[4] = acc[3]
        BY <3>1, <3>2
      <3>8. QED
        BY <3>4, <3>6, <3>7
    <2>2. Swap(instr) = [instr EXCEPT !.accounts = new]
      BY <1>2 DEF Instruction
    <2> HIDE DEF new, Swap
    <2>3. QED
      BY <1>2, <2>1, <2>2 DEF Instruction
  <1> HIDE DEF Swap, o
  <1>5. /\ DOMAIN o.instrs = {1}
        /\ o.instrs[1] = IF instr.program = "meteora" THEN Swap(instr) ELSE instr
    BY <1>1, <1>2
  <1>6. QED
    BY <1>4, <1>5 DEF o

\* It is a transaction,
LEMMA OppositeType ==
    ASSUME NEW tx, IsTransaction(tx), Plain(tx),
           tx.instrs[1].program # "meteora" \/ Len(tx.instrs[1].accounts) >= 8
    PROVE  IsTransaction(Opposite(tx)) /\ Opposite(tx).instrs[1] \in Instruction
  <1> DEFINE o == Opposite(tx)
  <1>1. o.instrs[1] \in Instruction /\ DOMAIN o.instrs = {1}
    BY OppositeInstr, PlainInstr
  <1>2. o.instrs = [i \in DOMAIN o.instrs |-> o.instrs[i]]
    BY DEF Opposite
  <1>3. o.instrs \in Seq(Instruction)
    <2>1. {1} = 1..1
      OBVIOUS
    <2>2. o.instrs \in [1..1 -> Instruction]
      BY <1>1, <1>2, <2>1
    <2>3. QED
      BY <2>2, SeqDef
  <1>4. QED
    BY <1>1, <1>3, OppositeBalances DEF IsTransaction

\* with the same vaults, whose changes are the opposite ones.
LEMMA OppositeVaults ==
    ASSUME NEW tx, IsTransaction(tx)
    PROVE  LET o == Opposite(tx)
           IN  /\ \A owner : Vaults(o, owner) = Vaults(tx, owner)
               /\ \A i \in DOMAIN tx.bal : /\ Vault(o, i).mint = Vault(tx, i).mint
                                           /\ Vault(o, i).pre = Vault(tx, i).post
                                           /\ Vault(o, i).post = Vault(tx, i).pre
  <1> DEFINE o == Opposite(tx)
  <1>1. /\ DOMAIN o.bal = DOMAIN tx.bal
        /\ \A i \in DOMAIN tx.bal :
              /\ o.bal[i].mint = tx.bal[i].mint /\ o.bal[i].owner = tx.bal[i].owner
              /\ o.bal[i].pre = tx.bal[i].post /\ o.bal[i].post = tx.bal[i].pre
    BY OppositeBalances
  <1> HIDE DEF o
  <1>2. \A owner : Vaults(o, owner) = Vaults(tx, owner)
    BY <1>1 DEF Vaults
  <1>3. \A i \in DOMAIN tx.bal : /\ Vault(o, i).mint = Vault(tx, i).mint
                                 /\ Vault(o, i).pre = Vault(tx, i).post
                                 /\ Vault(o, i).post = Vault(tx, i).pre
    BY <1>1 DEF Vault
  <1>4. QED
    BY <1>2, <1>3 DEF o

LEMMA OppositeDelta ==
    ASSUME NEW tx, IsTransaction(tx), NEW i \in DOMAIN tx.bal,
           Delta(Vault(tx, i)) = Vault(tx, i).post - Vault(tx, i).pre,
           -Half < Delta(Vault(tx, i)), Delta(Vault(tx, i)) < Half
    PROVE  Delta(Vault(Opposite(tx), i)) = -Delta(Vault(tx, i))
  <1> DEFINE v == Vault(tx, i)
             w == Vault(Opposite(tx), i)
  <1>1. w.pre = v.post /\ w.post = v.pre
    BY OppositeVaults
  <1>2. v.pre \in Words /\ v.post \in Words
    BY VaultType DEF BalanceType
  <1> HIDE DEF v, w
  <1>3. v.pre \in Int /\ v.post \in Int
    BY <1>2, HalfWord DEF Words
  <1>4. w.post - w.pre = -Delta(v) /\ -Half < w.post - w.pre /\ w.post - w.pre < Half
    BY <1>1, <1>3, HalfWord DEF v
  <1>5. Delta(w) = w.post - w.pre
    BY <1>1, <1>2, <1>4, DeltaExact
  <1>6. QED
    BY <1>4, <1>5 DEF v, w

LEMMA ReversedType == ASSUME NEW e \in SwapEvent PROVE Reversed(e) \in SwapEvent
  <1>1. e.baseIn \in Words /\ e.baseOut \in Words /\ e.quoteIn \in Words /\ e.quoteOut \in Words
    BY DEF SwapEvent
  <1>2. \A f \in SwapEvent, x \in Words : /\ [f EXCEPT !.baseIn = x] \in SwapEvent
                                          /\ [f EXCEPT !.baseOut = x] \in SwapEvent
                                          /\ [f EXCEPT !.quoteIn = x] \in SwapEvent
                                          /\ [f EXCEPT !.quoteOut = x] \in SwapEvent
    BY DEF SwapEvent
  <1> DEFINE e1 == [e EXCEPT !.baseIn = e.baseOut]
             e2 == [e1 EXCEPT !.baseOut = e.baseIn]
             e3 == [e2 EXCEPT !.quoteIn = e.quoteOut]
             e4 == [e3 EXCEPT !.quoteOut = e.quoteIn]
  <1>3. Reversed(e) = e4
    BY Zenon DEF Reversed
  <1>4. e1 \in SwapEvent
    BY <1>1, <1>2
  <1> HIDE DEF e1
  <1>5. e2 \in SwapEvent
    BY <1>1, <1>2, <1>4
  <1> HIDE DEF e2
  <1>6. e3 \in SwapEvent
    BY <1>1, <1>2, <1>5
  <1> HIDE DEF e3
  <1>7. e4 \in SwapEvent
    BY <1>1, <1>2, <1>6
  <1>8. QED
    BY <1>3, <1>7

\* The Orca instruction finds the same two vaults.
LEMMA OppositeOrca ==
    ASSUME Tables, NEW tx, IsTransaction(tx), Plain(tx), tx.instrs[1].program = "orca",
           NEW e \in buildOrcaSwap(tx, tx.instrs[1]), e # Nil, ReadSwap(tx, e)
    PROVE  Reversed(e) \in Build(Opposite(tx), Opposite(tx).instrs[1])
  <1> DEFINE o == Opposite(tx)
             instr == tx.instrs[1]
             pool == OrcaPoolOf(tx, instr)
  <1>1. instr \in Instruction /\ o.instrs[1] = instr /\ IsTransaction(o)
    BY PlainInstr, OppositeInstr, OppositeType
  <1>2. ~NoOrcaSwap(tx, instr)
    BY <1>1, OrcaShape
  <1>3. PICK i \in OfA(tx, pool), j \in OfB(tx, pool) :
            LET a == Delta(Vault(tx, i))
                b == Delta(Vault(tx, j))
            IN  /\ e = OrcaEventAt(tx, pool, i, j)
                /\ i \in DOMAIN tx.bal /\ j \in DOMAIN tx.bal
                /\ a = Vault(tx, i).post - Vault(tx, i).pre
                /\ b = Vault(tx, j).post - Vault(tx, j).pre
                /\ a \in Int /\ b \in Int /\ -Half < a /\ a < Half /\ -Half < b /\ b < Half
                /\ Exchanged(a, b)
    BY <1>1, OrcaShape
  <1>4. o.keys = tx.keys /\ \A owner : Vaults(o, owner) = Vaults(tx, owner)
    BY OppositeBalances, OppositeVaults
  <1>5. \A k \in DOMAIN tx.bal : o.bal[k].mint = tx.bal[k].mint
    BY OppositeBalances
  <1> DEFINE a == Delta(Vault(tx, i))
             b == Delta(Vault(tx, j))
             mA == orcaPools[pool].mintA
             mB == orcaPools[pool].mintB
             fee == FeeBps(orcaPools[pool].rate)
             none == <<0, 0>>
  <1>6. Delta(Vault(o, i)) = -a /\ Delta(Vault(o, j)) = -b
    BY <1>3, OppositeDelta
  <1> HIDE DEF o, instr
  <1>7. OrcaPoolOf(o, instr) = pool
    BY <1>4 DEF OrcaPoolOf
  <1>8. OfA(o, pool) = OfA(tx, pool) /\ OfB(o, pool) = OfB(tx, pool)
    <2> HIDE DEF pool
    <2>1. \A k \in Vaults(tx, pool) : o.bal[k].mint = tx.bal[k].mint
      BY <1>5 DEF Vaults
    <2>2. OfA(o, pool) = OfA(tx, pool)
      BY <1>4, <2>1 DEF OfA
    <2>3. QED
      BY <1>4, <2>1, <2>2 DEF OfB
  <1>9. ~NoOrcaSwap(o, instr)
    BY <1>2, <1>4, <1>7, <1>8 DEF NoOrcaSwap
  <1>10. OrcaSwap(pool, -a, -b) \in buildOrcaSwap(o, instr)
    <2> HIDE DEF pool, a, b
    <2>1. buildOrcaSwap(o, instr) = {OrcaSwap(pool, Delta(Vault(o, p[1])), Delta(Vault(o, p[2]))) :
                                        p \in OfA(tx, pool) \X OfB(tx, pool)}
      BY <1>7, <1>8, <1>9, OrcaBuild
    <2>2. <<i, j>> \in OfA(tx, pool) \X OfB(tx, pool)
      BY <1>3
    <2>3. QED
      BY <1>6, <2>1, <2>2
  <1>11. OrcaSwap(pool, -a, -b) = Moved("orca", pool, mA, mB, fee, none, -a, -b)
    <2>1. a \in Int /\ b \in Int /\ -Half < a /\ a < Half /\ -Half < b /\ b < Half /\ Exchanged(a, b)
      BY <1>3
    <2> HIDE DEF a, b, pool
    <2>2. -a \in -Half..(Half - 1) /\ -b \in -Half..(Half - 1) /\ Exchanged(-a, -b)
      BY <2>1, HalfWord DEF Exchanged
    <2> DEFINE x == -a
               y == -b
    <2> HIDE DEF x, y
    <2>3. x \in -Half..(Half - 1) /\ y \in -Half..(Half - 1) /\ Exchanged(x, y)
      BY <2>2 DEF x, y
    <2>4. OrcaSwap(pool, x, y) = Moved("orca", pool, mA, mB, fee, none, x, y)
      BY <2>3, OrcaMoved
    <2>5. QED
      BY <2>4 DEF x, y
  <1>12. e = Moved("orca", pool, mA, mB, fee, none, a, b) /\ a \in Int /\ b \in Int
    BY <1>3 DEF OrcaEventAt
  <1>13. Reversed(e) = OrcaSwap(pool, -a, -b)
    <2> HIDE DEF a, b, mA, mB, pool, none, fee
    <2>1. Reversed(e) = Moved("orca", pool, mA, mB, fee, none, -a, -b)
      BY <1>12, MovedReversed
    <2>2. QED
      BY <1>11, <2>1
  <1>14. Build(o, o.instrs[1]) = buildOrcaSwap(o, instr)
    BY <1>1 DEF Build, instr
  <1>15. QED
    BY <1>10, <1>13, <1>14 DEF o

\* The Meteora instruction reads the same accounts, the one for the other.
LEMMA OppositeMeteora ==
    ASSUME NEW tx, IsTransaction(tx), Plain(tx), tx.instrs[1].program = "meteora",
           NEW e \in buildMeteoraSwap(tx, tx.instrs[1]), e # Error, ReadSwap(tx, e)
    PROVE  Reversed(e) \in Build(Opposite(tx), Opposite(tx).instrs[1])
  <1> DEFINE o == Opposite(tx)
             instr == tx.instrs[1]
             back == o.instrs[1]
             k == instr.accounts[3]
             l == instr.accounts[4]
             mK == tx.bal[k].mint
             mL == tx.bal[l].mint
             pool == tx.keys[instr.accounts[2]]
             pair == MeteoraPair(tx, instr)
             other == MeteoraPair(o, back)
  <1>1. instr \in Instruction
    BY PlainInstr
  <1>2. IsMeteora(tx, instr) /\ e = MeteoraSwap(tx, instr)
    BY <1>1, MeteoraBuild
  <1>3. Len(instr.accounts) >= 8
    BY <1>2 DEF IsMeteora
  <1>4. /\ back \in Instruction /\ IsTransaction(o)
        /\ back.program = "meteora" /\ back.kind = instr.kind
        /\ Len(back.accounts) = Len(instr.accounts)
        /\ back.accounts[2] = instr.accounts[2]
        /\ back.accounts[3] = l /\ back.accounts[4] = k
    BY <1>3, OppositeInstr, OppositeType
  <1>5. /\ o.keys = tx.keys /\ o.logs = tx.logs /\ DOMAIN o.bal = DOMAIN tx.bal
        /\ \A i \in DOMAIN tx.bal :
              /\ o.bal[i].mint = tx.bal[i].mint
              /\ o.bal[i].pre = tx.bal[i].post /\ o.bal[i].post = tx.bal[i].pre
    BY OppositeBalances
  <1>6. k \in DOMAIN tx.bal /\ l \in DOMAIN tx.bal /\ Readable(tx, k) /\ Readable(tx, l)
    BY <1>2 DEF IsMeteora, Readable
  <1>7. mK \in Nat \ {0} /\ mL \in Nat \ {0} /\ mK # mL
    BY <1>1, <1>2, <1>6, VaultType, MeteoraShape
  <1>8. Readable(o, k) /\ Readable(o, l)
    BY <1>5, <1>6 DEF Readable
  <1>9. /\ Vault(o, k).pre = Vault(tx, k).post /\ Vault(o, k).post = Vault(tx, k).pre
        /\ Vault(o, l).pre = Vault(tx, l).post /\ Vault(o, l).post = Vault(tx, l).pre
    BY <1>6, OppositeVaults
  <1>10. /\ Given(o, back) = Received(tx, instr) /\ Received(o, back) = Given(tx, instr)
    BY <1>4, <1>9 DEF Given, Received, outgoing, incoming
  <1>11. /\ Given(tx, instr) \in Int /\ Given(tx, instr) > 0
         /\ Received(tx, instr) \in Int /\ Received(tx, instr) > 0
    BY <1>2, GivenType, HalfWord DEF Words
  <1>12. IsMeteora(o, back)
    BY <1>2, <1>4, <1>5, <1>8, <1>10, <1>11 DEF IsMeteora
  <1>13. pair = ResolvePair(mK, mL) /\ other = ResolvePair(mL, mK)
    BY <1>4, <1>5, <1>6 DEF MeteoraPair
  <1>14. other.base = pair.base /\ other.quote = pair.quote /\ pair.base \in {mK, mL}
    <2> HIDE DEF mK, mL, pair, other
    <2>1. QED
      BY <1>7, <1>13, OneOrientation
  <1>15. GaveBase(o, back) <=> ~GaveBase(tx, instr)
    <2>1. o.bal[back.accounts[3]].mint = mL
      BY <1>4, <1>5, <1>6
    <2>2. QED
      BY <1>7, <1>14, <2>1 DEF GaveBase
  <1> DEFINE fee == LoggedFee(tx.logs)
             reserves == LoggedReserves(tx.logs, instr.kind)
             given == Given(tx, instr)
             received == Received(tx, instr)
             gave == GaveBase(tx, instr)
             b == IF gave THEN given ELSE -received
             q == IF gave THEN -received ELSE given
             c == IF GaveBase(o, back) THEN Given(o, back) ELSE -Received(o, back)
             d == IF GaveBase(o, back) THEN -Received(o, back) ELSE Given(o, back)
  <1>16. b \in Int /\ q \in Int /\ c = -b /\ d = -q
    <2> HIDE DEF o, back, instr
    <2>1. CASE gave
      BY <1>10, <1>11, <1>15, <2>1
    <2>2. CASE ~gave
      BY <1>10, <1>11, <1>15, <2>2
    <2>3. QED
      BY <2>1, <2>2
  <1>17. e = Moved("meteora", pool, pair.base, pair.quote, fee, reserves, b, q)
    BY <1>2, Zenon DEF MeteoraSwap
  <1>18. MeteoraSwap(o, back) = Moved("meteora", pool, pair.base, pair.quote, fee, reserves, c, d)
    <2>1. MeteoraSwap(o, back) =
              Moved("meteora", o.keys[back.accounts[2]], other.base, other.quote,
                    LoggedFee(o.logs), LoggedReserves(o.logs, back.kind), c, d)
      BY Zenon DEF MeteoraSwap
    <2> HIDE DEF o, back, instr, pair, other, c, d
    <2>2. QED
      BY <1>4, <1>5, <1>14, <2>1
  <1>19. Reversed(e) = MeteoraSwap(o, back)
    <2> HIDE DEF o, back, instr, pair, pool, fee, reserves, b, q, c, d
    <2>1. Reversed(e) = Moved("meteora", pool, pair.base, pair.quote, fee, reserves, -b, -q)
      BY <1>16, <1>17, MovedReversed
    <2>2. QED
      BY <1>16, <1>18, <2>1
  <1>20. Build(o, back) = {MeteoraSwap(o, back)}
    BY <1>4, <1>12, MeteoraBuild DEF Build
  <1>21. QED
    BY <1>19, <1>20

LEMMA OppositeHolds == DecoderIInv => OppositeTradeSameMarket
  <1> SUFFICES ASSUME DecoderIInv, NEW e \in Events, IsTrade(out.tx, e), e.program # "raydium"
               PROVE  [i \in {1} |-> Reversed(e)] \in Outcomes(Opposite(out.tx))
    BY DEF OppositeTradeSameMarket
  <1> USE DEF IsTrade
  <1> DEFINE tx == out.tx
             instr == tx.instrs[1]
             o == Opposite(tx)
  <1>1. /\ Tables /\ IsTransaction(tx) /\ DOMAIN tx.instrs = {1} /\ instr \in Instruction
        /\ e \in Build(tx, instr) /\ e # Nil /\ e # Error
    BY PlainEvent
  <1> HIDE DEF tx
  <1>2. Plain(tx) /\ ReadSwap(tx, e)
    BY <1>1, AsRead DEF tx
  <1>3. Reversed(e) \in Build(o, o.instrs[1])
    <2>1. CASE instr.program = "raydium"
      BY <1>1, <2>1, BuiltEvent
    <2>2. CASE instr.program = "orca"
      <3>1. e \in buildOrcaSwap(tx, instr)
        BY <1>1, <2>2 DEF Build
      <3>2. QED
        BY <1>1, <1>2, <2>2, <3>1, OppositeOrca
    <2>3. CASE instr.program = "meteora"
      <3>1. e \in buildMeteoraSwap(tx, instr)
        BY <1>1, <2>3 DEF Build
      <3>2. QED
        BY <1>1, <1>2, <2>3, <3>1, OppositeMeteora
    <2>4. CASE instr.program \notin {"raydium", "orca", "meteora"}
      BY <1>1, <2>4 DEF Build
    <2>5. QED
      BY <2>1, <2>2, <2>3, <2>4
  <1>4. Reversed(e) # Nil /\ Reversed(e) # Error
    <2>1. e \in SwapEvent
      BY <1>1, BuiltEvent
    <2>2. Reversed(e) \in SwapEvent
      BY <2>1, ReversedType
    <2>3. QED
      BY <2>2, ResultsAssumption
  <1>5. DOMAIN o.instrs = {1}
    BY <1>1, <1>2, OppositeInstr
  <1> HIDE DEF o
  <1>6. [i \in {1} |-> Reversed(e)] \in Outcomes(o)
    BY <1>3, <1>4, <1>5, OneOutcome
  <1>7. QED
    BY <1>6 DEF o, tx

\* A Meteora or Orca trade and the opposite trade are events of one market: the
\* same base and quote with the sides exchanged (ResolvePair gives a Meteora pair
\* one orientation, the pool's account an Orca pair).
THEOREM OppositeTheorem == Spec => []OppositeTradeSameMarket
  BY DecoderCorrect, OppositeHolds, PTL

-----------------------------------------------------------------------------
(* The canonical pair *)

\* NormalizeToCanonicalPair turns an event of two mints to the pair's orientation.
LEMMA Normalized ==
    ASSUME NEW pool, NEW mA \in Nat \ {0}, NEW mB \in Nat \ {0}, NEW f \in BOOLEAN, NEW x, NEW y
    PROVE  LET pair == ResolvePair(mA, mB)
           IN  NormalizeToCanonicalPair(Traded(pool, mA, mB, f, x, y)) =
                   IF pair.inverted THEN Traded(pool, mB, mA, ~f, x, y)
                   ELSE Traded(pool, mA, mB, f, x, y)
  <1> DEFINE pair == ResolvePair(mA, mB)
             e == Traded(pool, mA, mB, f, x, y)
  <1>1. pair \in PairType /\ pair # Error
    BY OneOrientation
  <1>2. /\ e.mintA = mA /\ e.mintB = mB /\ e.decA = mA /\ e.decB = mB
        /\ e.isBaseInput = f /\ e.amountIn = x /\ e.amountOut = y
    BY DEF Traded
  <1>3. NormalizeToCanonicalPair(e) =
            IF pair.inverted
            THEN [e EXCEPT !.mintA = e.mintB, !.mintB = e.mintA, !.decA = e.decB, !.decB = e.decA,
                           !.isBaseInput = ~@]
            ELSE e
    <2> HIDE DEF e
    <2>1. ResolvePair(e.mintA, e.mintB) = pair
      BY <1>2
    <2> HIDE DEF pair
    <2>2. QED
      BY <1>1, <2>1 DEF NormalizeToCanonicalPair
  <1>4. [e EXCEPT !.mintA = e.mintB, !.mintB = e.mintA, !.decA = e.decB, !.decB = e.decA,
                  !.isBaseInput = ~@] = Traded(pool, mB, mA, ~f, x, y)
    <2> DEFINE T(a, b, c, d, g) ==
                   [pool |-> pool, mintA |-> a, mintB |-> b, decA |-> c, decB |-> d,
                    isBaseInput |-> g, amountIn |-> x, amountOut |-> y]
    <2>1. e = T(mA, mB, mA, mB, f) /\ Traded(pool, mB, mA, ~f, x, y) = T(mB, mA, mB, mA, ~f)
      BY DEF Traded
    <2>2. [T(mA, mB, mA, mB, f) EXCEPT !.mintA = mB] = T(mB, mB, mA, mB, f)
      OBVIOUS
    <2>3. [T(mB, mB, mA, mB, f) EXCEPT !.mintB = mA] = T(mB, mA, mA, mB, f)
      OBVIOUS
    <2>4. [T(mB, mA, mA, mB, f) EXCEPT !.decA = mB] = T(mB, mA, mB, mB, f)
      OBVIOUS
    <2>5. [T(mB, mA, mB, mB, f) EXCEPT !.decB = mA] = T(mB, mA, mB, mA, f)
      OBVIOUS
    <2>6. [T(mB, mA, mB, mA, f) EXCEPT !.isBaseInput = ~f] = T(mB, mA, mB, mA, ~f)
      OBVIOUS
    <2> DEFINE e1 == [e EXCEPT !.mintA = mB]
               e2 == [e1 EXCEPT !.mintB = mA]
               e3 == [e2 EXCEPT !.decA = mB]
               e4 == [e3 EXCEPT !.decB = mA]
               e5 == [e4 EXCEPT !.isBaseInput = ~f]
    <2> HIDE DEF e, T
    <2>7. [e EXCEPT !.mintA = e.mintB, !.mintB = e.mintA, !.decA = e.decB, !.decB = e.decA,
                    !.isBaseInput = ~@] = e5
      BY <1>2, Zenon
    <2>8. e1 = T(mB, mB, mA, mB, f)
      BY <2>1, <2>2
    <2> HIDE DEF e1
    <2>9. e2 = T(mB, mA, mA, mB, f)
      BY <2>3, <2>8
    <2> HIDE DEF e2
    <2>10. e3 = T(mB, mA, mB, mB, f)
      BY <2>4, <2>9
    <2> HIDE DEF e3
    <2>11. e4 = T(mB, mA, mB, mA, f)
      BY <2>5, <2>10
    <2> HIDE DEF e4
    <2>12. e5 = T(mB, mA, mB, mA, ~f)
      BY <2>6, <2>11
    <2> HIDE DEF e5
    <2>13. QED
      BY <2>1, <2>7, <2>12
  <1>5. QED
    BY <1>3, <1>4

\* The price and the volume of an event.
LEMMA PriceOf ==
    ASSUME NEW pool, NEW mA, NEW mB, NEW f \in BOOLEAN, NEW x \in Int, NEW y \in Int, x > 0, y > 0
    PROVE  LET e == Traded(pool, mA, mB, f, x, y)
               base == IF f THEN x ELSE y
               quote == IF f THEN y ELSE x
           IN  /\ e.mintA = mA /\ e.mintB = mB
               /\ CalculatePrice(e) = <<ScaleAmount(quote, mB), ScaleAmount(base, mA)>>
               /\ CalculateVolume(e) = quote
  <1> DEFINE e == Traded(pool, mA, mB, f, x, y)
  <1>1. /\ e.mintA = mA /\ e.mintB = mB /\ e.decA = mA /\ e.decB = mB
        /\ e.isBaseInput = f /\ e.amountIn = x /\ e.amountOut = y
    BY DEF Traded
  <1> HIDE DEF e
  <1>2. QED
    BY <1>1 DEF CalculatePrice, CalculateVolume, e

\* The magnitude of a change.
Magnitude(d) == IF d < 0 THEN -d ELSE d

\* Two vaults that show a swap, named in either order, are one event of the
\* canonical pair.
LEMMA CanonicalEvent ==
    ASSUME NEW pool, NEW a \in BalanceType, NEW b \in BalanceType, a.mint # 0, b.mint # 0,
           a.mint # b.mint, Exchanged(Delta(a), Delta(b))
    PROVE  LET n == NormalizeToCanonicalPair(ParseSwapEvent(pool, a, b))
               pair == ResolvePair(a.mint, b.mint)
               ofBase == Magnitude(IF pair.inverted THEN Delta(b) ELSE Delta(a))
               ofQuote == Magnitude(IF pair.inverted THEN Delta(a) ELSE Delta(b))
           IN  /\ n = NormalizeToCanonicalPair(ParseSwapEvent(pool, b, a))
               /\ n.mintA = pair.base /\ n.mintB = pair.quote
               /\ CalculatePrice(n) =
                      <<ScaleAmount(ofQuote, pair.quote), ScaleAmount(ofBase, pair.base)>>
               /\ CalculateVolume(n) = ofQuote
  <1> DEFINE dA == Delta(a)
             dB == Delta(b)
             mA == a.mint
             mB == b.mint
             pair == ResolvePair(mA, mB)
             back == ResolvePair(mB, mA)
             f == dA > 0
             x == IF f THEN dA ELSE dB
             y == IF f THEN -dB ELSE -dA
  <1>1. dA \in Int /\ dB \in Int
    <2>1. dA \in -Half..(Half - 1) /\ dB \in -Half..(Half - 1)
      BY DeltaExact DEF BalanceType
    <2>2. QED
      BY <2>1, HalfWord
  <1>2. mA \in Nat \ {0} /\ mB \in Nat \ {0} /\ mA # mB
    BY DEF BalanceType
  <1>3. Exchanged(dA, dB)
    OBVIOUS
  <1>4. /\ pair \in PairType
        /\ pair.base = (IF pair.inverted THEN mB ELSE mA)
        /\ pair.quote = (IF pair.inverted THEN mA ELSE mB)
        /\ back.inverted = ~pair.inverted
    BY <1>2, OneOrientation
  <1>5. pair.inverted \in BOOLEAN
    BY <1>4 DEF PairType
  <1>6. /\ f \in BOOLEAN
        /\ ParseSwapEvent(pool, a, b) = Traded(pool, mA, mB, f, x, y)
        /\ ParseSwapEvent(pool, b, a) = Traded(pool, mB, mA, ~f, x, y)
        /\ x \in Int /\ y \in Int /\ x > 0 /\ y > 0
        /\ Magnitude(dA) = (IF f THEN x ELSE y) /\ Magnitude(dB) = (IF f THEN y ELSE x)
    <2>1. CASE dA > 0 /\ dB < 0
      <3>1. f = TRUE /\ (~f) = FALSE
        BY <2>1
      <3>2. /\ ParseSwapEvent(pool, a, b) = Traded(pool, mA, mB, TRUE, dA, -dB)
            /\ ParseSwapEvent(pool, b, a) = Traded(pool, mB, mA, FALSE, dA, -dB)
        BY <2>1, Parsed
      <3>3. x = dA /\ y = -dB
        BY <2>1
      <3>4. x \in Int /\ y \in Int /\ x > 0 /\ y > 0 /\ Magnitude(dA) = x /\ Magnitude(dB) = y
        <4> HIDE DEF dA, dB, x, y
        <4>1. QED
          BY <1>1, <2>1, <3>3 DEF Magnitude
      <3> HIDE DEF f, x, y, dA, dB, mA, mB
      <3>5. QED
        BY <3>1, <3>2, <3>3, <3>4
    <2>2. CASE dA < 0 /\ dB > 0
      <3>1. f = FALSE /\ (~f) = TRUE
        BY <1>1, <2>2
      <3>2. /\ ParseSwapEvent(pool, a, b) = Traded(pool, mA, mB, FALSE, dB, -dA)
            /\ ParseSwapEvent(pool, b, a) = Traded(pool, mB, mA, TRUE, dB, -dA)
        BY <2>2, Parsed
      <3>3. x = dB /\ y = -dA
        BY <3>1
      <3>4. x \in Int /\ y \in Int /\ x > 0 /\ y > 0 /\ Magnitude(dA) = y /\ Magnitude(dB) = x
        <4> HIDE DEF dA, dB, x, y
        <4>1. QED
          BY <1>1, <2>2, <3>3 DEF Magnitude
      <3> HIDE DEF f, x, y, dA, dB, mA, mB
      <3>5. QED
        BY <3>1, <3>2, <3>3, <3>4
    <2>3. QED
      BY <1>3, <2>1, <2>2 DEF Exchanged
  <1> HIDE DEF f, x, y, dA, dB, mA, mB, pair, back
  <1>7. /\ NormalizeToCanonicalPair(ParseSwapEvent(pool, a, b)) =
               IF pair.inverted THEN Traded(pool, mB, mA, ~f, x, y) ELSE Traded(pool, mA, mB, f, x, y)
        /\ NormalizeToCanonicalPair(ParseSwapEvent(pool, b, a)) =
               IF back.inverted THEN Traded(pool, mA, mB, ~~f, x, y) ELSE Traded(pool, mB, mA, ~f, x, y)
    <2>1. (~f) \in BOOLEAN
      BY <1>6
    <2>2. NormalizeToCanonicalPair(Traded(pool, mA, mB, f, x, y)) =
               IF pair.inverted THEN Traded(pool, mB, mA, ~f, x, y) ELSE Traded(pool, mA, mB, f, x, y)
      BY <1>2, <1>6, Normalized DEF pair
    <2>3. NormalizeToCanonicalPair(Traded(pool, mB, mA, ~f, x, y)) =
               IF back.inverted THEN Traded(pool, mA, mB, ~~f, x, y) ELSE Traded(pool, mB, mA, ~f, x, y)
      <3> DEFINE g == ~f
      <3>1. g \in BOOLEAN
        BY <2>1
      <3> HIDE DEF g
      <3>2. NormalizeToCanonicalPair(Traded(pool, mB, mA, g, x, y)) =
               IF back.inverted THEN Traded(pool, mA, mB, ~g, x, y) ELSE Traded(pool, mB, mA, g, x, y)
        BY <1>2, <3>1, Normalized DEF back
      <3>3. QED
        BY <3>2 DEF g
    <2>4. QED
      BY <1>6, <2>2, <2>3
  <1> DEFINE n == NormalizeToCanonicalPair(ParseSwapEvent(pool, a, b))
             m == NormalizeToCanonicalPair(ParseSwapEvent(pool, b, a))
             ofBase == Magnitude(IF pair.inverted THEN dB ELSE dA)
             ofQuote == Magnitude(IF pair.inverted THEN dA ELSE dB)
  <1>8. /\ n = m
        /\ n.mintA = pair.base /\ n.mintB = pair.quote
        /\ CalculatePrice(n) = <<ScaleAmount(ofQuote, pair.quote), ScaleAmount(ofBase, pair.base)>>
        /\ CalculateVolume(n) = ofQuote
    <2>1. CASE pair.inverted
      <3>1. n = Traded(pool, mB, mA, ~f, x, y) /\ m = n
        BY <1>4, <1>7, <2>1
      <3>2. pair.base = mB /\ pair.quote = mA /\ ofBase = Magnitude(dB) /\ ofQuote = Magnitude(dA)
        BY <1>4, <2>1
      <3> DEFINE g == ~f
      <3>3. g \in BOOLEAN /\ ofBase = (IF g THEN x ELSE y) /\ ofQuote = (IF g THEN y ELSE x)
        BY <1>6, <3>2
      <3> HIDE DEF n, m, ofBase, ofQuote, g
      <3>4. n = Traded(pool, mB, mA, g, x, y)
        BY <3>1 DEF g
      <3>5. QED
        BY <1>6, <3>1, <3>2, <3>3, <3>4, PriceOf
    <2>2. CASE ~pair.inverted
      <3>1. n = Traded(pool, mA, mB, f, x, y)
        BY <1>7, <2>2
      <3>2. m = Traded(pool, mA, mB, f, x, y)
        <4>1. back.inverted /\ (~~f) = f
          BY <1>4, <1>6, <2>2
        <4>2. QED
          BY <1>7, <4>1
      <3>3. pair.base = mA /\ pair.quote = mB /\ ofBase = Magnitude(dA) /\ ofQuote = Magnitude(dB)
        BY <1>4, <2>2
      <3> HIDE DEF n, m, ofBase, ofQuote
      <3>4. QED
        BY <1>6, <3>1, <3>2, <3>3, PriceOf
    <2>3. QED
      BY <1>5, <2>1, <2>2
  <1>9. QED
    BY <1>8 DEF dA, dB, mA, mB, pair

\* The Orca package makes the same of a trader's two accounts, whose losses are
\* dA and dB, when it knows their mints.
LEMMA PackageEvent ==
    ASSUME NEW A, NEW B, A.pre \in Words, A.post \in Words, B.pre \in Words, B.post \in Words,
           A.mint \in Nat \ {0}, B.mint \in Nat \ {0}, A.mint # B.mint,
           NEW dA \in Int, NEW dB \in Int, dA = A.pre - A.post, dB = B.pre - B.post,
           Exchanged(dA, dB), NEW f \in BOOLEAN, f <=> dA > 0,
           DetermineBaseQuote(A.mint, B.mint) # Error
    PROVE  LET pair == ResolvePair(A.mint, B.mint)
           IN  DecodeSwapTransaction(f, A, B) =
                   [base |-> pair.base, quote |-> pair.quote,
                    volumeBase |-> ScaleAmount(Magnitude(IF pair.inverted THEN dB ELSE dA), pair.base),
                    volumeQuote |-> ScaleAmount(Magnitude(IF pair.inverted THEN dA ELSE dB), pair.quote),
                    price |-> <<pair.quote, pair.base>>]
  <1> DEFINE mA == A.mint
             mB == B.mint
             pair == ResolvePair(mA, mB)
             amount == calculateAmounts(f, A, B)
             ofA == ScaleAmount(IF f THEN amount.in ELSE amount.out, mA)
             ofB == ScaleAmount(IF f THEN amount.out ELSE amount.in, mB)
  <1>1. DetermineBaseQuote(mA, mB) = pair /\ pair # Error
    BY PackagesAgree
  <1>2. /\ pair \in PairType
        /\ pair.base = (IF pair.inverted THEN mB ELSE mA)
        /\ pair.quote = (IF pair.inverted THEN mA ELSE mB)
    BY OneOrientation
  <1>3. DecodeSwapTransaction(f, A, B) =
            [base |-> pair.base, quote |-> pair.quote,
             volumeBase |-> IF pair.base = mA THEN ofA ELSE ofB,
             volumeQuote |-> IF pair.base = mA THEN ofB ELSE ofA,
             price |-> IF pair.base = mA THEN <<mB, mA>> ELSE <<mA, mB>>]
    BY <1>1 DEF DecodeSwapTransaction
  <1>4. /\ A.pre \in Int /\ A.post \in Int /\ B.pre \in Int /\ B.post \in Int
        /\ A.post - A.pre = -dA /\ B.post - B.pre = -dB
        /\ -Word < dA /\ dA < Word /\ -Word < dB /\ dB < Word
    BY HalfWord DEF Words
  <1>5. \A x \in Int : 0 < x /\ x < Word => Uint64(x) = x
    BY Uint64Word, HalfWord DEF Words
  <1>6. ofA = ScaleAmount(Magnitude(dA), mA) /\ ofB = ScaleAmount(Magnitude(dB), mB)
    <2>1. CASE f
      <3>1. dA > 0 /\ dB < 0
        BY <2>1 DEF Exchanged
      <3>2. Magnitude(dA) = dA /\ Magnitude(dB) = -dB
        BY <3>1 DEF Magnitude
      <3>3. Uint64(dA) = dA /\ Uint64(-dB) = -dB
        BY <1>4, <1>5, <3>1, HalfWord
      <3>4. amount = [in |-> Uint64(dA), out |-> Uint64(-dB)]
        <4>1. amount = [in |-> Uint64(A.pre - A.post), out |-> Uint64(B.post - B.pre)]
          BY <2>1 DEF calculateAmounts
        <4>2. QED
          BY <1>4, <4>1
      <3>5. amount.in = dA /\ amount.out = -dB
        BY <3>3, <3>4
      <3> HIDE DEF amount
      <3>6. QED
        BY <2>1, <3>2, <3>5
    <2>2. CASE ~f
      <3>1. dA < 0 /\ dB > 0
        BY <2>2 DEF Exchanged
      <3>2. Magnitude(dA) = -dA /\ Magnitude(dB) = dB
        BY <3>1 DEF Magnitude
      <3>3. Uint64(dB) = dB /\ Uint64(-dA) = -dA
        BY <1>4, <1>5, <3>1, HalfWord
      <3>4. amount = [in |-> Uint64(dB), out |-> Uint64(-dA)]
        <4>1. amount = [in |-> Uint64(B.pre - B.post), out |-> Uint64(A.post - A.pre)]
          BY <2>2 DEF calculateAmounts
        <4>2. QED
          BY <1>4, <4>1
      <3>5. amount.in = dB /\ amount.out = -dA
        BY <3>3, <3>4
      <3> HIDE DEF amount
      <3>6. QED
        BY <2>2, <3>2, <3>5
    <2>3. QED
      BY <2>1, <2>2
  <1>7. mA # mB /\ pair.inverted \in BOOLEAN
    BY <1>2 DEF PairType
  <1> HIDE DEF mA, mB, pair, amount, ofA, ofB
  <1>8. DecodeSwapTransaction(f, A, B) =
            [base |-> pair.base, quote |-> pair.quote,
             volumeBase |-> ScaleAmount(Magnitude(IF pair.inverted THEN dB ELSE dA), pair.base),
             volumeQuote |-> ScaleAmount(Magnitude(IF pair.inverted THEN dA ELSE dB), pair.quote),
             price |-> <<pair.quote, pair.base>>]
    <2>1. CASE pair.inverted
      <3>1. pair.base = mB /\ pair.quote = mA /\ ~(mB = mA)
        BY <1>2, <1>7, <2>1
      <3>2. QED
        BY <1>3, <1>6, <2>1, <3>1
    <2>2. CASE ~pair.inverted
      <3>1. pair.base = mA /\ pair.quote = mB
        BY <1>2, <2>2
      <3>2. QED
        BY <1>3, <1>6, <2>2, <3>1
    <2>3. QED
      BY <1>7, <2>1, <2>2
  <1>9. QED
    BY <1>8 DEF pair, mA, mB

\* If it knows them in one order it does in the other.
LEMMA KnownEitherWay ==
    ASSUME NEW a \in Nat \ {0}, NEW b \in Nat \ {0}, DetermineBaseQuote(a, b) # Error
    PROVE  DetermineBaseQuote(b, a) # Error
  <1>1. a \in DOMAIN Metadata /\ b \in DOMAIN Metadata
    BY DEF DetermineBaseQuote
  <1> DEFINE p == getPriority(Metadata[a])
             q == getPriority(Metadata[b])
  <1>2. DetermineBaseQuote(b, a) = Ordered(b, a, q, p) /\ p \in Nat /\ q \in Nat
    BY <1>1, Priorities DEF DetermineBaseQuote
  <1> HIDE DEF p, q
  <1>3. Ordered(b, a, q, p) \in PairType
    BY <1>2, OrderedPair
  <1>4. QED
    BY <1>2, <1>3, MarkersAssumption

\* What both packages make of the two vaults of a Raydium event.
LEMMA CanonicalSwap ==
    ASSUME Tables, NEW tx, IsTransaction(tx), Plain(tx), NEW e \in Build(tx, tx.instrs[1]),
           e # Nil, e # Error, e.program = "raydium", ReadSwap(tx, e)
    PROVE  OneCanonicalSwap(tx, e)
  <1> DEFINE instr == tx.instrs[1]
  <1>1. instr \in Instruction /\ instr.program = "raydium"
    BY PlainInstr, BuiltEvent
  <1>2. e \in buildRaydiumSwap(tx, instr)
    BY <1>1 DEF Build
  <1>3. PICK p \in PairsOf(tx, instr) : e = RaydiumEventAt(tx, instr, p)
    BY <1>1, <1>2, RaydiumEvents
  <1> DEFINE i == p[1]
             j == p[2]
             dA == Delta(Vault(tx, i))
             dB == Delta(Vault(tx, j))
  <1>4. /\ i \in Vaults(tx, e.pool) /\ j \in Vaults(tx, e.pool)
        /\ i \in DOMAIN tx.bal /\ j \in DOMAIN tx.bal
        /\ tx.bal[i].mint = e.base /\ tx.bal[j].mint = e.quote
        /\ dA = Net(tx, e.pool, e.base) /\ dB = Net(tx, e.pool, e.quote)
        /\ dA = Vault(tx, i).post - Vault(tx, i).pre
        /\ dB = Vault(tx, j).post - Vault(tx, j).pre
        /\ dA \in Int /\ dB \in Int /\ Exchanged(dA, dB)
    BY <1>1, <1>3, RaydiumShape
  <1>in. e.baseIn = IF dA > 0 THEN dA ELSE 0
    <2> DEFINE none == <<0, 0>>
               mA == tx.bal[i].mint
               mB == tx.bal[j].mint
               pool == PoolOf(tx, instr)
               fee == Fee(pool)
    <2>1. e = Moved("raydium", pool, mA, mB, fee, none, dA, dB)
      BY <1>3 DEF RaydiumEventAt
    <2> HIDE DEF none, mA, mB, pool, fee, dA, dB
    <2>2. QED
      BY <1>4, <2>1, MovedFields
  <1> HIDE DEF instr, i, j, dA, dB
  <1> DEFINE At(mint) == CHOOSE k \in Vaults(tx, e.pool) : tx.bal[k].mint = mint
             a == Vault(tx, At(e.base))
             b == Vault(tx, At(e.quote))
             A == [a EXCEPT !.pre = a.post, !.post = a.pre]
             B == [b EXCEPT !.pre = b.post, !.post = b.pre]
             n == NormalizeToCanonicalPair(ParseSwapEvent(e.pool, a, b))
             pair == ResolvePair(a.mint, b.mint)
             ofBase == ScaleAmount(Magnitude(Net(tx, e.pool, n.mintA)), n.mintA)
             ofQuote == ScaleAmount(Magnitude(Net(tx, e.pool, n.mintB)), n.mintB)
             orca == DecodeSwapTransaction(e.baseIn > 0, A, B)
             orca2 == DecodeSwapTransaction(e.baseIn = 0, B, A)
             known == [base |-> n.mintA, quote |-> n.mintB,
                       volumeBase |-> ofBase, volumeQuote |-> ofQuote,
                       price |-> <<n.mintB, n.mintA>>]
  <1>5. At(e.base) = i /\ At(e.quote) = j
    <2>1. \A k, l \in Vaults(tx, e.pool) : tx.bal[k].mint = tx.bal[l].mint => k = l
      BY DEF Plain, Vaults
    <2>2. QED
      BY <1>4, <2>1
  <1>6. OneCanonicalSwap(tx, e) =
            /\ n = NormalizeToCanonicalPair(ParseSwapEvent(e.pool, b, a))
            /\ CalculatePrice(n) = <<ofQuote, ofBase>>
            /\ CalculateVolume(n) = ofQuote[1]
            /\ orca # Error => orca = orca2 /\ orca = known
    BY Zenon DEF OneCanonicalSwap, Magnitude
  <1>7. /\ a \in BalanceType /\ b \in BalanceType /\ a.mint = e.base /\ b.mint = e.quote
        /\ e.base \in Nat \ {0} /\ e.quote \in Nat \ {0}
        /\ Delta(a) = dA /\ Delta(b) = dB
        /\ dA = a.post - a.pre /\ dB = b.post - b.pre
    BY <1>4, <1>5, VaultType DEF dA, dB
  <1>8. e.base # e.quote
    <2>1. dA # dB
      BY <1>4 DEF Exchanged
    <2>2. QED
      BY <1>4, <2>1
  <1>9. /\ a.pre \in Words /\ a.post \in Words /\ b.pre \in Words /\ b.post \in Words
        /\ a.mint # 0 /\ b.mint # 0 /\ a.mint # b.mint
    BY <1>7, <1>8 DEF BalanceType
  <1> DEFINE dBase == IF pair.inverted THEN dB ELSE dA
             dQuote == IF pair.inverted THEN dA ELSE dB
  <1>10. /\ n = NormalizeToCanonicalPair(ParseSwapEvent(e.pool, b, a))
         /\ n.mintA = pair.base /\ n.mintB = pair.quote
         /\ CalculatePrice(n) = <<ScaleAmount(Magnitude(dQuote), pair.quote),
                                  ScaleAmount(Magnitude(dBase), pair.base)>>
         /\ CalculateVolume(n) = Magnitude(dQuote)
    <2> HIDE DEF a, b
    <2>1. Exchanged(Delta(a), Delta(b))
      BY <1>4, <1>7
    <2>2. QED
      BY <1>7, <1>9, <2>1, CanonicalEvent
  <1> DEFINE back == ResolvePair(b.mint, a.mint)
  <1>11. /\ pair.inverted \in BOOLEAN
         /\ pair.base = (IF pair.inverted THEN b.mint ELSE a.mint)
         /\ pair.quote = (IF pair.inverted THEN a.mint ELSE b.mint)
         /\ back.inverted = ~pair.inverted
         /\ back.base = pair.base /\ back.quote = pair.quote
    <2> HIDE DEF a, b
    <2>1. a.mint \in Nat \ {0} /\ b.mint \in Nat \ {0}
      BY <1>7
    <2>2. pair \in PairType
      BY <2>1, OneOrientation
    <2>3. QED
      BY <1>9, <2>1, <2>2, OneOrientation DEF PairType
  <1> HIDE DEF a, b, pair, back, n, At
  <1>12. Net(tx, e.pool, n.mintA) = dBase /\ Net(tx, e.pool, n.mintB) = dQuote
    BY <1>4, <1>7, <1>10, <1>11
  <1>13. /\ ofBase = ScaleAmount(Magnitude(dBase), pair.base)
         /\ ofQuote = ScaleAmount(Magnitude(dQuote), pair.quote)
         /\ ofQuote[1] = Magnitude(dQuote)
    BY <1>10, <1>12 DEF ScaleAmount
  <1> DEFINE swap == [base |-> pair.base, quote |-> pair.quote,
                      volumeBase |-> ScaleAmount(Magnitude(dBase), pair.base),
                      volumeQuote |-> ScaleAmount(Magnitude(dQuote), pair.quote),
                      price |-> <<pair.quote, pair.base>>]
  <1>14. known = swap
    BY <1>10, <1>13
  <1>15. orca # Error => orca = swap /\ orca2 = swap
    <2> HAVE orca # Error
    <2>1. /\ A.mint = a.mint /\ A.pre = a.post /\ A.post = a.pre
          /\ B.mint = b.mint /\ B.pre = b.post /\ B.post = b.pre
      BY <1>7 DEF BalanceType
    <2> DEFINE f == e.baseIn > 0
               g == e.baseIn = 0
    <2>2. f \in BOOLEAN /\ g \in BOOLEAN /\ (f <=> -dA < 0) /\ (f <=> dA > 0) /\ (g <=> dB > 0)
      BY <1>in, <1>4 DEF Exchanged
    <2>3. orca = DecodeSwapTransaction(f, A, B) /\ orca2 = DecodeSwapTransaction(g, B, A)
      OBVIOUS
    <2> HIDE DEF f, g, A, B, orca, orca2
    <2>4. DetermineBaseQuote(A.mint, B.mint) # Error
      BY <2>3 DEF DecodeSwapTransaction
    <2>5. /\ A.mint \in Nat \ {0} /\ B.mint \in Nat \ {0} /\ A.mint # B.mint
          /\ A.pre \in Words /\ A.post \in Words /\ B.pre \in Words /\ B.post \in Words
          /\ dA = A.pre - A.post /\ dB = B.pre - B.post
      BY <1>7, <1>9, <2>1
    <2>6. DetermineBaseQuote(B.mint, A.mint) # Error
      BY <2>4, <2>5, KnownEitherWay
    <2>7. Exchanged(dB, dA)
      BY <1>4 DEF Exchanged
    <2>8. pair = ResolvePair(A.mint, B.mint) /\ back = ResolvePair(B.mint, A.mint)
      BY <2>1 DEF pair, back
    <2>9. orca = swap
      BY <1>4, <2>2, <2>3, <2>4, <2>5, <2>8, PackageEvent
    <2>10. orca2 = [base |-> back.base, quote |-> back.quote,
                    volumeBase |-> ScaleAmount(Magnitude(IF back.inverted THEN dA ELSE dB), back.base),
                    volumeQuote |-> ScaleAmount(Magnitude(IF back.inverted THEN dB ELSE dA), back.quote),
                    price |-> <<back.quote, back.base>>]
      BY <1>4, <2>2, <2>3, <2>5, <2>6, <2>7, <2>8, PackageEvent
    <2>11. /\ (IF back.inverted THEN dA ELSE dB) = dBase
           /\ (IF back.inverted THEN dB ELSE dA) = dQuote
      BY <1>11
    <2> HIDE DEF dBase, dQuote
    <2>12. orca2 = swap
      BY <1>11, <2>10, <2>11
    <2>13. QED
      BY <2>9, <2>12
  <1> HIDE DEF A, B, ofBase, ofQuote, orca, orca2, known, swap, dBase, dQuote
  <1>16. QED
    BY <1>6, <1>10, <1>13, <1>14, <1>15

LEMMA CanonicalHolds == DecoderIInv => CanonicalOrderFree
  <1> SUFFICES ASSUME DecoderIInv, NEW e \in Events, e.program = "raydium", IsTrade(out.tx, e)
               PROVE  OneCanonicalSwap(out.tx, e)
    BY DEF CanonicalOrderFree
  <1>1. Plain(out.tx)
    BY DEF IsTrade
  <1>2. QED
    BY <1>1, PlainEvent, AsRead, CanonicalSwap

\* What the packages export: the price, the volume and the canonical pair of a
\* Raydium swap (NormalizeToCanonicalPair, CalculatePrice, CalculateVolume) do not
\* depend on which vault was called A, and the Orca package agrees with the
\* Raydium package on every pair of mints it knows: for all mints, symbols and
\* amounts.
THEOREM CanonicalTheorem == Spec => []CanonicalOrderFree
  BY DecoderCorrect, CanonicalHolds, PTL
=============================================================================

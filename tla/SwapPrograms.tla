---------------------------- MODULE SwapPrograms ----------------------------
(***************************************************************************)
(* The program decoders as functions of a transaction: the Raydium parser  *)
(* (decoder/raydium), the Meteora decoder (decoder/meteora) and the        *)
(* stand-alone Orca decoder (decoder/orca_whirlpool).                      *)
(*                                                                         *)
(* A transaction has keys (its account addresses), bal (account index to   *)
(* token balance), instrs and logs.  Indices count from one.  A balance    *)
(* has a mint, an owner and the amounts pre and post, each possibly        *)
(* Absent from its snapshot, Empty (the empty string) or Bad (another      *)
(* string that is no decimal number).  Amounts are integers below Word,    *)
(* the code's 2^64.                                                        *)
(*                                                                         *)
(* A mint's decimals are a property of the mint on the chain, so a scaled  *)
(* amount is written <<amount, mint>>: the mint says whose decimals        *)
(* divided it.  Slot, signature, index and timestamp are carried along by  *)
(* the code and left out here.                                             *)
(***************************************************************************)
EXTENDS Pairs, Sequences, FiniteSets

CONSTANTS
    Word,     \* one more than the largest uint64
    FeeWord,  \* one more than the largest uint32
    Absent,   \* no entry in the balance snapshot
    Empty,    \* an entry without an amount
    Bad,      \* an amount that strconv.ParseUint refuses
    Nil       \* no event

ASSUME WordAssumption == Word \in Nat /\ Word > 1 /\ Word % 2 = 0

ASSUME FeeWordAssumption == FeeWord \in Nat \ {0}

Words == 0..(Word - 1)

BalanceType == [mint : Nat, pre : Words, post : Words]

\* The special values are no numbers, and an error is no result.
ASSUME MarkersAssumption ==
    /\ Absent \notin Nat /\ Empty \notin Nat /\ Bad \notin Nat
    /\ Empty # Absent /\ Empty # Bad
    /\ Error \notin PairType \cup BalanceType

Half == Word \div 2

Int64(x) == ((x + Half) % Word) - Half

Uint64(x) == x % Word

Amount(a) == IF a \in {Absent, Empty, Bad} THEN 0 ELSE a

First(S) == CHOOSE i \in S : \A j \in S : i <= j

Last(S) == CHOOSE i \in S : \A j \in S : j <= i

---------------------------------------------------------------------------
(* Raydium *)

\* int64(post) - int64(pre)
Delta(b) == Int64(Int64(b.post) - Int64(b.pre))

\* ParseSwapEvent: the vault that grew took the input.
ParseSwapEvent(pool, vaultA, vaultB) ==
    LET deltaA == Delta(vaultA)
        deltaB == Delta(vaultB)
        event == [pool |-> pool, mintA |-> vaultA.mint, mintB |-> vaultB.mint,
                  decA |-> vaultA.mint, decB |-> vaultB.mint,
                  isBaseInput |-> deltaA > 0,
                  amountIn |-> Uint64(IF deltaA > 0 THEN deltaA ELSE deltaB),
                  amountOut |-> Uint64(IF deltaA > 0 THEN -deltaB ELSE -deltaA)]
    IN  IF \/ deltaA > 0 /\ deltaB < 0
           \/ deltaA < 0 /\ deltaB > 0
        THEN event ELSE Error

MutantKeepDirection(e) ==
    IF ResolvePair(e.mintA, e.mintB).inverted
    THEN [e EXCEPT !.mintA = e.mintB, !.mintB = e.mintA,
                   !.decA = e.decB, !.decB = e.decA]
    ELSE e

NormalizeToCanonicalPair(e) ==
    LET pair == ResolvePair(e.mintA, e.mintB)
    IN  CASE pair = Error  -> Error
          [] pair.inverted -> [e EXCEPT !.mintA = e.mintB, !.mintB = e.mintA,
                                        !.decA = e.decB, !.decB = e.decA,
                                        !.isBaseInput = ~@]
          [] OTHER         -> e

ScaleAmount(amount, decimalsOf) == <<amount, decimalsOf>>

\* The quotient quote / base as the pair of its operands: the amounts of the
\* swap, and not the pool's sqrt price.
CalculatePrice(e) ==
    LET base == IF e.isBaseInput THEN e.amountIn ELSE e.amountOut
        quote == IF e.isBaseInput THEN e.amountOut ELSE e.amountIn
    IN  IF base = 0 THEN <<0, 0>>
        ELSE <<ScaleAmount(quote, e.decB), ScaleAmount(base, e.decA)>>

CalculateVolume(e) == IF e.isBaseInput THEN e.amountOut ELSE e.amountIn

---------------------------------------------------------------------------
(* Meteora *)

\* An empty amount is 0 here, where the ingestor's parseAmount refuses it.
balanceForAccount(tx, index) ==
    LET b == tx.bal[index]
    IN  IF \/ index \notin DOMAIN tx.bal
           \/ b.pre = Absent /\ b.post = Absent
           \/ Bad \in {b.pre, b.post}
        THEN Error
        ELSE [mint |-> b.mint, pre |-> Amount(b.pre), post |-> Amount(b.post)]

outgoing(b) == IF b.pre >= b.post THEN b.pre - b.post ELSE 0

incoming(b) == IF b.post >= b.pre THEN b.post - b.pre ELSE 0

\* applyLogMetadata: of all the lines of the transaction the last one wins, and
\* uint32(fee) keeps the low bits.
LoggedFee(logs) ==
    LET lines == {i \in DOMAIN logs : logs[i].fee # Absent}
    IN  IF lines = {} THEN 0 ELSE logs[Last(lines)].fee % FeeWord

LoggedReserves(logs, kind) ==
    LET marker == IF kind = "dlmm" THEN "virtual_reserves" ELSE "cpmm_reserves"
        lines == {i \in DOMAIN logs : logs[i].marker = marker /\ logs[i].reserves # <<0, 0>>}
    IN  IF lines = {} THEN <<0, 0>> ELSE logs[Last(lines)].reserves

\* DecodeSwapEvent.  The third case of its switch cannot be met: ResolvePair
\* returns the two mints it was given.
DecodeSwapEvent(tx, instr) ==
    IF \/ Len(instr.accounts) < 8
       \/ instr.accounts[2] > Len(tx.keys)
    THEN Error
    ELSE
    LET input == balanceForAccount(tx, instr.accounts[3])
        output == balanceForAccount(tx, instr.accounts[4])
    IN  IF Error \in {input, output} THEN Error
        ELSE
        LET pair == ResolvePair(input.mint, output.mint)
            amountIn == outgoing(input)
            amountOut == incoming(output)
        IN  IF pair = Error \/ amountIn = 0 \/ amountOut = 0 THEN Error
            ELSE [pool |-> tx.keys[instr.accounts[2]],
                  base |-> pair.base, quote |-> pair.quote,
                  baseAmount |-> IF pair.base = input.mint THEN amountIn ELSE amountOut,
                  quoteAmount |-> IF pair.base = input.mint THEN amountOut ELSE amountIn,
                  baseDecreased |-> pair.base # input.mint,
                  fee |-> LoggedFee(tx.logs),
                  reserves |-> LoggedReserves(tx.logs, instr.kind)]

---------------------------------------------------------------------------
(* Orca: the stand-alone decoder *)

\* calculateAmounts: the differences wrap around when the balances move the
\* other way.
calculateAmounts(aToB, ownerA, ownerB) ==
    IF aToB
    THEN [in |-> Uint64(ownerA.pre - ownerA.post), out |-> Uint64(ownerB.post - ownerB.pre)]
    ELSE [in |-> Uint64(ownerB.pre - ownerB.post), out |-> Uint64(ownerA.post - ownerA.pre)]

\* DecodeSwapTransaction.  The price of the pool is B per A; it is turned
\* around when A is not the base.
DecodeSwapTransaction(aToB, ownerA, ownerB) ==
    LET pair == DetermineBaseQuote(ownerA.mint, ownerB.mint)
        amount == calculateAmounts(aToB, ownerA, ownerB)
        ofA == ScaleAmount(IF aToB THEN amount.in ELSE amount.out, ownerA.mint)
        ofB == ScaleAmount(IF aToB THEN amount.out ELSE amount.in, ownerB.mint)
    IN  IF pair = Error THEN Error
        ELSE [base |-> pair.base, quote |-> pair.quote,
              volumeBase |-> IF pair.base = ownerA.mint THEN ofA ELSE ofB,
              volumeQuote |-> IF pair.base = ownerA.mint THEN ofB ELSE ofA,
              price |-> IF pair.base = ownerA.mint
                        THEN <<ownerB.mint, ownerA.mint>> ELSE <<ownerA.mint, ownerB.mint>>]
=============================================================================

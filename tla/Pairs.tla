------------------------------- MODULE Pairs -------------------------------
(***************************************************************************)
(* The two rules that say which mint of a pair is the base and which the   *)
(* quote: ResolvePair (decoder/common/pair.go), used by the Meteora        *)
(* decoder and by the Raydium package's NormalizeToCanonicalPair, and      *)
(* DetermineBaseQuote (decoder/common/mint_metadata.go), used by the Orca  *)
(* package.  Of these the ingestor calls the Meteora decoder alone.        *)
(*                                                                         *)
(* A mint is a positive number, compared as its address is; 0 is the empty *)
(* address.  A symbol matters only for its priority, so an unknown mint,   *)
(* whose symbol is a prefix of its address, has the symbol "unknown".      *)
(***************************************************************************)
EXTENDS Integers

CONSTANTS
    KnownTokens,   \* knownTokens: a function from mints to symbols
    Metadata,      \* the provider's table: a function from mints to symbols
    Error          \* a decoder's error result

QuotePriority == [USDC |-> 100, USDT |-> 90, SOL |-> 80, WSOL |-> 75]

CanonicalPriority == [USDC |-> 100, USDT |-> 90, SOL |-> 80]

resolveTokenSymbol(mint) ==
    IF mint \in DOMAIN KnownTokens THEN KnownTokens[mint] ELSE "unknown"

getQuotePriority(symbol) ==
    IF symbol \in DOMAIN QuotePriority THEN QuotePriority[symbol] ELSE 0

getPriority(symbol) ==
    IF symbol \in DOMAIN CanonicalPriority THEN CanonicalPriority[symbol] ELSE 0

MutantOrdered(mintA, mintB, priorityA, priorityB) ==
    [base |-> IF priorityA > priorityB THEN mintB ELSE mintA,
     quote |-> IF priorityA > priorityB THEN mintA ELSE mintB,
     inverted |-> priorityA > priorityB]

\* Equal priorities fall back on the order of the addresses.
Ordered(mintA, mintB, priorityA, priorityB) ==
    LET inverted == \/ priorityA > priorityB
                    \/ priorityA = priorityB /\ mintA > mintB
    IN  [base |-> IF inverted THEN mintB ELSE mintA,
         quote |-> IF inverted THEN mintA ELSE mintB,
         inverted |-> inverted]

ResolvePair(mintA, mintB) ==
    IF 0 \in {mintA, mintB} THEN Error
    ELSE Ordered(mintA, mintB,
                 getQuotePriority(resolveTokenSymbol(mintA)),
                 getQuotePriority(resolveTokenSymbol(mintB)))

DetermineBaseQuote(mintA, mintB) ==
    IF ~({mintA, mintB} \subseteq DOMAIN Metadata) THEN Error
    ELSE Ordered(mintA, mintB, getPriority(Metadata[mintA]), getPriority(Metadata[mintB]))

\* The provider gives a mint the rank it has by its symbol in knownTokens.
ASSUME PairsAssumption ==
    \A mint \in DOMAIN Metadata :
        getPriority(Metadata[mint]) = getQuotePriority(resolveTokenSymbol(mint))

PairType == [base : Nat, quote : Nat, inverted : BOOLEAN]
=============================================================================

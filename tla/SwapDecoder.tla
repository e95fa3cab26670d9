---------------------------- MODULE SwapDecoder ----------------------------
(***************************************************************************)
(* ingestor/decoder: the registries filled from account updates and block  *)
(* metadata, and the decoding of a transaction with them.  The ingest      *)
(* processor calls the three handlers one at a time.                       *)
(*                                                                         *)
(* The registries are maps; a key that is not there has the value Absent.  *)
(* Go iterates over a map in any order, so the outcome of decoding is a    *)
(* set of possible results and DecodeTransaction picks one.  The result is *)
(* kept as history while updates go on, to be compared with what the same  *)
(* transaction is decoded to when it is delivered again.                   *)
(***************************************************************************)
EXTENDS SwapPrograms

CONSTANTS
    Accounts,        \* account addresses
    Updates,         \* account updates: owner, pubkey and the bytes read from data
    Transactions,    \* transaction updates (see SwapPrograms)
    Slots, Times,    \* slots of block metadata and their times
    MaxUpdates       \* bound on the number of account and block updates and restarts

PoolConfigEnd == 41          \* poolConfigEnd
AmmRequiredLength == 51      \* ammRequiredLength
ApproxConfigAccountMax == 256
OrcaRequiredLength == 245    \* orcaRequiredLength

\* Any bytes at the place of an address are an address, and of a rate a number.
ASSUME UpdatesAssumption ==
    \A u \in Updates :
        /\ {u.pubkey, u.config} \subseteq Accounts
        /\ {u.len, u.rate, u.mintA, u.mintB} \subseteq Nat

\* The mints of a whirlpool never change on the chain.
ASSUME MintsAssumption ==
    \A u, v \in Updates :
        u.owner = "orca" /\ v.owner = "orca" /\ u.pubkey = v.pubkey /\ OrcaRequiredLength <= u.len /\ OrcaRequiredLength <= v.len =>
            u.mintA = v.mintA /\ u.mintB = v.mintB

ASSUME MaxUpdatesAssumption == MaxUpdates \in Nat

Amounts == Words \cup {Absent, Empty, Bad}

Balance == [mint : Nat \ {0}, owner : Accounts, pre : Amounts, post : Amounts]

Instruction ==
    [program : STRING, accounts : Seq(Nat \ {0}), data : STRING, kind : STRING]

LogLine == [fee : Nat \cup {Absent}, marker : STRING, reserves : Nat \X Nat]

IsTransaction(tx) ==
    /\ tx.keys \in Seq(Accounts)
    /\ \A i \in DOMAIN tx.bal : tx.bal[i] \in Balance
    /\ tx.instrs \in Seq(Instruction)
    /\ tx.logs \in Seq(LogLine)

ASSUME TransactionsAssumption == \A tx \in Transactions : IsTransaction(tx)

OrcaPool == [mintA : Nat, mintB : Nat, rate : Nat]   \* OrcaPoolInfo

RaydiumEvent ==
    [pool : Accounts, mintA : Nat, mintB : Nat, decA : Nat, decB : Nat,
     isBaseInput : BOOLEAN, amountIn : Words, amountOut : Words]

MeteoraEvent ==
    [pool : Accounts, base : Nat, quote : Nat, baseAmount : Words, quoteAmount : Words,
     baseDecreased : BOOLEAN, fee : Nat, reserves : Nat \X Nat]

SwapEvent ==
    [program : {"raydium", "orca", "meteora"}, pool : Accounts, base : Nat, quote : Nat,
     fee : Nat, reserves : Nat \X Nat,
     baseIn : Words, baseOut : Words, quoteIn : Words, quoteOut : Words]

\* What is missing, and what is no result, differs from what is there.
ASSUME ResultsAssumption ==
    /\ Absent \notin Accounts /\ Absent \notin Updates /\ Absent \notin OrcaPool
    /\ Nil # Error
    /\ Nil \notin SwapEvent
    /\ Error \notin RaydiumEvent \cup MeteoraEvent \cup SwapEvent
    /\ \A tx \in Transactions : \A S \in SUBSET DOMAIN tx.instrs : Error \notin [S -> SwapEvent]

VARIABLES
    slotCache, poolConfig, poolFees, configFees, orcaPools,
    out,             \* history: what DecodeTransaction returned, or Nil
    fresh,           \* history: the registries did not change since
    latest,          \* history: the last update of every account in this process
    updates          \* number of account and block updates and restarts so far

registries == <<slotCache, poolConfig, poolFees, configFees, orcaPools>>

vars == <<registries, out, fresh, latest, updates>>

---------------------------------------------------------------------------
(* Account updates *)

\* What handleRaydiumAccount takes the account for: the discriminator first,
\* then the size.
ReadAs(data) ==
    IF data.disc = "pool" /\ data.len >= PoolConfigEnd THEN "pool"
    ELSE IF data.disc = "config" /\ data.len >= AmmRequiredLength THEN "config"
    ELSE IF data.len > ApproxConfigAccountMax THEN "pool"
    ELSE IF data.len >= AmmRequiredLength THEN "config"
    ELSE IF data.len >= PoolConfigEnd THEN "pool"
    ELSE "none"

MutantFeeBps(rate) == rate

\* uint16(tradeRate / 100), and OrcaPoolInfo.FeeRate / 100
FeeBps(rate) == (rate \div 100) % 65536

\* The pool's fee stays as it was when the config is not known yet.
SetPool(u) ==
    /\ poolConfig' = [poolConfig EXCEPT ![u.pubkey] = u.config]
    /\ poolFees' = IF configFees[u.config] = Absent THEN poolFees
                   ELSE [poolFees EXCEPT ![u.pubkey] = configFees[u.config]]
    /\ UNCHANGED configFees

MutantSetConfig(u) ==
    /\ configFees' = [configFees EXCEPT ![u.pubkey] = FeeBps(u.rate)]
    /\ UNCHANGED <<poolFees, poolConfig>>

\* The pools that are already known to use this config follow.
SetConfig(u) ==
    /\ configFees' = [configFees EXCEPT ![u.pubkey] = FeeBps(u.rate)]
    /\ poolFees' = [p \in Accounts |->
                       IF poolConfig[p] = u.pubkey THEN FeeBps(u.rate) ELSE poolFees[p]]
    /\ UNCHANGED poolConfig

handleRaydiumAccount(u) ==
    /\ CASE ReadAs(u) = "pool"   -> SetPool(u)
         [] ReadAs(u) = "config" -> SetConfig(u)
         [] OTHER                -> UNCHANGED <<poolConfig, poolFees, configFees>>
    /\ UNCHANGED orcaPools

handleOrcaAccount(u) ==
    /\ orcaPools' = IF u.len < OrcaRequiredLength THEN orcaPools
                    ELSE [orcaPools EXCEPT ![u.pubkey] =
                             [mintA |-> u.mintA, mintB |-> u.mintB, rate |-> u.rate]]
    /\ UNCHANGED <<poolConfig, poolFees, configFees>>

HandleAccount(u) ==
    /\ updates < MaxUpdates
    /\ updates' = updates + 1
    /\ fresh' = FALSE
    /\ CASE u.owner = "raydium" -> handleRaydiumAccount(u)
         [] u.owner = "orca"    -> handleOrcaAccount(u)
         [] OTHER -> UNCHANGED <<poolConfig, poolFees, configFees, orcaPools>>
    /\ latest' = [latest EXCEPT ![u.pubkey] = u]
    /\ UNCHANGED <<slotCache, out>>

\* A block without a time leaves the cache alone.
HandleBlockMeta(slot, time) ==
    /\ updates < MaxUpdates
    /\ updates' = updates + 1
    /\ fresh' = FALSE
    /\ slotCache' = IF time = Absent THEN slotCache ELSE [slotCache EXCEPT ![slot] = time]
    /\ UNCHANGED <<poolConfig, poolFees, configFees, orcaPools, out, latest>>

\* The process starts again, with an empty decoder (New).
Restart ==
    /\ updates < MaxUpdates
    /\ updates' = updates + 1
    /\ fresh' = FALSE
    /\ slotCache' = [s \in Slots |-> Absent]
    /\ poolConfig' = [a \in Accounts |-> Absent]
    /\ poolFees' = [a \in Accounts |-> Absent]
    /\ configFees' = [a \in Accounts |-> Absent]
    /\ orcaPools' = [a \in Accounts |-> Absent]
    /\ latest' = [a \in Accounts |-> Absent]
    /\ UNCHANGED out

---------------------------------------------------------------------------
(* Transactions *)

\* extractVaultBalances: the entries of an owner, by account index.
Vaults(tx, owner) ==
    {i \in DOMAIN tx.bal :
        /\ tx.bal[i].owner = owner
        /\ ~({tx.bal[i].pre, tx.bal[i].post} \subseteq {Absent, Empty, Bad})}

Vault(tx, i) ==
    [mint |-> tx.bal[i].mint, pre |-> Amount(tx.bal[i].pre), post |-> Amount(tx.bal[i].post)]

MutantNoOrder(instr, vaults) == {p \in vaults \X vaults : p[1] # p[2]}

\* Two balances of the pool, in the order of the instruction if it names two.
VaultPairs(instr, vaults) ==
    LET named == {p \in DOMAIN instr.accounts : instr.accounts[p] \in vaults}
        first == First(named)
        second == First(named \ {first})
    IN  IF \E p, q \in named : p # q
        THEN {<<instr.accounts[first], instr.accounts[second]>>}
        ELSE {p \in vaults \X vaults : p[1] # p[2]}

MutantLastOwner(tx, instr) ==
    LET owners == {p \in DOMAIN instr.accounts :
                      /\ instr.accounts[p] <= Len(tx.keys)
                      /\ Vaults(tx, tx.keys[instr.accounts[p]]) # {}}
        pool == tx.keys[instr.accounts[Last(owners)]]
    IN  IF owners = {} THEN {}
        ELSE {[pool |-> pool, vaultA |-> Vault(tx, p[1]), vaultB |-> Vault(tx, p[2])] :
                 p \in VaultPairs(instr, Vaults(tx, pool))}

\* resolvePool: the pool is the first account of the instruction that owns a
\* balance, be it the pool or the trader.
resolvePool(tx, instr) ==
    LET owners == {p \in DOMAIN instr.accounts :
                      /\ instr.accounts[p] <= Len(tx.keys)
                      /\ Vaults(tx, tx.keys[instr.accounts[p]]) # {}}
        pool == tx.keys[instr.accounts[First(owners)]]
    IN  IF owners = {} THEN {}
        ELSE {[pool |-> pool, vaultA |-> Vault(tx, p[1]), vaultB |-> Vault(tx, p[2])] :
                 p \in VaultPairs(instr, Vaults(tx, pool))}

Event(program, pool, base, quote, fee, reserves) ==
    [program |-> program, pool |-> pool, base |-> base, quote |-> quote,
     fee |-> fee, reserves |-> reserves,
     baseIn |-> 0, baseOut |-> 0, quoteIn |-> 0, quoteOut |-> 0]

\* The two ways to fill an event in: the base came in, or the quote did.
BaseToQuote(msg, baseIn, quoteOut) == [msg EXCEPT !.baseIn = baseIn, !.quoteOut = quoteOut]

QuoteToBase(msg, quoteIn, baseOut) == [msg EXCEPT !.baseOut = baseOut, !.quoteIn = quoteIn]

\* What a lookup in poolFees returns.
Fee(pool) == IF poolFees[pool] = Absent THEN 0 ELSE poolFees[pool]

MutantConvert(ev) ==
    LET msg == Event("raydium", ev.pool, ev.mintA, ev.mintB, Fee(ev.pool), <<0, 0>>)
    IN  IF ev.isBaseInput
        THEN BaseToQuote(msg, ev.amountIn, ev.amountOut)
        ELSE QuoteToBase(msg, ev.amountOut, ev.amountIn)

convertRaydiumSwap(ev) ==
    LET msg == Event("raydium", ev.pool, ev.mintA, ev.mintB, Fee(ev.pool), <<0, 0>>)
    IN  IF ev.isBaseInput
        THEN BaseToQuote(msg, ev.amountIn, ev.amountOut)
        ELSE QuoteToBase(msg, ev.amountIn, ev.amountOut)

buildRaydiumSwap(tx, instr) ==
    LET resolved == resolvePool(tx, instr)
        Swap(r) == LET ev == ParseSwapEvent(r.pool, r.vaultA, r.vaultB)
                   IN  IF instr.data = "short" \/ ev = Error THEN Error ELSE convertRaydiumSwap(ev)
    IN  IF instr.data = "empty" \/ resolved = {} THEN {Nil} ELSE {Swap(r) : r \in resolved}

\* The instruction's third account is the pool.  With two balances of one mint
\* the last in the order of the map counts.
buildOrcaSwap(tx, instr) ==
    IF \/ Len(instr.accounts) < 3
       \/ instr.accounts[3] > Len(tx.keys)
    THEN {Nil}
    ELSE
    LET pool == tx.keys[instr.accounts[3]]
        info == orcaPools[pool]
        ofA == {i \in Vaults(tx, pool) : tx.bal[i].mint = info.mintA}
        ofB == {i \in Vaults(tx, pool) : tx.bal[i].mint = info.mintB} \ ofA
        Swap(deltaA, deltaB) ==
            LET msg == Event("orca", pool, info.mintA, info.mintB, FeeBps(info.rate), <<0, 0>>)
            IN  CASE deltaA = 0 /\ deltaB = 0 -> Nil
                  [] deltaA < 0 /\ deltaB > 0 ->
                        QuoteToBase(msg, Uint64(deltaB), Uint64(-deltaA))
                  [] OTHER ->
                        BaseToQuote(msg, IF deltaA > 0 THEN Uint64(deltaA) ELSE 0,
                                    IF deltaB < 0 THEN Uint64(-deltaB) ELSE 0)
    IN  IF info = Absent \/ ofA = {} \/ ofB = {} THEN {Nil}
        ELSE {Swap(Delta(Vault(tx, p[1])), Delta(Vault(tx, p[2]))) : p \in ofA \X ofB}

buildMeteoraSwap(tx, instr) ==
    LET ev == DecodeSwapEvent(tx, instr)
    IN  IF ev = Error THEN {Error}
        ELSE LET msg == Event("meteora", ev.pool, ev.base, ev.quote, ev.fee, ev.reserves)
             IN  {IF ev.baseDecreased THEN QuoteToBase(msg, ev.quoteAmount, ev.baseAmount)
                  ELSE BaseToQuote(msg, ev.baseAmount, ev.quoteAmount)}

Build(tx, instr) ==
    CASE instr.program = "raydium" -> buildRaydiumSwap(tx, instr)
      [] instr.program = "orca"    -> buildOrcaSwap(tx, instr)
      [] instr.program = "meteora" -> buildMeteoraSwap(tx, instr)
      [] OTHER                     -> {Nil}

\* One error discards the events of the whole transaction.  The events are
\* given by the position of their instruction, in whose order they are returned.
Outcomes(tx) ==
    LET built == [i \in DOMAIN tx.instrs |-> Build(tx, tx.instrs[i])]
        choices == {r \in [DOMAIN built -> UNION {built[i] : i \in DOMAIN built}] :
                       \A i \in DOMAIN built : r[i] \in built[i]}
    IN  {IF \E i \in DOMAIN r : r[i] = Error THEN Error
         ELSE [i \in {j \in DOMAIN r : r[j] # Nil} |-> r[i]] : r \in choices}

DecodeTransaction(tx) ==
    /\ out = Nil
    /\ \E r \in Outcomes(tx) : out' = [tx |-> tx, result |-> r]
    /\ fresh' = TRUE
    /\ UNCHANGED <<registries, latest, updates>>

\* The history turns to another transaction.
Forget ==
    /\ out # Nil
    /\ out' = Nil
    /\ fresh' = FALSE
    /\ UNCHANGED <<registries, latest, updates>>

---------------------------------------------------------------------------

Init ==
    /\ slotCache = [s \in Slots |-> Absent]
    /\ poolConfig = [a \in Accounts |-> Absent]
    /\ poolFees = [a \in Accounts |-> Absent]
    /\ configFees = [a \in Accounts |-> Absent]
    /\ orcaPools = [a \in Accounts |-> Absent]
    /\ out = Nil
    /\ fresh = FALSE
    /\ latest = [a \in Accounts |-> Absent]
    /\ updates = 0

Next ==
    \/ \E u \in Updates : HandleAccount(u)
    \/ \E s \in Slots, t \in Times \cup {Absent} : HandleBlockMeta(s, t)
    \/ Restart
    \/ \E tx \in Transactions : DecodeTransaction(tx)
    \/ Forget

Spec == Init /\ [][Next]_vars

---------------------------------------------------------------------------
(* Properties *)

\* The events that were returned with the registries as they are.
Events == IF out = Nil \/ ~fresh THEN {}
          ELSE IF out.result = Error THEN {}
          ELSE {out.result[i] : i \in DOMAIN out.result}

\* The registries hold accounts, fees of 16 bits and pool data, and an event has
\* amounts of 64 bits and a fee of 32 bits that fit its protobuf.
TypeOK ==
    /\ slotCache \in [Slots -> Times \cup {Absent}]
    /\ poolConfig \in [Accounts -> Accounts \cup {Absent}]
    /\ {poolFees, configFees} \subseteq [Accounts -> Nat \cup {Absent}]
    /\ \A a \in Accounts, f \in {poolFees, configFees} : f[a] # Absent => f[a] <= 65535
    /\ orcaPools \in [Accounts -> OrcaPool \cup {Absent}]
    /\ latest \in [Accounts -> Updates \cup {Absent}]
    /\ updates \in 0..MaxUpdates
    /\ fresh \in BOOLEAN
    /\ \A e \in Events : /\ e \in SwapEvent
                         /\ e.fee < IF e.program = "meteora" THEN FeeWord ELSE 65536

IsA(account, kind) ==
    /\ latest[account] # Absent
    /\ latest[account].owner = "raydium"
    /\ ReadAs(latest[account]) = kind

IsWhirlpool(account) ==
    /\ latest[account] # Absent
    /\ latest[account].owner = "orca"
    /\ latest[account].len >= OrcaRequiredLength

\* The basis points of a rate in millionths, if it is a rate at all.
IsBps(fee, rate) == rate <= 1000000 => fee = rate \div 100

\* A swap carries the fee of the account data received last, in whatever order
\* the pool, the configs it moved between and the configs' fee changes arrived
\* (handleRaydiumAccount updates one map from the other in both directions).
FeeIsCurrent ==
    \A e \in Events :
        /\ (/\ e.program = "raydium"
            /\ IsA(e.pool, "pool")
            /\ IsA(latest[e.pool].config, "config"))
           => IsBps(e.fee, latest[latest[e.pool].config].rate)
        /\ (e.program = "orca" /\ IsWhirlpool(e.pool)) => IsBps(e.fee, latest[e.pool].rate)

\* The decoder's state: its type, and the fees the two registries give a swap.
DecoderInv ==
    /\ TypeOK
    /\ FeeIsCurrent

\* The change of an owner's balance of a mint in a transaction.
Net(tx, owner, mint) ==
    LET i == CHOOSE i \in DOMAIN tx.bal : tx.bal[i].owner = owner /\ tx.bal[i].mint = mint
    IN  Amount(tx.bal[i].post) - Amount(tx.bal[i].pre)

\* Who owns a balance that can be read.
Holders(tx) == {a \in Accounts : Vaults(tx, a) # {}}

\* The trader pays for the transaction, and the pool is the other owner.
Trader(tx) == tx.keys[1]

Pool(tx) == CHOOSE a \in Holders(tx) : a # Trader(tx)

\* One instruction, and an owner has one balance of a mint.
Plain(tx) == Len(tx.instrs) = 1 /\ \A i, j \in DOMAIN tx.bal :
                 tx.bal[i].mint = tx.bal[j].mint /\ tx.bal[i].owner = tx.bal[j].owner => i = j

\* The trader trades with one pool, and the instruction names the accounts where
\* the decoder of its program looks for them: a Raydium instruction the pool
\* before the trader, an Orca instruction the pool in the third place, a Meteora
\* instruction the trader's two token accounts in places 3 and 4.
NamesPool(tx) ==
    LET instr == tx.instrs[1]
        Is(p, a) == instr.accounts[p] <= Len(tx.keys) /\ tx.keys[instr.accounts[p]] = a
    IN  /\ Holders(tx) \ {Trader(tx)} = {Pool(tx)}
        /\ instr.program = "raydium" =>
               \E p \in DOMAIN instr.accounts :
                   /\ Is(p, Pool(tx))
                   /\ \A n \in DOMAIN instr.accounts : n < p => ~Is(n, Trader(tx))
        /\ instr.program = "orca" => Is(3, Pool(tx))
        /\ instr.program = "meteora" =>
               \A p \in {3, 4} : tx.bal[instr.accounts[p]].owner = Trader(tx)

\* What the pool gained of a mint.  Of a Meteora swap the trader's accounts are
\* the ones the instruction names, so it is what the trader gave.
Reference(tx, e, mint) ==
    IF e.program = "meteora" THEN -Net(tx, Trader(tx), mint) ELSE Net(tx, Pool(tx), mint)

\* One mint went in, the other out, and (for the two decoders that subtract
\* signed numbers) neither changed by half the range of a uint64.
IsSwap(tx, e) ==
    LET b == Reference(tx, e, e.base)
        q == Reference(tx, e, e.quote)
    IN  /\ (b > 0 /\ q < 0) \/ (b < 0 /\ q > 0)
        /\ e.program # "meteora" => \A d \in {b, q} : -Half < d /\ d < Half

IsTrade(tx, e) == Plain(tx) /\ NamesPool(tx) /\ IsSwap(tx, e)

\* The event of a trade between a trader and one pool is the pool's, and its
\* amounts are what the pool gained and lost, each under the right mint and on
\* the right side, for every order in which the instruction names the vaults and
\* both directions of the trade (resolvePool, ParseSwapEvent, convertRaydiumSwap,
\* buildOrcaSwap, buildMeteoraSwap).
AmountsAreChanges ==
    \A e \in Events :
        IsTrade(out.tx, e) =>
            /\ e.program # "meteora" => e.pool = Pool(out.tx)
            /\ e.baseIn - e.baseOut = Reference(out.tx, e, e.base)
            /\ e.quoteIn - e.quoteOut = Reference(out.tx, e, e.quote)

\* The opposite trade: the balances run backwards, and in a Meteora instruction
\* the trader's input account is the output account.  (A Raydium instruction
\* names the input vault first; OppositeTradeSameMarket is not about it.)
Opposite(tx) ==
    [keys |-> tx.keys,
     bal |-> [i \in DOMAIN tx.bal |->
                 [tx.bal[i] EXCEPT !.pre = tx.bal[i].post, !.post = tx.bal[i].pre]],
     instrs |-> [i \in DOMAIN tx.instrs |->
                    IF tx.instrs[i].program = "meteora"
                    THEN [tx.instrs[i] EXCEPT !.accounts[3] = tx.instrs[i].accounts[4],
                                              !.accounts[4] = tx.instrs[i].accounts[3]]
                    ELSE tx.instrs[i]],
     logs |-> tx.logs]

\* The event with what came in going out.
Reversed(e) ==
    [e EXCEPT !.baseIn = e.baseOut, !.baseOut = e.baseIn,
              !.quoteIn = e.quoteOut, !.quoteOut = e.quoteIn]

\* A Meteora or Orca trade and the opposite trade belong to the same market: base
\* and quote do not depend on the direction, though a Meteora instruction names
\* the input first (ResolvePair puts the pair in order; an Orca event has the
\* order of the pool's account), and the amounts change sides.  The ingestor gives
\* a Raydium event the order of the instruction, which does turn with the trade.
OppositeTradeSameMarket ==
    \A e \in Events :
        IsTrade(out.tx, e) /\ e.program # "raydium" =>
            [i \in {1} |-> Reversed(e)] \in Outcomes(Opposite(out.tx))

\* A transaction of one instruction, which names every balance if it is Raydium's.
Named(tx) ==
    /\ Plain(tx)
    /\ \A i \in DOMAIN tx.instrs :
          LET named == {tx.instrs[i].accounts[p] : p \in DOMAIN tx.instrs[i].accounts}
          IN  tx.instrs[i].program = "raydium" => DOMAIN tx.bal \subseteq named

\* Two decodings give the same trades: of a swap only the fee may differ, and only
\* an Orca swap, whose pool one of them did not know, may be missing.
SameTrades(r, s) ==
    /\ r = Error <=> s = Error
    /\ r # Error =>
          /\ \A i \in DOMAIN r \cap DOMAIN s : [r[i] EXCEPT !.fee = 0] = [s[i] EXCEPT !.fee = 0]
          /\ \A i \in DOMAIN r \ DOMAIN s : r[i].program = "orca"
          /\ \A i \in DOMAIN s \ DOMAIN r : s[i].program = "orca"

\* A transaction that is delivered again, after account updates or to a process
\* that was started again, is decoded to the same trades (what the publisher's
\* message ids rely on): neither the order of a Go map nor what the registries
\* have learnt or lost shows in more than the fee and in Orca swaps whose pool is
\* not known.
ReplayDecodesSame ==
    out # Nil /\ Named(out.tx) => \A again \in Outcomes(out.tx) : SameTrades(out.result, again)

\* What the packages make of the two vaults of a Raydium event, called A and B in
\* either order.
OneCanonicalSwap(tx, e) ==
    LET At(mint) == CHOOSE i \in Vaults(tx, e.pool) : tx.bal[i].mint = mint
        a == Vault(tx, At(e.base))
        b == Vault(tx, At(e.quote))
        n == NormalizeToCanonicalPair(ParseSwapEvent(e.pool, a, b))
        abs(x) == IF x < 0 THEN -x ELSE x
        user(v) == [v EXCEPT !.pre = v.post, !.post = v.pre]
        orca == DecodeSwapTransaction(e.baseIn > 0, user(a), user(b))
        ofBase == ScaleAmount(abs(Net(tx, e.pool, n.mintA)), n.mintA)
        ofQuote == ScaleAmount(abs(Net(tx, e.pool, n.mintB)), n.mintB)
    IN  /\ n = NormalizeToCanonicalPair(ParseSwapEvent(e.pool, b, a))
        /\ CalculatePrice(n) = <<ofQuote, ofBase>>
        /\ CalculateVolume(n) = ofQuote[1]
        /\ orca # Error =>
              /\ orca = DecodeSwapTransaction(e.baseIn = 0, user(b), user(a))
              /\ orca = [base |-> n.mintA, quote |-> n.mintB,
                         volumeBase |-> ofBase, volumeQuote |-> ofQuote,
                         price |-> <<n.mintB, n.mintA>>]

\* About the functions the packages decoder/raydium and decoder/orca_whirlpool
\* export, which the ingestor does not call: the price and the volume of a Raydium
\* swap, once NormalizeToCanonicalPair has brought it to its canonical pair, do
\* not depend on which vault was called A; CalculatePrice is the quotient of the
\* swap's amounts, each divided by the decimals of its own mint.  The Orca
\* package agrees with it on base, quote and volumes wherever it knows the mints.
CanonicalOrderFree ==
    \A e \in Events :
        (e.program = "raydium" /\ IsTrade(out.tx, e)) => OneCanonicalSwap(out.tx, e)
=============================================================================

---------------------------- MODULE MCSwapDecoder ----------------------------
(***************************************************************************)
(* A small instance of SwapDecoder: one Raydium pool that trades and one   *)
(* that does not, two configs, a whirlpool, and transactions of six token  *)
(* accounts with the changes of balances in Changes.                       *)
(***************************************************************************)
EXTENDS SwapDecoder, TLC

MCKnownTokens == (2 :> "SOL") @@ (3 :> "USDC")

MCMetadata == MCKnownTokens @@ (4 :> "ORCA")

MCAccounts == {"trader", "pool", "pool2", "config", "config2", "whirl", "ticks", "junk",
               "va", "vb", "ua", "ub", "vr"}

Raydium(pubkey, disc, len, config, rate) ==
    [owner |-> "raydium", pubkey |-> pubkey, disc |-> disc, len |-> len, config |-> config,
     rate |-> rate, mintA |-> 0, mintB |-> 0]

Whirlpool(rate, len) ==
    [owner |-> "orca", pubkey |-> "whirl", disc |-> "none", len |-> len, config |-> "junk",
     rate |-> rate, mintA |-> 3, mintB |-> 2]

\* Pools, configs, and an account of another kind that is read as either.
MCUpdates ==
    {Raydium("pool", "pool", 1544, c, 0) : c \in {"config", "config2"}}
        \cup {Raydium("pool2", "pool", 1544, "config", 0)}
        \cup {Raydium(c, "config", 117, "junk", r) : c \in {"config", "config2"}, r \in {500, 25000}}
        \cup {Raydium("ticks", "none", n, "config", 7000000) : n \in {10240, 60}}
        \cup {Whirlpool(400, 653), Whirlpool(3000, 653), Whirlpool(0, 64)}

\* Changes of the two vaults: trades of several sizes in both directions, one
\* and both of them beyond half a word, and changes that are no trade.
Changes ==
    LET trades == {<<<<2, 7>>, <<5, 3>>>>, <<<<Absent, 2>>, <<9, 2>>>>, <<<<2, 9>>, <<2, Absent>>>>,
                   <<<<Absent, 9>>, <<7, 5>>>>, <<<<Absent, 9>>, <<9, Absent>>>>,
                   <<<<2, 9>>, <<5, 5>>>>}
        none == {<<<<2, 5>>, <<2, 5>>>>, <<<<5, 2>>, <<5, 2>>>>, <<<<2, 2>>, <<5, 5>>>>}
    IN  trades \cup none \cup {<<<<c[1][2], c[1][1]>>, <<c[2][2], c[2][1]>>>> : c \in trades}

\* Accounts 3 and 4 are the vaults of the pool, 5 and 6 the trader's accounts,
\* whose changes mirror the vaults'; 7 is a second vault of the first mint.
Balances(owner, mintA, mintB, a, b, second) ==
    LET Entry(mint, who, pre, post) == [mint |-> mint, owner |-> who, pre |-> pre, post |-> post]
    IN  (3 :> Entry(mintA, owner, a[1], a[2])) @@ (4 :> Entry(mintB, owner, b[1], b[2]))
        @@ (5 :> Entry(mintA, "trader", a[2], a[1])) @@ (6 :> Entry(mintB, "trader", b[2], b[1]))
        @@ (IF second THEN 7 :> Entry(mintA, owner, 2, 2) ELSE <<>>)

Keys(pool) == <<"trader", pool, "va", "vb", "ua", "ub", "vr">>

Instr(program, accounts, data, kind) ==
    [program |-> program, accounts |-> accounts, data |-> data, kind |-> kind]

MCLogs == <<[fee |-> Absent, marker |-> "cpmm_reserves", reserves |-> <<4, 5>>],
            [fee |-> 25, marker |-> "none", reserves |-> <<0, 0>>]>>

Transaction(pool, mints, a, b, second, instrs, keys) ==
    [keys |-> keys, bal |-> Balances(pool, mints[1], mints[2], a, b, second),
     instrs |-> instrs, logs |-> MCLogs]

\* The vaults named in either order, not named, or after the trader; the trader
\* named before the pool, after it, or not at all.
RaydiumAccounts == {<<2, 3, 4, 5, 6>>, <<2, 5, 6, 4, 3, 1>>, <<2, 3>>, <<1, 2, 5, 6, 3, 4>>}

RaydiumSwaps ==
    {Transaction("pool", <<3, 2>>, c[1], c[2], FALSE, <<Instr("raydium", acc, "swap", "none")>>, Keys("pool")) :
        c \in Changes, acc \in RaydiumAccounts}
    \cup {Transaction("pool", <<1, 4>>, c[1], c[2], FALSE,
                      <<Instr("raydium", <<2, 3, 4, 5, 6>>, "swap", "none")>>, Keys("pool")) :
             c \in Changes}

OrcaSwaps ==
    {Transaction("whirl", <<3, 2>>, c[1], c[2], second, <<Instr("orca", <<1, 1, 2>>, "swap", "none")>>,
                 Keys("whirl")) : c \in Changes, second \in BOOLEAN}

MeteoraSwaps ==
    {Transaction("pool2", m, c[1], c[2], FALSE, <<Instr("meteora", acc, "swap", "cpmm")>>, Keys("pool2")) :
        m \in {<<3, 2>>, <<1, 4>>}, c \in {d \in Changes : d[1][1] = 2},
        acc \in {<<1, 2, 5, 6, 1, 1, 1, 1>>, <<1, 2, 6, 5, 1, 1, 1, 1>>}}

\* Unreadable amounts, data and accounts, two instructions, and a pool whose
\* address is in a lookup table and so not among the keys.
OddTransactions ==
    LET sold == <<2, 9>>
        bought == <<9, 2>>
        ray == Instr("raydium", <<2, 3, 4, 5, 6>>, "swap", "none")
        met == Instr("meteora", <<1, 2, 5, 6, 1, 1, 1, 1>>, "swap", "cpmm")
        orca == Instr("orca", <<1, 1, 2>>, "swap", "none")
        Odd(a, instrs, keys) == Transaction("pool", <<3, 2>>, a, bought, FALSE, instrs, keys)
    IN  {Odd(sold, <<i>>, Keys("pool")) :
            i \in {[ray EXCEPT !.data = "empty"], [ray EXCEPT !.data = "short"],
                   [met EXCEPT !.accounts = <<1, 2, 5, 6>>],
                   [met EXCEPT !.kind = "dlmm"],
                   [orca EXCEPT !.accounts = <<1, 2>>],
                   [ray EXCEPT !.program = "other"]}}
        \cup {Odd(sold, s, Keys("pool")) : s \in {<<ray, ray>>, <<ray, [ray EXCEPT !.data = "short"]>>}}
        \cup {Odd(<<a, 9>>, <<i>>, Keys("pool")) : a \in {Bad, Empty}, i \in {ray, met}}
        \cup {Odd(sold, <<i>>, <<"trader">>) : i \in {ray, met, orca}}

MCTransactions == RaydiumSwaps \cup OrcaSwaps \cup MeteoraSwaps \cup OddTransactions
=============================================================================

-------------------------- MODULE MCClickHouseSink --------------------------
(***************************************************************************)
(* A stream for ClickHouseSink: one slot that dies, with swaps before,     *)
(* between and after its two heads, and a message that cannot be decoded   *)
(* before the last swap.                                                   *)
(***************************************************************************)
EXTENDS ClickHouseSink

CONSTANT s1

OneSlot == {s1}

Msg(kind) == [kind |-> kind, slot |-> s1]

Mixed ==
    <<Msg("swap"), Msg("live"), Msg("swap"), Msg("other"), Msg("dead"), Msg("swap"), Msg("bad"),
      Msg("swap")>>
=============================================================================

-------------------------- MODULE MCSwapProcessor --------------------------
(***************************************************************************)
(* Small instances of SwapProcessor for TLC: transactions of one slot,     *)
(* with two swaps each.                                                    *)
(***************************************************************************)
EXTENDS SwapProcessor

CONSTANT s1

OneSlot == [t \in Txs |-> s1]
FirstInBlock == [t \in Txs |-> 0]
TwoSwaps == [t \in Txs |-> 2]
=============================================================================

--------------------------- MODULE MCCandleWorker ---------------------------
(***************************************************************************)
(* Instances of CandleWorker with one pair.                                 *)
(***************************************************************************)
EXTENDS CandleWorker

CONSTANTS pair1, shard1

OnePair == {pair1}
OneShard == {shard1}
SameShard == [p \in Pairs |-> shard1]

Trade(id, ts, price) == [id |-> id, pair |-> pair1, ts |-> ts, price |-> price]

\* Three trades in one window of three seconds and in two windows of one.
ThreeTrades == {Trade(1, 1, 20), Trade(2, 2, 10), Trade(3, 2, 30)}
=============================================================================

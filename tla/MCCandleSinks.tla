--------------------------- MODULE MCCandleSinks ---------------------------
(***************************************************************************)
(* Streams for CandleSinks: candles of two buckets, without and with a     *)
(* message that cannot be decoded between them, and a candle behind as     *)
(* many of these as a fetch returns.                                       *)
(***************************************************************************)
EXTENDS CandleSinks

CONSTANTS b1, b2

TwoBuckets == {b1, b2}

SomeStreams == {<<b1, b1>>, <<b1, b2>>, <<b1, Bad, b2>>, <<Bad, Bad, b1>>}
=============================================================================

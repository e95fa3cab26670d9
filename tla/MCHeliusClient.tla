--------------------------- MODULE MCHeliusClient ---------------------------
(***************************************************************************)
(* A feed for HeliusClient whose last update is late by the whole window.  *)
(***************************************************************************)
EXTENDS HeliusClient

LateFeed ==
    << [slot |-> 5, kind |-> "meta"], [slot |-> 7, kind |-> "badtx"],
       [slot |-> 6, kind |-> "account"], [slot |-> 5, kind |-> "tx"] >>

ZeroOrKnown == {0, 5}
=============================================================================

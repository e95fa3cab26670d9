---------------------------- MODULE SlotCoverage ----------------------------
(***************************************************************************)
(* What a backfill promises, whatever its scheduling: it hands out slots   *)
(* of its span and no others, it processes only what it handed out, it     *)
(* does neither after it has returned, and it reports success only when    *)
(* every slot of the span was processed.                                   *)
(***************************************************************************)
CONSTANT AllSlots

VARIABLES
    span,      \* the slots to process; fixed
    claimed,   \* the slots handed out
    finished,  \* the slots processed successfully
    outcome    \* "running", then "nil", "canceled" or "error"

vars == <<span, claimed, finished, outcome>>

Init ==
    /\ span \subseteq AllSlots
    /\ claimed = {}
    /\ finished = {}
    /\ outcome = "running"

Claim ==
    /\ outcome = "running"
    /\ claimed \subseteq claimed'
    /\ claimed' \subseteq span
    /\ UNCHANGED <<span, finished, outcome>>

Finish ==
    /\ outcome = "running"
    /\ finished \subseteq finished'
    /\ finished' \subseteq claimed
    /\ UNCHANGED <<span, claimed, outcome>>

Succeed ==
    /\ outcome = "running"
    /\ finished = span
    /\ outcome' = "nil"
    /\ UNCHANGED <<span, claimed, finished>>

Fail ==
    /\ outcome = "running"
    /\ outcome' \in {"canceled", "error"}
    /\ UNCHANGED <<span, claimed, finished>>

Next == Claim \/ Finish \/ Succeed \/ Fail

Spec == Init /\ [][Next]_vars
=============================================================================

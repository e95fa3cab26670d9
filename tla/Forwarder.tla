----------------------------- MODULE Forwarder -----------------------------
(***************************************************************************)
(* What the bridge promises: a source message is settled only when it may  *)
(* be dropped or when the target stream holds it, and what the target      *)
(* stream holds it keeps.  A message that is stored and not settled may be *)
(* sent again, which is why only the set of stored keys is seen.           *)
(***************************************************************************)
CONSTANTS
    Messages,   \* the messages of the source stream
    Key(_),     \* what the target stream tells messages apart by
    Dropped     \* the messages that a rule says to drop

VARIABLES
    stored,     \* the keys the target stream holds
    settled     \* the messages the bridge has settled

Init ==
    /\ stored = {}
    /\ settled = {}

Store ==
    /\ \E m \in Messages \ Dropped : stored' = stored \cup {Key(m)}
    /\ UNCHANGED settled

Settle ==
    /\ \E m \in Messages :
          /\ m \in Dropped \/ Key(m) \in stored
          /\ settled' = settled \cup {m}
    /\ UNCHANGED stored

Next == Store \/ Settle

Spec == Init /\ [][Next]_<<stored, settled>>
=============================================================================

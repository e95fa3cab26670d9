--------------------------- MODULE SwapProcessor ---------------------------
(***************************************************************************)
(* The ingest core: Processor (ingestor/geyser/processor.go) turning       *)
(* geyser updates into canonical messages, the JetStream publisher         *)
(* (sinks/nats/publisher.go) it calls, and the stream with its             *)
(* duplicate window that receives them.                                    *)
(*                                                                         *)
(* A handler runs to its end before the next update is read, so each one   *)
(* is one action.  Inside it, every PublishMsg may fail, and a failed one  *)
(* may still have been stored (the acknowledgement was lost or late): the  *)
(* outcome an action picks says where the handler stopped.                 *)
(*                                                                         *)
(* The feed re-delivers: the clients replay 64 slots on every reconnect,   *)
(* so any update of the chain may come at any time and any number of       *)
(* times, after a gap as well.                                             *)
(***************************************************************************)
EXTENDS Integers, Sequences, FiniteSets

CONSTANTS
    Slots,       \* the slots of the chain
    Txs,         \* the transactions (their signatures)
    SlotOf,      \* the slot that holds a transaction
    TxIndex,     \* a transaction's index in its block
    NumSwaps,    \* how many swap instructions a transaction has
    MaxPending   \* bound: how many events a slot may accumulate

ASSUME ProcessorAssumption ==
    /\ SlotOf \in [Txs -> Slots]
    /\ TxIndex \in [Txs -> Nat]
    /\ NumSwaps \in [Txs -> Nat]
    /\ MaxPending \in Nat

VARIABLES
    fate,        \* what the chain will decide for a slot; never read by the code before it is delivered
    pending,     \* Processor.pending
    blockHeads,  \* the slots that Processor.blockHeads holds, all with status "confirmed"
    acked,       \* the messages whose publish call returned nil since the process started
    stream,      \* the messages the stream stores
    window       \* the Nats-Msg-Ids inside the duplicate window

vars == <<fate, pending, blockHeads, acked, stream, window>>
-----------------------------------------------------------------------------
\* The messages.  The body of a swap event stands for all of its fields but
\* its identity and its two flags: the instruction it was decoded from.

Terminal == {"finalized", "dead"}

SwapEvent(t, i, kind) ==
    [type |-> "swap", slot |-> SlotOf[t], sig |-> t, index |-> TxIndex[t],
     body |-> i, kind |-> kind]

BlockHead(s, status) == [type |-> "head", slot |-> s, status |-> status]

TxMeta(t) == [type |-> "meta", slot |-> SlotOf[t], sig |-> t]

\* kind abstracts (provisional, is_undo): "provisional" is (true, false),
\* "finalized" is (false, false) and "dead" is (false, true).
SwapsOf(kinds) ==
    UNION {{SwapEvent(t, i, kind) : i \in 1..NumSwaps[t], kind \in kinds} : t \in Txs}

Provisionals == SwapsOf({"provisional"})

Messages ==
    SwapsOf({"provisional"} \cup Terminal)
        \cup {BlockHead(s, st) : s \in Slots, st \in {"confirmed"} \cup Terminal}
        \cup {TxMeta(t) : t \in Txs}

\* The event ev re-labelled for its slot's fate (the clones of finalizeSlot
\* and undoSlot).
Relabel(ev, kind) == [ev EXCEPT !.kind = kind]
-----------------------------------------------------------------------------
\* The publisher and the stream.

MsgId(m) ==
    CASE m.type = "swap" -> <<m.slot, m.sig, m.index>>
      [] m.type = "head" -> <<m.slot>>
      [] m.type = "meta" -> <<m.slot, m.sig>>

MsgIds == {MsgId(m) : m \in Messages}

\* What the stream stores of the messages sent, in the order sent: one whose
\* id the duplicate window holds is acknowledged and dropped.
Accepted(sent) ==
    {sent[i] : i \in {j \in 1..Len(sent) :
        /\ MsgId(sent[j]) \notin window
        /\ \A h \in 1..(j - 1) : MsgId(sent[h]) # MsgId(sent[j])}}

MutantPublishSwallows(msgs, o) ==
    /\ acked' = acked \cup {msgs[i] : i \in 1..Len(msgs)}
    /\ LET sent == SubSeq(msgs, 1, IF o.lost THEN o.k + 1 ELSE o.k)
       IN  /\ stream' = stream \cup Accepted(sent)
           /\ window' = window \cup {MsgId(sent[i]) : i \in 1..Len(sent)}

\* The handler publishes msgs one by one: o.k calls return nil, and the next,
\* if there is one, returns an error; the stream has it all the same if lost.
Publish(msgs, o) ==
    /\ acked' = acked \cup {msgs[i] : i \in 1..o.k}
    /\ LET sent == SubSeq(msgs, 1, IF o.lost THEN o.k + 1 ELSE o.k)
       IN  /\ stream' = stream \cup Accepted(sent)
           /\ window' = window \cup {MsgId(sent[i]) : i \in 1..Len(sent)}

\* How far a handler that publishes n messages may get.
Outcomes(n) == {o \in [k : 0..n, lost : BOOLEAN] : o.lost => o.k < n}
-----------------------------------------------------------------------------
\* The handlers.

EventsOf(t) == [i \in 1..NumSwaps[t] |-> SwapEvent(t, i, "provisional")]

MutantTrackFirst(t) ==
    LET msgs == <<TxMeta(t)>> \o EventsOf(t)
    IN  \E o \in Outcomes(Len(msgs)) :
            /\ Len(pending[SlotOf[t]]) + NumSwaps[t] <= MaxPending
            /\ Publish(msgs, o)
            /\ pending' = [pending EXCEPT ![SlotOf[t]] = @ \o EventsOf(t)]
            /\ UNCHANGED <<fate, blockHeads>>

\* The transaction's metadata and then each of its events is published; an
\* event whose publish succeeded is remembered until its slot's fate is known.
HandleTransaction(t) ==
    LET msgs == <<TxMeta(t)>> \o EventsOf(t)
    IN  \E o \in Outcomes(Len(msgs)) :
            /\ Len(pending[SlotOf[t]]) + o.k - 1 <= MaxPending
            /\ Publish(msgs, o)
            /\ pending' = [pending EXCEPT ![SlotOf[t]] = @ \o SubSeq(EventsOf(t), 1, o.k - 1)]
            /\ UNCHANGED <<fate, blockHeads>>

\* The head is remembered before it is published, whatever the publish returns.
HandleBlockMeta(s) ==
    /\ \E o \in Outcomes(1) : Publish(<<BlockHead(s, "confirmed")>>, o)
    /\ blockHeads' = blockHeads \cup {s}
    /\ UNCHANGED <<fate, pending>>

\* The events of a slot that was finalized or died, re-labelled (finalizeSlot,
\* undoSlot), and its head, if one is remembered (publishBlockHeadStatus).
Settlements(s) == [i \in 1..Len(pending[s]) |-> Relabel(pending[s][i], fate[s])]

ClosingHead(s) == IF s \in blockHeads THEN <<BlockHead(s, fate[s])>> ELSE <<>>

MutantNoClone(s) ==
    LET msgs == Settlements(s) \o ClosingHead(s)
    IN  \E o \in Outcomes(Len(msgs)) :
            /\ Publish(msgs, o)
            /\ pending' = [pending EXCEPT ![s] = IF o.k >= Len(@) THEN <<>> ELSE Settlements(s)]
            /\ blockHeads' = IF o.k = Len(msgs) THEN blockHeads \ {s} ELSE blockHeads
            /\ UNCHANGED fate

MutantForgetOnError(s) ==
    LET msgs == Settlements(s) \o ClosingHead(s)
    IN  \E o \in Outcomes(Len(msgs)) :
            /\ Publish(msgs, o)
            /\ pending' = [pending EXCEPT ![s] = <<>>]
            /\ blockHeads' = IF o.k = Len(msgs) THEN blockHeads \ {s} ELSE blockHeads
            /\ UNCHANGED fate

MutantHeadFirst(s) ==
    LET msgs == ClosingHead(s) \o Settlements(s)
    IN  \E o \in Outcomes(Len(msgs)) :
            /\ Publish(msgs, o)
            /\ pending' = IF o.k = Len(msgs) THEN [pending EXCEPT ![s] = <<>>] ELSE pending
            /\ blockHeads' = IF o.k > 0 THEN blockHeads \ {s} ELSE blockHeads
            /\ UNCHANGED fate

\* handleSlot: the events first, then the head.  The events are forgotten only
\* once all of them are out, the head only once it is out too: an error on the
\* way leaves the rest in place.
HandleSlot(s) ==
    LET msgs == Settlements(s) \o ClosingHead(s)
    IN  \E o \in Outcomes(Len(msgs)) :
            /\ Publish(msgs, o)
            /\ pending' = IF o.k >= Len(pending[s]) THEN [pending EXCEPT ![s] = <<>>] ELSE pending
            /\ blockHeads' = IF o.k = Len(msgs) THEN blockHeads \ {s} ELSE blockHeads
            /\ UNCHANGED fate
-----------------------------------------------------------------------------
\* The rest of the world.

\* The duplicate window (two minutes) slides past an id.
ExpireId(id) ==
    /\ id \in window
    /\ window' = window \ {id}
    /\ UNCHANGED <<fate, pending, blockHeads, acked, stream>>

\* The ingestor dies, within a handler or between two, and is started again:
\* nothing it remembers is persisted.
Restart ==
    /\ pending' = [s \in Slots |-> <<>>]
    /\ blockHeads' = {}
    /\ acked' = {}
    /\ UNCHANGED <<fate, stream, window>>

Init ==
    /\ fate \in [Slots -> Terminal]
    /\ pending = [s \in Slots |-> <<>>]
    /\ blockHeads = {}
    /\ acked = {}
    /\ stream = {}
    /\ window = {}

Next ==
    \/ \E t \in Txs : HandleTransaction(t)
    \/ \E s \in Slots : HandleBlockMeta(s)
    \/ \E s \in Slots : HandleSlot(s)
    \/ \E id \in window : ExpireId(id)
    \/ Restart

Spec == Init /\ [][Next]_vars
-----------------------------------------------------------------------------
\* Properties.

Tracked(ev) == \E i \in 1..Len(pending[ev.slot]) : pending[ev.slot][i] = ev

Settled(ev) == Relabel(ev, fate[ev.slot]) \in acked

\* The state has its type: Processor.pending holds provisional events under
\* their own slot, everything published is one of the publisher's messages.
TypeOK ==
    /\ fate \in [Slots -> Terminal]
    /\ pending \in [Slots -> Seq(Provisionals)]
    /\ blockHeads \subseteq Slots
    /\ acked \subseteq Messages
    /\ stream \subseteq Messages
    /\ window \subseteq MsgIds

\* Processor.pending never loses an event: one announced as provisional is
\* remembered until its final or undo event was published, through failed
\* publishes in the middle of finalizeSlot or undoSlot and replayed updates.
AnnouncedIsTracked ==
    \A ev \in acked \cap Provisionals : Tracked(ev) \/ Settled(ev)

\* No final or undo event without its provisional one: finalizeSlot and
\* undoSlot settle only what handleTransaction announced, in this process's
\* life, even when the publish of the announcement failed.
NoPhantomSettlement ==
    \A ev \in Provisionals : Settled(ev) => ev \in acked

\* A slot's head is published as finalized or dead only after every event
\* announced for that slot was settled (handleSlot's order and early returns):
\* a consumer that sees the head may close the slot.
HeadClosesSlot ==
    [][\A s \in Slots :
          /\ BlockHead(s, fate[s]) \notin acked
          /\ BlockHead(s, fate[s]) \in acked'
          => \A ev \in acked \cap Provisionals : ev.slot = s => Settled(ev)']_vars

\* What the publisher reported as published is in the stream under its id:
\* publish returns nil only for a stored message or a duplicate of one.
AckedIsStored ==
    \A m \in acked : \E stored \in stream : MsgId(stored) = MsgId(m)

\* docs-archive/SPEC.md: a swap is emitted as provisional and re-emitted once
\* its slot is final; docs/docs/architecture/events.mdx: slot, sig and index
\* identify one swap of one transaction.  So when the head that closes a slot
\* was published, every event published for the slot is in the stream: each
\* swap of each transaction, and its settlement.
ClosedSlotIsComplete ==
    \A s \in Slots : BlockHead(s, fate[s]) \in acked =>
        \A ev \in acked \cap SwapsOf({"provisional"} \cup Terminal) :
            ev.slot = s => ev \in stream
=============================================================================

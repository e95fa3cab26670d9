------------------------ MODULE SwapProcessorProofs ------------------------
(***************************************************************************)
(* Processor.pending loses nothing and invents nothing, for every chain.   *)
(***************************************************************************)
EXTENDS SwapProcessor, SequenceTheorems, WellFoundedInduction, TLAPS

\* Every remembered event was announced and is filed under its own slot.
PendingAnnounced ==
    \A s \in Slots : \A i \in 1..Len(pending[s]) :
        pending[s][i] \in acked /\ pending[s][i].slot = s

\* The part of the state the two properties are about has its type.
ProcessorTypes ==
    /\ fate \in [Slots -> Terminal]
    /\ pending \in [Slots -> Seq(Provisionals)]
    /\ blockHeads \subseteq Slots
    /\ acked \subseteq Messages

\* The inductive invariant: what is remembered was announced, what was
\* announced is remembered or settled, what was settled was announced.
ProcessorInv ==
    /\ ProcessorTypes
    /\ PendingAnnounced
    /\ AnnouncedIsTracked
    /\ NoPhantomSettlement
-----------------------------------------------------------------------------
\* Two events are the same only if they come from the same instruction of the
\* same transaction and have the same flags.
LEMMA SwapEventInjective ==
    ASSUME NEW t, NEW i, NEW a, NEW u, NEW j, NEW b,
           SwapEvent(t, i, a) = SwapEvent(u, j, b)
    PROVE  t = u /\ i = j /\ a = b
  BY DEF SwapEvent

\* A provisional event is one instruction of one transaction, and settling it
\* (the clones of finalizeSlot and undoSlot) changes its flags and nothing else.
LEMMA ProvisionalShape ==
    ASSUME NEW ev \in Provisionals
    PROVE  \E t \in Txs, i \in Nat :
               /\ i \in 1..NumSwaps[t]
               /\ ev = SwapEvent(t, i, "provisional")
               /\ ev.slot = SlotOf[t]
               /\ \A kind : Relabel(ev, kind) = SwapEvent(t, i, kind)
  <1>1. PICK t \in Txs, i \in Nat : i \in 1..NumSwaps[t] /\ ev = SwapEvent(t, i, "provisional")
    BY ProcessorAssumption DEF Provisionals, SwapsOf
  <1>2. ev.slot = SlotOf[t]
    BY <1>1 DEF SwapEvent
  <1>3. \A kind : Relabel(ev, kind) = SwapEvent(t, i, kind)
    BY <1>1 DEF SwapEvent, Relabel
  <1>4. QED
    BY <1>1, <1>2, <1>3

\* Settling is injective on provisional events: NoPhantomSettlement can tell
\* which announcement a settlement belongs to.
LEMMA RelabelInjective ==
    ASSUME NEW ev \in Provisionals, NEW fv \in Provisionals, NEW kind,
           Relabel(ev, kind) = Relabel(fv, kind)
    PROVE  ev = fv
  <1>1. PICK t \in Txs, i \in Nat :
            i \in 1..NumSwaps[t] /\ ev = SwapEvent(t, i, "provisional") /\ Relabel(ev, kind) = SwapEvent(t, i, kind)
    BY ProvisionalShape
  <1>2. PICK u \in Txs, j \in Nat :
            j \in 1..NumSwaps[u] /\ fv = SwapEvent(u, j, "provisional") /\ Relabel(fv, kind) = SwapEvent(u, j, kind)
    BY ProvisionalShape
  <1>3. QED
    BY <1>1, <1>2, SwapEventInjective

\* A settlement is a message, of its event's slot, and never itself provisional.
LEMMA RelabelMessage ==
    ASSUME NEW ev \in Provisionals, NEW kind \in Terminal
    PROVE  /\ Relabel(ev, kind) \in Messages
           /\ Relabel(ev, kind) \notin Provisionals
  <1>1. PICK t \in Txs, i \in Nat : i \in 1..NumSwaps[t] /\ Relabel(ev, kind) = SwapEvent(t, i, kind)
    BY ProvisionalShape
  <1>2. Relabel(ev, kind) \in Messages
    BY <1>1 DEF Messages, SwapsOf
  <1>3. ASSUME Relabel(ev, kind) \in Provisionals PROVE FALSE
    <2>1. PICK u \in Txs, j \in Nat :
              j \in 1..NumSwaps[u] /\ Relabel(ev, kind) = SwapEvent(u, j, "provisional")
      BY <1>3, ProcessorAssumption DEF Provisionals, SwapsOf
    <2>2. kind = "provisional"
      BY <1>1, <2>1 DEF SwapEvent
    <2>3. QED
      BY <2>2 DEF Terminal
  <1>4. QED
    BY <1>2, <1>3

\* A provisional event is in the slots and messages of the model.
LEMMA ProvisionalMessage ==
    ASSUME NEW ev \in Provisionals
    PROVE  ev \in Messages /\ ev.slot \in Slots
  <1>1. PICK t \in Txs, i \in Nat :
            i \in 1..NumSwaps[t] /\ ev = SwapEvent(t, i, "provisional") /\ ev.slot = SlotOf[t]
    BY ProvisionalShape
  <1>2. QED
    BY <1>1, ProcessorAssumption DEF Messages, SwapsOf

\* Heads and transaction metadata are no swap events.
LEMMA OtherMessages ==
    /\ \A s, st : BlockHead(s, st) \notin Provisionals
    /\ \A t : TxMeta(t) \notin Provisionals
    /\ \A ev \in Provisionals : \A kind, s, st : BlockHead(s, st) # Relabel(ev, kind)
    /\ \A ev \in Provisionals : \A kind, t : TxMeta(t) # Relabel(ev, kind)
  <1>1. \A t, i, kind : SwapEvent(t, i, kind).type = "swap"
    BY DEF SwapEvent
  <1>2. \A s, st : BlockHead(s, st).type = "head"
    BY DEF BlockHead
  <1>3. \A t : TxMeta(t).type = "meta"
    BY DEF TxMeta
  <1>4. \A ev \in Provisionals : ev.type = "swap" /\ \A kind : Relabel(ev, kind).type = "swap"
    BY <1>1, ProvisionalShape
  <1>5. QED
    BY <1>2, <1>3, <1>4
-----------------------------------------------------------------------------
\* What handleTransaction publishes: the metadata, then the events in order.
LEMMA TransactionMessages ==
    ASSUME NEW t \in Txs
    PROVE  LET msgs == <<TxMeta(t)>> \o EventsOf(t) IN
           /\ EventsOf(t) \in Seq(Provisionals)
           /\ Len(EventsOf(t)) = NumSwaps[t]
           /\ Len(msgs) = NumSwaps[t] + 1
           /\ msgs[1] = TxMeta(t)
           /\ \A i \in 1..NumSwaps[t] : msgs[i + 1] = EventsOf(t)[i]
           /\ \A i \in 1..NumSwaps[t] : EventsOf(t)[i] \in Provisionals /\ EventsOf(t)[i].slot = SlotOf[t]
  <1>1. NumSwaps[t] \in Nat
    BY ProcessorAssumption
  <1>2. \A i \in 1..NumSwaps[t] :
            /\ SwapEvent(t, i, "provisional") \in Provisionals
            /\ SwapEvent(t, i, "provisional").slot = SlotOf[t]
    BY <1>1 DEF Provisionals, SwapsOf, SwapEvent
  <1>3. EventsOf(t) \in Seq(Provisionals) /\ Len(EventsOf(t)) = NumSwaps[t]
    BY <1>1, <1>2 DEF EventsOf
  <1>4. \A i \in 1..NumSwaps[t] :
            EventsOf(t)[i] \in Provisionals /\ EventsOf(t)[i].slot = SlotOf[t]
    BY <1>2 DEF EventsOf
  <1> DEFINE one == <<TxMeta(t)>>
  <1>5. one \in Seq({TxMeta(t)}) /\ Len(one) = 1 /\ one[1] = TxMeta(t)
    OBVIOUS
  <1>6. /\ Len(one \o EventsOf(t)) = NumSwaps[t] + 1
        /\ (one \o EventsOf(t))[1] = TxMeta(t)
        /\ \A i \in 1..NumSwaps[t] : (one \o EventsOf(t))[i + 1] = EventsOf(t)[i]
    <2> DEFINE ev == EventsOf(t)
    <2>1. one \in Seq(Provisionals \cup {TxMeta(t)}) /\ ev \in Seq(Provisionals \cup {TxMeta(t)})
      BY <1>3, <1>5
    <2> HIDE DEF ev, one
    <2>2. Len(ev) = NumSwaps[t] /\ Len(one) = 1 /\ one[1] = TxMeta(t)
      BY <1>3, <1>5 DEF ev, one
    <2>3. Len(one \o ev) = Len(one) + Len(ev)
      BY <2>1, ConcatProperties
    <2>4. \A i \in 1..(Len(one) + Len(ev)) :
              (one \o ev)[i] = IF i <= Len(one) THEN one[i] ELSE ev[i - Len(one)]
      BY <2>1, ConcatProperties
    <2>5. (one \o ev)[1] = TxMeta(t)
      BY <2>2, <2>4, <1>1
    <2>6. ASSUME NEW i \in 1..NumSwaps[t] PROVE (one \o ev)[i + 1] = ev[i]
      <3>1. i + 1 \in 1..(Len(one) + Len(ev)) /\ ~(i + 1 <= Len(one)) /\ (i + 1) - Len(one) = i
        BY <2>2, <1>1
      <3>2. QED
        BY <3>1, <2>4
    <2>7. QED
      BY <2>2, <2>3, <2>5, <2>6, <1>1 DEF ev, one
  <1>7. QED
    BY <1>3, <1>4, <1>6

\* handleTransaction: what it announces it remembers, whichever publish fails.
LEMMA TransactionStep ==
    ASSUME ProcessorInv, NEW t \in Txs, HandleTransaction(t)
    PROVE  ProcessorInv'
  <1> DEFINE msgs == <<TxMeta(t)>> \o EventsOf(t)
  <1> DEFINE evs == EventsOf(t)
  <1> DEFINE sl == SlotOf[t]
  <1>1. PICK o \in Outcomes(Len(msgs)) :
            /\ acked' = acked \cup {msgs[i] : i \in 1..o.k}
            /\ pending' = [pending EXCEPT ![sl] = @ \o SubSeq(evs, 1, o.k - 1)]
            /\ UNCHANGED <<fate, blockHeads>>
    BY DEF HandleTransaction, Publish
  <1>2. /\ evs \in Seq(Provisionals) /\ Len(evs) = NumSwaps[t] /\ NumSwaps[t] \in Nat
        /\ Len(msgs) = NumSwaps[t] + 1 /\ msgs[1] = TxMeta(t)
        /\ \A i \in 1..NumSwaps[t] : msgs[i + 1] = evs[i]
        /\ \A i \in 1..NumSwaps[t] : evs[i] \in Provisionals /\ evs[i].slot = sl
        /\ sl \in Slots
    BY TransactionMessages, ProcessorAssumption
  <1> HIDE DEF msgs, evs
  <1>3. o.k \in 0..(NumSwaps[t] + 1) /\ NumSwaps[t] \in Nat
    BY <1>1, <1>2 DEF Outcomes
  <1> DEFINE n == IF o.k = 0 THEN 0 ELSE o.k - 1
  <1> DEFINE added == SubSeq(evs, 1, o.k - 1)
  <1>4. n \in 0..NumSwaps[t] /\ n \in Nat
    BY <1>2, <1>3
  <1>5. /\ added \in Seq(Provisionals) /\ Len(added) = n
        /\ \A i \in 1..n : added[i] = evs[i]
    <2>1. \A i \in 1..(o.k - 1) : evs[i] \in Provisionals
      BY <1>2, <1>3
    <2>2. /\ added \in Seq(Provisionals)
          /\ Len(added) = IF 1 <= o.k - 1 THEN (o.k - 1) - 1 + 1 ELSE 0
          /\ \A i \in 1..((o.k - 1) - 1 + 1) : added[i] = evs[1 + i - 1]
      BY <2>1, <1>3, SubSeqProperties, o.k - 1 \in Int
    <2> HIDE DEF added
    <2>3. Len(added) = n
      BY <2>2, <1>3
    <2>4. \A i \in 1..n : added[i] = evs[i]
      <3> SUFFICES ASSUME NEW i \in 1..n PROVE added[i] = evs[i]
        OBVIOUS
      <3>1. i \in 1..((o.k - 1) - 1 + 1) /\ 1 + i - 1 = i
        BY <1>3
      <3>2. QED
        BY <2>2, <3>1
    <2>5. QED
      BY <2>2, <2>3, <2>4
  <1> HIDE DEF added
  <1>6. pending \in [Slots -> Seq(Provisionals)]
    BY DEF ProcessorInv, ProcessorTypes
  <1> DEFINE old == pending[sl]
  <1>7. /\ old \o added \in Seq(Provisionals)
        /\ Len(old) \in Nat /\ Len(old \o added) = Len(old) + n
        /\ \A i \in 1..(Len(old) + n) : (old \o added)[i] = IF i <= Len(old) THEN old[i] ELSE added[i - Len(old)]
    <2>1. old \in Seq(Provisionals)
      BY <1>2, <1>6
    <2> HIDE DEF old
    <2>2. QED
      BY <2>1, <1>5, ConcatProperties
  <1>8. /\ pending' \in [Slots -> Seq(Provisionals)]
        /\ pending'[sl] = old \o added
        /\ \A s \in Slots : s # sl => pending'[s] = pending[s]
    BY <1>1, <1>2, <1>6, <1>7 DEF added
  <1>9. \A m \in acked' : m \in acked \/ m = TxMeta(t) \/ \E i \in 1..n : m = evs[i]
    <2> SUFFICES ASSUME NEW i \in 1..o.k
                 PROVE  msgs[i] = TxMeta(t) \/ \E j \in 1..n : msgs[i] = evs[j]
      BY <1>1
    <2>1. CASE i = 1
      BY <2>1, <1>2
    <2>2. CASE i # 1
      <3>1. i - 1 \in 1..n /\ i - 1 \in 1..NumSwaps[t] /\ (i - 1) + 1 = i
        BY <2>2, <1>3
      <3>2. msgs[i] = evs[i - 1]
        BY <3>1, <1>2
      <3>3. QED
        BY <3>1, <3>2
    <2>3. QED
      BY <2>1, <2>2
  <1>10. acked \subseteq acked' /\ \A i \in 1..n : evs[i] \in acked'
    <2> SUFFICES ASSUME NEW i \in 1..n PROVE evs[i] \in acked'
      BY <1>1
    <2>1. i + 1 \in 1..o.k /\ i \in 1..NumSwaps[t]
      BY <1>3
    <2>2. QED
      BY <2>1, <1>1, <1>2
  <1>11. \A s \in Slots : \A i \in 1..Len(pending'[s]) :
            \/ i \in 1..Len(pending[s]) /\ pending'[s][i] = pending[s][i]
            \/ s = sl /\ \E j \in 1..n : pending'[s][i] = evs[j]
    <2> SUFFICES ASSUME NEW i \in 1..Len(pending'[sl])
                 PROVE  \/ i \in 1..Len(old) /\ pending'[sl][i] = old[i]
                        \/ \E j \in 1..n : pending'[sl][i] = evs[j]
      <3> HIDE DEF n
      <3>1. \A s \in Slots : s # sl => pending'[s] = pending[s]
        BY <1>8
      <3>2. QED
        BY <3>1
    <2> HIDE DEF old
    <2>1. CASE i <= Len(old)
      BY <2>1, <1>7, <1>8, <1>4
    <2>2. CASE ~(i <= Len(old))
      <3>1. i - Len(old) \in 1..n /\ i \in 1..(Len(old) + n)
        BY <2>2, <1>7, <1>8, <1>4
      <3>2. pending'[sl][i] = added[i - Len(old)]
        BY <3>1, <2>2, <1>7, <1>8
      <3>3. QED
        BY <3>1, <3>2, <1>5
    <2>3. QED
      BY <2>1, <2>2
  <1>12. /\ \A s \in Slots : \A i \in 1..Len(pending[s]) :
               \E j \in 1..Len(pending'[s]) : pending'[s][j] = pending[s][i]
         /\ \A i \in 1..n : \E j \in 1..Len(pending'[sl]) : pending'[sl][j] = evs[i]
    <2>1. ASSUME NEW i \in 1..Len(old)
          PROVE  \E j \in 1..Len(pending'[sl]) : pending'[sl][j] = old[i]
      <3> HIDE DEF old
      <3>1. i \in 1..(Len(old) + n) /\ i <= Len(old)
        BY <1>7, <1>4
      <3>2. i \in 1..Len(pending'[sl]) /\ pending'[sl][i] = old[i]
        BY <3>1, <1>7, <1>8
      <3>3. QED
        BY <3>2
    <2>2. ASSUME NEW i \in 1..n
          PROVE  \E j \in 1..Len(pending'[sl]) : pending'[sl][j] = evs[i]
      <3> HIDE DEF old
      <3>1. /\ Len(old) + i \in 1..(Len(old) + n) /\ ~(Len(old) + i <= Len(old))
            /\ (Len(old) + i) - Len(old) = i
        BY <1>7, <1>4
      <3>2. Len(old) + i \in 1..Len(pending'[sl]) /\ pending'[sl][Len(old) + i] = added[i]
        BY <3>1, <1>7, <1>8
      <3>3. QED
        BY <3>2, <1>5
    <2> HIDE DEF n
    <2>3. \A s \in Slots : s # sl => pending'[s] = pending[s]
      BY <1>8
    <2>4. QED
      BY <2>1, <2>2, <2>3
  <1> HIDE DEF n, old
  <1>13. ProcessorTypes'
    <2>1. acked' \subseteq Messages
      <3>1. TxMeta(t) \in Messages
        BY DEF Messages
      <3>2. \A i \in 1..n : evs[i] \in Messages
        BY <1>2, <1>4, ProvisionalMessage
      <3>3. QED
        BY <3>1, <3>2, <1>9 DEF ProcessorInv, ProcessorTypes
    <2>2. QED
      BY <2>1, <1>1, <1>8 DEF ProcessorInv, ProcessorTypes
  <1>14. PendingAnnounced'
    <2>1. \A j \in 1..n : evs[j].slot = sl
      BY <1>2, <1>4
    <2>2. QED
      BY <2>1, <1>10, <1>11 DEF ProcessorInv, PendingAnnounced
  <1>15. AnnouncedIsTracked'
    <2> SUFFICES ASSUME NEW ev \in acked' \cap Provisionals
                 PROVE  Tracked(ev)' \/ Settled(ev)'
      BY DEF AnnouncedIsTracked
    <2>1. ev.slot \in Slots
      BY ProvisionalMessage
    <2>2. CASE ev \in acked
      <3>1. Tracked(ev) \/ Settled(ev)
        BY <2>2 DEF ProcessorInv, AnnouncedIsTracked
      <3>2. Settled(ev) => Settled(ev)'
        BY <1>1, <1>10 DEF Settled
      <3>3. Tracked(ev) => Tracked(ev)'
        BY <2>1, <1>12 DEF Tracked
      <3>4. QED
        BY <3>1, <3>2, <3>3
    <2>3. CASE ev \notin acked
      <3>1. PICK i \in 1..n : ev = evs[i]
        BY <2>3, <1>9, OtherMessages
      <3>2. ev.slot = sl
        BY <3>1, <1>2, <1>4
      <3>3. QED
        BY <3>1, <3>2, <1>12 DEF Tracked
    <2>4. QED
      BY <2>2, <2>3
  <1>16. NoPhantomSettlement'
    <2> SUFFICES ASSUME NEW ev \in Provisionals, Settled(ev)'
                 PROVE  ev \in acked'
      BY DEF NoPhantomSettlement
    <2>1. ev.slot \in Slots /\ fate[ev.slot] \in Terminal /\ fate' = fate
      BY ProvisionalMessage, <1>1 DEF ProcessorInv, ProcessorTypes
    <2>2. Relabel(ev, fate[ev.slot]) \in acked'
      BY <2>1 DEF Settled
    <2>3. Relabel(ev, fate[ev.slot]) \in acked
      <3>1. Relabel(ev, fate[ev.slot]) # TxMeta(t)
        BY OtherMessages
      <3>2. Relabel(ev, fate[ev.slot]) \notin Provisionals
        BY <2>1, RelabelMessage
      <3>3. \A i \in 1..n : evs[i] \in Provisionals
        BY <1>2, <1>4
      <3>4. QED
        BY <2>2, <3>1, <3>2, <3>3, <1>9
    <2>4. QED
      BY <2>3, <1>10 DEF ProcessorInv, NoPhantomSettlement, Settled
  <1>17. QED
    BY <1>13, <1>14, <1>15, <1>16 DEF ProcessorInv

\* What handleSlot publishes and forgets: settlements of what it remembers, and
\* the head and the oblivion only once all of them are out.
LEMMA SlotEffects ==
    ASSUME ProcessorInv, NEW s \in Slots, HandleSlot(s)
    PROVE  \E done \in BOOLEAN :
              /\ fate' = fate /\ blockHeads' \subseteq Slots
              /\ acked \subseteq acked'
              /\ \A m \in acked' :
                    \/ m \in acked
                    \/ done /\ m = BlockHead(s, fate[s])
                    \/ \E i \in 1..Len(pending[s]) : m = Relabel(pending[s][i], fate[s])
              /\ done => \A i \in 1..Len(pending[s]) : Relabel(pending[s][i], fate[s]) \in acked'
              /\ pending' \in [Slots -> Seq(Provisionals)]
              /\ \A u \in Slots : \/ pending'[u] = pending[u]
                                  \/ u = s /\ done /\ pending'[u] = <<>>
  <1> DEFINE msgs == Settlements(s) \o ClosingHead(s)
  <1> DEFINE len == Len(pending[s])
  <1>1. PICK o \in Outcomes(Len(msgs)) :
            /\ acked' = acked \cup {msgs[i] : i \in 1..o.k}
            /\ pending' = IF o.k >= len THEN [pending EXCEPT ![s] = <<>>] ELSE pending
            /\ blockHeads' = IF o.k = Len(msgs) THEN blockHeads \ {s} ELSE blockHeads
            /\ fate' = fate
    BY DEF HandleSlot, Publish
  <1>2. /\ pending \in [Slots -> Seq(Provisionals)] /\ fate[s] \in Terminal
        /\ len \in Nat /\ \A i \in 1..len : pending[s][i] \in Provisionals
    BY DEF ProcessorInv, ProcessorTypes
  <1>3. /\ Len(msgs) \in {len, len + 1}
        /\ \A i \in 1..len : msgs[i] = Relabel(pending[s][i], fate[s])
        /\ \A i \in 1..Len(msgs) : i \notin 1..len => msgs[i] = BlockHead(s, fate[s])
    <2> DEFINE st == Settlements(s)
    <2> DEFINE hd == ClosingHead(s)
    <2>1. /\ st \in Seq(Messages) /\ Len(st) = len
          /\ \A i \in 1..len : st[i] = Relabel(pending[s][i], fate[s])
      <3>1. \A i \in 1..len : Relabel(pending[s][i], fate[s]) \in Messages
        BY <1>2, RelabelMessage
      <3>2. QED
        BY <3>1, <1>2 DEF Settlements
    <2>2. /\ hd \in Seq(Messages) /\ Len(hd) \in {0, 1}
          /\ \A i \in 1..Len(hd) : hd[i] = BlockHead(s, fate[s])
      <3>1. BlockHead(s, fate[s]) \in Messages
        BY <1>2 DEF Messages
      <3>2. QED
        BY <3>1 DEF ClosingHead
    <2> HIDE DEF st, hd, len
    <2>3. /\ Len(st \o hd) = len + Len(hd)
          /\ \A i \in 1..(len + Len(hd)) : (st \o hd)[i] = IF i <= len THEN st[i] ELSE hd[i - len]
      BY <2>1, <2>2, ConcatProperties
    <2>4. Len(st \o hd) \in {len, len + 1}
      BY <2>2, <2>3, <1>2
    <2>5. ASSUME NEW i \in 1..len PROVE (st \o hd)[i] = Relabel(pending[s][i], fate[s])
      <3>1. i \in 1..(len + Len(hd)) /\ i <= len
        BY <1>2, <2>2
      <3>2. QED
        BY <3>1, <2>1, <2>3
    <2>6. ASSUME NEW i \in 1..Len(st \o hd), i \notin 1..len
          PROVE  (st \o hd)[i] = BlockHead(s, fate[s])
      <3>1. i \in 1..(len + Len(hd)) /\ ~(i <= len) /\ i - len \in 1..Len(hd)
        BY <1>2, <2>2, <2>3, <2>6
      <3>2. QED
        BY <3>1, <2>2, <2>3
    <2>7. QED
      BY <2>4, <2>5, <2>6 DEF st, hd
  <1> HIDE DEF msgs
  <1>4. o.k \in 0..Len(msgs)
    BY <1>1 DEF Outcomes
  <1>5. \A m \in acked' :
            \/ m \in acked
            \/ o.k >= len /\ m = BlockHead(s, fate[s])
            \/ \E i \in 1..len : m = Relabel(pending[s][i], fate[s])
    <2> SUFFICES ASSUME NEW i \in 1..o.k
                 PROVE  \/ o.k >= len /\ msgs[i] = BlockHead(s, fate[s])
                        \/ \E j \in 1..len : msgs[i] = Relabel(pending[s][j], fate[s])
      BY <1>1
    <2>1. i \in 1..Len(msgs) /\ (i \notin 1..len => o.k >= len)
      BY <1>2, <1>3, <1>4
    <2>2. QED
      BY <2>1, <1>3
  <1>6. /\ acked \subseteq acked'
        /\ o.k >= len => \A i \in 1..len : Relabel(pending[s][i], fate[s]) \in acked'
    <2>1. ASSUME o.k >= len, NEW i \in 1..len PROVE Relabel(pending[s][i], fate[s]) \in acked'
      <3>1. i \in 1..o.k
        BY <2>1, <1>2, <1>3, <1>4
      <3>2. QED
        BY <3>1, <1>1, <1>3
    <2>2. QED
      BY <2>1, <1>1
  <1>7. /\ pending' \in [Slots -> Seq(Provisionals)]
        /\ \A u \in Slots : \/ pending'[u] = pending[u]
                            \/ u = s /\ o.k >= len /\ pending'[u] = <<>>
    BY <1>1, <1>2
  <1>8. blockHeads' \subseteq Slots
    BY <1>1 DEF ProcessorInv, ProcessorTypes
  <1> DEFINE done == o.k >= len
  <1>9. done \in BOOLEAN
    BY <1>2, <1>3, <1>4
  <1>10. QED
    BY <1>1, <1>5, <1>6, <1>7, <1>8, <1>9

\* handleSlot: what it forgets it has settled, and it settles only what it
\* remembers.
LEMMA SlotStep ==
    ASSUME ProcessorInv, NEW s \in Slots, HandleSlot(s)
    PROVE  ProcessorInv'
  <1> DEFINE len == Len(pending[s])
  <1>1. PICK done \in BOOLEAN :
            /\ fate' = fate /\ blockHeads' \subseteq Slots
            /\ acked \subseteq acked'
            /\ \A m \in acked' :
                  \/ m \in acked
                  \/ done /\ m = BlockHead(s, fate[s])
                  \/ \E i \in 1..len : m = Relabel(pending[s][i], fate[s])
            /\ done => \A i \in 1..len : Relabel(pending[s][i], fate[s]) \in acked'
            /\ pending' \in [Slots -> Seq(Provisionals)]
            /\ \A u \in Slots : \/ pending'[u] = pending[u]
                                \/ u = s /\ done /\ pending'[u] = <<>>
    BY SlotEffects
  <1>2. /\ pending \in [Slots -> Seq(Provisionals)] /\ fate[s] \in Terminal
        /\ len \in Nat /\ \A i \in 1..len : pending[s][i] \in Provisionals
    BY DEF ProcessorInv, ProcessorTypes
  <1> HIDE DEF len
  <1>3. ProcessorTypes'
    <2>1. BlockHead(s, fate[s]) \in Messages
      BY <1>2 DEF Messages
    <2>2. \A i \in 1..len : Relabel(pending[s][i], fate[s]) \in Messages
      BY <1>2, RelabelMessage
    <2>3. QED
      BY <2>1, <2>2, <1>1 DEF ProcessorInv, ProcessorTypes
  <1>4. PendingAnnounced'
    <2> SUFFICES ASSUME NEW u \in Slots, NEW i \in 1..Len(pending'[u])
                 PROVE  pending'[u][i] \in acked' /\ pending'[u][i].slot = u
      BY DEF PendingAnnounced
    <2>1. pending'[u] = pending[u]
      <3>1. Len(<<>>) = 0 /\ 1..0 = {}
        OBVIOUS
      <3>2. QED
        BY <3>1, <1>1
    <2>2. QED
      BY <2>1, <1>1 DEF ProcessorInv, PendingAnnounced
  <1>5. AnnouncedIsTracked'
    <2> SUFFICES ASSUME NEW ev \in acked' \cap Provisionals
                 PROVE  Tracked(ev)' \/ Settled(ev)'
      BY DEF AnnouncedIsTracked
    <2>1. ev \in acked /\ ev.slot \in Slots
      <3>1. ev # BlockHead(s, fate[s])
        BY OtherMessages
      <3>2. \A i \in 1..len : ev # Relabel(pending[s][i], fate[s])
        BY <1>2, RelabelMessage
      <3>3. QED
        BY <3>1, <3>2, <1>1, ProvisionalMessage
    <2>2. CASE Settled(ev)
      BY <2>2, <1>1 DEF Settled
    <2>3. CASE Tracked(ev)
      <3>1. CASE pending'[ev.slot] = pending[ev.slot]
        BY <2>3, <3>1 DEF Tracked
      <3>2. CASE ev.slot = s /\ done
        <4>1. PICK i \in 1..len : pending[s][i] = ev
          BY <2>3, <3>2 DEF Tracked, len
        <4>2. Relabel(ev, fate[s]) \in acked'
          BY <4>1, <3>2, <1>1
        <4>3. QED
          BY <4>2, <3>2, <1>1 DEF Settled
      <3>3. QED
        BY <2>1, <3>1, <3>2, <1>1
    <2>4. QED
      BY <2>1, <2>2, <2>3 DEF ProcessorInv, AnnouncedIsTracked
  <1>6. NoPhantomSettlement'
    <2> SUFFICES ASSUME NEW ev \in Provisionals, Settled(ev)'
                 PROVE  ev \in acked'
      BY DEF NoPhantomSettlement
    <2> DEFINE m == Relabel(ev, fate[ev.slot])
    <2>1. m \in acked' /\ ev.slot \in Slots /\ fate[ev.slot] \in Terminal
      BY <1>1, ProvisionalMessage DEF Settled, ProcessorInv, ProcessorTypes
    <2>2. CASE m \in acked
      BY <2>2, <1>1 DEF ProcessorInv, NoPhantomSettlement, Settled
    <2>3. CASE m \notin acked
      <3>1. m # BlockHead(s, fate[s])
        BY OtherMessages
      <3>2. PICK i \in 1..len : m = Relabel(pending[s][i], fate[s])
        BY <2>1, <2>3, <3>1, <1>1
      <3>3. pending[s][i] \in acked /\ pending[s][i] \in Provisionals /\ pending[s][i].slot = s
        BY <1>2 DEF ProcessorInv, PendingAnnounced, len
      <3>4. ev.slot = s
        <4>1. PICK t \in Txs, j \in Nat : ev.slot = SlotOf[t] /\ m = SwapEvent(t, j, fate[ev.slot])
          BY ProvisionalShape
        <4>2. PICK u \in Txs, h \in Nat :
                  s = SlotOf[u] /\ m = SwapEvent(u, h, fate[s])
          BY <3>2, <3>3, ProvisionalShape
        <4>3. SwapEvent(t, j, fate[ev.slot]) = SwapEvent(u, h, fate[s])
          BY <4>1, <4>2
        <4>4. t = u
          BY <4>3, SwapEventInjective
        <4>5. QED
          BY <4>1, <4>2, <4>4
      <3>5. ev = pending[s][i]
        BY <3>2, <3>3, <3>4, RelabelInjective
      <3>6. QED
        BY <3>3, <3>5, <1>1
    <2>4. QED
      BY <2>2, <2>3
  <1>7. QED
    BY <1>3, <1>4, <1>5, <1>6 DEF ProcessorInv

\* handleBlockMeta publishes no swap and touches no remembered one.
LEMMA BlockMetaStep ==
    ASSUME ProcessorInv, NEW s \in Slots, HandleBlockMeta(s)
    PROVE  ProcessorInv'
  <1>1. /\ acked \subseteq acked' /\ acked' \subseteq acked \cup {BlockHead(s, "confirmed")}
        /\ blockHeads' \subseteq Slots
        /\ pending' = pending /\ fate' = fate
    <2>1. PICK o \in Outcomes(1) :
              acked' = acked \cup {<<BlockHead(s, "confirmed")>>[i] : i \in 1..o.k}
      BY DEF HandleBlockMeta, Publish
    <2>2. o.k \in 0..1
      BY DEF Outcomes
    <2>3. \A i \in 1..o.k : <<BlockHead(s, "confirmed")>>[i] = BlockHead(s, "confirmed")
      BY <2>2
    <2>4. QED
      BY <2>1, <2>3 DEF HandleBlockMeta, ProcessorInv, ProcessorTypes
  <1>2. BlockHead(s, "confirmed") \in Messages
    BY DEF Messages
  <1>3. ProcessorTypes'
    BY <1>1, <1>2 DEF ProcessorInv, ProcessorTypes
  <1>4. PendingAnnounced'
    BY <1>1 DEF ProcessorInv, PendingAnnounced
  <1>5. \A ev \in Provisionals :
            /\ ev \in acked' <=> ev \in acked
            /\ Settled(ev)' <=> Settled(ev)
            /\ Tracked(ev)' <=> Tracked(ev)
    <2> SUFFICES ASSUME NEW ev \in Provisionals
                 PROVE  /\ ev \in acked' <=> ev \in acked
                        /\ Settled(ev)' <=> Settled(ev)
                        /\ Tracked(ev)' <=> Tracked(ev)
      OBVIOUS
    <2>1. ev # BlockHead(s, "confirmed")
      BY OtherMessages
    <2>2. Relabel(ev, fate[ev.slot]) # BlockHead(s, "confirmed")
      BY OtherMessages
    <2>3. QED
      BY <2>1, <2>2, <1>1 DEF Settled, Tracked
  <1>6. QED
    BY <1>3, <1>4, <1>5 DEF ProcessorInv, AnnouncedIsTracked, NoPhantomSettlement

\* A restart forgets everything, and the history starts afresh with it.
LEMMA RestartStep ==
    ASSUME ProcessorInv, Restart
    PROVE  ProcessorInv'
  <1>1. /\ fate' \in [Slots -> Terminal] /\ pending' = [s \in Slots |-> <<>>]
        /\ blockHeads' = {} /\ acked' = {}
    BY DEF Restart, ProcessorInv, ProcessorTypes
  <1>2. ProcessorTypes'
    BY <1>1 DEF ProcessorTypes
  <1>3. PendingAnnounced'
    BY <1>1 DEF PendingAnnounced
  <1>4. AnnouncedIsTracked'
    BY <1>1 DEF AnnouncedIsTracked
  <1>5. NoPhantomSettlement'
    BY <1>1 DEF NoPhantomSettlement, Settled
  <1>6. QED
    BY <1>2, <1>3, <1>4, <1>5 DEF ProcessorInv

\* A step that leaves the processor and its history alone.
LEMMA OtherStep ==
    ASSUME ProcessorInv, UNCHANGED <<fate, pending, blockHeads, acked>>
    PROVE  ProcessorInv'
  BY DEF ProcessorInv, ProcessorTypes, PendingAnnounced, AnnouncedIsTracked,
         NoPhantomSettlement, Tracked, Settled

\* The invariant holds of every behaviour: every event announced as provisional
\* is remembered until it is settled, and only announced events are settled,
\* for every chain, every failure of a publish and every replay.
THEOREM ProcessorCorrect == Spec => []ProcessorInv
  <1>1. Init => ProcessorInv
    <2> SUFFICES ASSUME Init PROVE ProcessorInv
      OBVIOUS
    <2>1. ProcessorTypes /\ PendingAnnounced
      BY DEF Init, ProcessorTypes, PendingAnnounced
    <2>2. AnnouncedIsTracked /\ NoPhantomSettlement
      BY DEF Init, AnnouncedIsTracked, NoPhantomSettlement, Settled
    <2>3. QED
      BY <2>1, <2>2 DEF ProcessorInv
  <1>2. ProcessorInv /\ [Next]_vars => ProcessorInv'
    <2> SUFFICES ASSUME ProcessorInv, [Next]_vars PROVE ProcessorInv'
      OBVIOUS
    <2>1. ASSUME NEW t \in Txs, HandleTransaction(t) PROVE ProcessorInv'
      BY <2>1, TransactionStep
    <2>2. ASSUME NEW s \in Slots, HandleBlockMeta(s) PROVE ProcessorInv'
      BY <2>2, BlockMetaStep
    <2>3. ASSUME NEW s \in Slots, HandleSlot(s) PROVE ProcessorInv'
      BY <2>3, SlotStep
    <2>4. ASSUME NEW id \in window, ExpireId(id) PROVE ProcessorInv'
      BY <2>4, OtherStep DEF ExpireId
    <2>5. CASE Restart
      BY <2>5, RestartStep
    <2>6. CASE UNCHANGED vars
      BY <2>6, OtherStep DEF vars
    <2>7. QED
      BY <2>1, <2>2, <2>3, <2>4, <2>5, <2>6 DEF Next
  <1>3. QED
    BY <1>1, <1>2, PTL DEF Spec

\* Processor.pending never loses an announced event.
THEOREM TrackedTheorem == Spec => []AnnouncedIsTracked
  <1>1. ProcessorInv => AnnouncedIsTracked
    BY DEF ProcessorInv
  <1>2. QED
    BY <1>1, ProcessorCorrect, PTL

\* finalizeSlot and undoSlot never settle an event that was not announced.
THEOREM NoPhantomTheorem == Spec => []NoPhantomSettlement
  <1>1. ProcessorInv => NoPhantomSettlement
    BY DEF ProcessorInv
  <1>2. QED
    BY <1>1, ProcessorCorrect, PTL
-----------------------------------------------------------------------------
\* A handler publishes a sequence of messages, as far as it gets; nothing else
\* adds to the stream, the window or what was acknowledged.
LEMMA PublishOrNothing ==
    ASSUME ProcessorInv, [Next]_vars
    PROVE  \/ \E msgs \in Seq(Messages) : \E o \in Outcomes(Len(msgs)) : Publish(msgs, o)
           \/ stream' = stream /\ window' \subseteq window /\ acked' \subseteq acked
  <1> DEFINE Goal == \/ \E msgs \in Seq(Messages) : \E o \in Outcomes(Len(msgs)) : Publish(msgs, o)
                     \/ stream' = stream /\ window' \subseteq window /\ acked' \subseteq acked
  <1>1. ASSUME NEW t \in Txs, HandleTransaction(t) PROVE Goal
    <2>1. TxMeta(t) \in Messages /\ \A ev \in Provisionals : ev \in Messages
      BY ProvisionalMessage DEF Messages
    <2>2. EventsOf(t) \in Seq(Messages)
      <3>1. \A i \in 1..NumSwaps[t] : SwapEvent(t, i, "provisional") \in Messages
        BY DEF Messages, SwapsOf
      <3>2. NumSwaps[t] \in Nat
        BY ProcessorAssumption
      <3>3. QED
        BY <3>1, <3>2 DEF EventsOf
    <2>3. <<TxMeta(t)>> \in Seq(Messages)
      BY <2>1
    <2>4. <<TxMeta(t)>> \o EventsOf(t) \in Seq(Messages)
      BY <2>2, <2>3, ConcatProperties
    <2>5. QED
      BY <1>1, <2>4 DEF HandleTransaction
  <1>2. ASSUME NEW s \in Slots, HandleBlockMeta(s) PROVE Goal
    <2>1. <<BlockHead(s, "confirmed")>> \in Seq(Messages) /\ Len(<<BlockHead(s, "confirmed")>>) = 1
      BY DEF Messages
    <2>2. QED
      BY <1>2, <2>1 DEF HandleBlockMeta
  <1>3. ASSUME NEW s \in Slots, HandleSlot(s) PROVE Goal
    <2>1. pending[s] \in Seq(Provisionals) /\ fate[s] \in Terminal
      BY DEF ProcessorInv, ProcessorTypes
    <2>2. \A i \in 1..Len(pending[s]) : Relabel(pending[s][i], fate[s]) \in Messages
      BY <2>1, RelabelMessage
    <2>3. Settlements(s) \in Seq(Messages)
      BY <2>1, <2>2 DEF Settlements
    <2>4. BlockHead(s, fate[s]) \in Messages
      BY <2>1 DEF Messages
    <2>5. ClosingHead(s) \in Seq(Messages)
      BY <2>4 DEF ClosingHead
    <2>6. Settlements(s) \o ClosingHead(s) \in Seq(Messages)
      BY <2>3, <2>5, ConcatProperties
    <2>7. QED
      BY <1>3, <2>6 DEF HandleSlot
  <1>4. ASSUME NEW id \in window, ExpireId(id) PROVE Goal
    BY <1>4 DEF ExpireId
  <1>5. CASE Restart
    BY <1>5 DEF Restart
  <1>6. CASE UNCHANGED vars
    BY <1>6 DEF vars
  <1>7. QED
    BY <1>1, <1>2, <1>3, <1>4, <1>5, <1>6 DEF Next

\* What a handler sends is a prefix of what it publishes, with everything that
\* was acknowledged in it.
LEMMA SentPrefix ==
    ASSUME NEW msgs \in Seq(Messages), NEW o \in Outcomes(Len(msgs)), Publish(msgs, o)
    PROVE  \E sent \in Seq(Messages) :
              /\ stream' = stream \cup Accepted(sent)
              /\ window' = window \cup {MsgId(sent[i]) : i \in 1..Len(sent)}
              /\ \A m \in acked' : m \in acked \/ \E i \in 1..Len(sent) : m = sent[i]
  <1> DEFINE n == IF o.lost THEN o.k + 1 ELSE o.k
  <1> DEFINE sent == SubSeq(msgs, 1, n)
  <1>1. n \in 0..Len(msgs) /\ n \in Int /\ o.k \in 0..n
    BY DEF Outcomes
  <1>2. \A i \in 1..n : msgs[i] \in Messages
    BY <1>1
  <1>3. stream' = stream \cup Accepted(sent) /\ acked' = acked \cup {msgs[i] : i \in 1..o.k}
    BY DEF Publish
  <1>4. window' = window \cup {MsgId(sent[i]) : i \in 1..Len(sent)}
    BY DEF Publish
  <1> HIDE DEF n
  <1>5. /\ sent \in Seq(Messages)
        /\ Len(sent) = IF 1 <= n THEN n - 1 + 1 ELSE 0
        /\ \A i \in 1..(n - 1 + 1) : sent[i] = msgs[1 + i - 1]
    BY <1>1, <1>2, SubSeqProperties
  <1> HIDE DEF sent
  <1>6. ASSUME NEW i \in 1..o.k PROVE i \in 1..Len(sent) /\ msgs[i] = sent[i]
    <2>1. i \in 1..(n - 1 + 1) /\ i \in 1..Len(sent) /\ 1 + i - 1 = i
      BY <1>1, <1>5
    <2>2. QED
      BY <2>1, <1>5
  <1>7. QED
    BY <1>3, <1>4, <1>5, <1>6

\* The stream only ever holds messages of the publisher.
LEMMA PublishTypes ==
    ASSUME ProcessorInv, stream \subseteq Messages, window \subseteq MsgIds, [Next]_vars
    PROVE  stream' \subseteq Messages /\ window' \subseteq MsgIds
  <1>1. ASSUME NEW sent \in Seq(Messages),
               stream' = stream \cup Accepted(sent),
               window' = window \cup {MsgId(sent[i]) : i \in 1..Len(sent)}
        PROVE  stream' \subseteq Messages /\ window' \subseteq MsgIds
    <2>1. Accepted(sent) \subseteq Messages
      BY DEF Accepted
    <2>2. \A i \in 1..Len(sent) : MsgId(sent[i]) \in MsgIds
      BY DEF MsgIds
    <2>3. QED
      BY <1>1, <2>1, <2>2
  <1>2. QED
    BY <1>1, PublishOrNothing, SentPrefix

\* The state has its type in every reachable state.
THEOREM TypeTheorem == Spec => []TypeOK
  <1> DEFINE StreamOK == stream \subseteq Messages /\ window \subseteq MsgIds
  <1>1. Init => StreamOK
    BY DEF Init
  <1>2. ProcessorInv /\ StreamOK /\ [Next]_vars => StreamOK'
    BY PublishTypes
  <1>3. ProcessorInv /\ StreamOK => TypeOK
    BY DEF ProcessorInv, ProcessorTypes, TypeOK
  <1>4. QED
    BY <1>1, <1>2, <1>3, ProcessorCorrect, PTL DEF Spec
-----------------------------------------------------------------------------
\* A set of naturals that is not empty has a least element.
LEMMA LeastNat ==
    ASSUME NEW T, T \subseteq Nat, T # {}
    PROVE  \E x \in T : \A y \in T : x <= y
  <1>1. \E x \in T : \A y \in T : ~(<<y, x>> \in OpToRel(<, Nat))
    BY NatLessThanWellFounded, WFMin
  <1>2. \A x \in Nat, y \in Nat : ~(<<y, x>> \in OpToRel(<, Nat)) => x <= y
    BY DEF OpToRel
  <1>3. QED
    BY <1>1, <1>2

\* Of the messages sent under one id, the stream keeps the first, unless the
\* window knows the id: either way the id has a message.
LEMMA FirstIsAccepted ==
    ASSUME NEW sent \in Seq(Messages), NEW j \in 1..Len(sent), MsgId(sent[j]) \notin window
    PROVE  \E m \in Accepted(sent) : MsgId(m) = MsgId(sent[j])
  <1> DEFINE same == {i \in 1..Len(sent) : MsgId(sent[i]) = MsgId(sent[j])}
  <1>1. same \subseteq Nat /\ j \in same
    OBVIOUS
  <1>2. PICK f \in same : \A i \in same : f <= i
    BY <1>1, LeastNat
  <1>3. ASSUME NEW h \in 1..(f - 1) PROVE MsgId(sent[h]) # MsgId(sent[f])
    <2>1. h \in 1..Len(sent) /\ ~(f <= h)
      BY <1>1
    <2>2. QED
      BY <2>1, <1>2
  <1>4. sent[f] \in Accepted(sent)
    BY <1>2, <1>3 DEF Accepted
  <1>5. QED
    BY <1>2, <1>4

\* The window knows only ids of stored messages: an expired id may be stored
\* again, an id in the window never stands for nothing.
WindowIsStored ==
    \A id \in window : \E stored \in stream : MsgId(stored) = id

\* A duplicate is acknowledged because the window knows its id, and the window
\* knows it because a message was stored.
LEMMA StoredStep ==
    ASSUME ProcessorInv, WindowIsStored, AckedIsStored, [Next]_vars
    PROVE  WindowIsStored' /\ AckedIsStored'
  <1>1. ASSUME NEW sent \in Seq(Messages),
               stream' = stream \cup Accepted(sent),
               window' = window \cup {MsgId(sent[i]) : i \in 1..Len(sent)},
               \A m \in acked' : m \in acked \/ \E i \in 1..Len(sent) : m = sent[i]
        PROVE  WindowIsStored' /\ AckedIsStored'
    <2>1. \A i \in 1..Len(sent) : \E stored \in stream' : MsgId(stored) = MsgId(sent[i])
      <3> SUFFICES ASSUME NEW i \in 1..Len(sent)
                   PROVE  \E stored \in stream' : MsgId(stored) = MsgId(sent[i])
        OBVIOUS
      <3>1. CASE MsgId(sent[i]) \in window
        BY <1>1, <3>1 DEF WindowIsStored
      <3>2. CASE MsgId(sent[i]) \notin window
        BY <1>1, <3>2, FirstIsAccepted
      <3>3. QED
        BY <3>1, <3>2
    <2>2. WindowIsStored'
      BY <1>1, <2>1 DEF WindowIsStored
    <2>3. AckedIsStored'
      BY <1>1, <2>1 DEF AckedIsStored
    <2>4. QED
      BY <2>2, <2>3
  <1>2. CASE stream' = stream /\ window' \subseteq window /\ acked' \subseteq acked
    BY <1>2 DEF WindowIsStored, AckedIsStored
  <1>3. QED
    BY <1>1, <1>2, PublishOrNothing, SentPrefix

\* publish returns nil only for an id that has a message in the stream, however
\* often updates are replayed and ids leave the window.
THEOREM StoredTheorem == Spec => []AckedIsStored
  <1>1. Init => WindowIsStored /\ AckedIsStored
    BY DEF Init, WindowIsStored, AckedIsStored
  <1>2. ProcessorInv /\ WindowIsStored /\ AckedIsStored /\ [Next]_vars
            => WindowIsStored' /\ AckedIsStored'
    BY StoredStep
  <1>3. QED
    BY <1>1, <1>2, ProcessorCorrect, PTL DEF Spec
-----------------------------------------------------------------------------
\* Only handleSlot publishes a head with its slot's fate, and only for its slot.
LEMMA ClosingStep ==
    ASSUME ProcessorInv, Next, NEW s \in Slots,
           BlockHead(s, fate[s]) \notin acked, BlockHead(s, fate[s]) \in acked'
    PROVE  HandleSlot(s)
  <1>1. fate[s] \in Terminal
    BY DEF ProcessorInv, ProcessorTypes
  <1>2. ASSUME NEW t \in Txs, HandleTransaction(t) PROVE FALSE
    <2> DEFINE msgs == <<TxMeta(t)>> \o EventsOf(t)
    <2>1. PICK o \in Outcomes(Len(msgs)) : acked' = acked \cup {msgs[i] : i \in 1..o.k}
      BY <1>2 DEF HandleTransaction, Publish
    <2>2. /\ NumSwaps[t] \in Nat /\ Len(msgs) = NumSwaps[t] + 1 /\ msgs[1] = TxMeta(t)
          /\ \A i \in 1..NumSwaps[t] : msgs[i + 1] \in Provisionals
      BY TransactionMessages, ProcessorAssumption
    <2> HIDE DEF msgs
    <2>3. o.k \in 0..(NumSwaps[t] + 1)
      BY <2>2 DEF Outcomes
    <2>4. PICK i \in 1..o.k : BlockHead(s, fate[s]) = msgs[i]
      BY <2>1
    <2>5. CASE i = 1
      BY <2>2, <2>4, <2>5 DEF BlockHead, TxMeta
    <2>6. CASE i # 1
      <3>1. i - 1 \in 1..NumSwaps[t] /\ (i - 1) + 1 = i
        BY <2>2, <2>3, <2>6
      <3>2. msgs[i] \in Provisionals
        BY <3>1, <2>2
      <3>3. QED
        BY <3>2, <2>4, OtherMessages
    <2>7. QED
      BY <2>5, <2>6
  <1>3. ASSUME NEW u \in Slots, HandleBlockMeta(u) PROVE FALSE
    <2>1. PICK o \in Outcomes(1) :
              acked' = acked \cup {<<BlockHead(u, "confirmed")>>[i] : i \in 1..o.k}
      BY <1>3 DEF HandleBlockMeta, Publish
    <2>2. o.k \in 0..1
      BY DEF Outcomes
    <2>3. BlockHead(s, fate[s]) = BlockHead(u, "confirmed")
      BY <2>1, <2>2
    <2>4. fate[s] = "confirmed"
      BY <2>3 DEF BlockHead
    <2>5. QED
      BY <1>1, <2>4 DEF Terminal
  <1>4. ASSUME NEW u \in Slots, HandleSlot(u) PROVE u = s
    <2>1. \/ BlockHead(s, fate[s]) = BlockHead(u, fate[u])
          \/ \E i \in 1..Len(pending[u]) : BlockHead(s, fate[s]) = Relabel(pending[u][i], fate[u])
      BY <1>4, SlotEffects
    <2>2. \A i \in 1..Len(pending[u]) : pending[u][i] \in Provisionals
      BY DEF ProcessorInv, ProcessorTypes
    <2>3. BlockHead(s, fate[s]) = BlockHead(u, fate[u])
      BY <2>1, <2>2, OtherMessages
    <2>4. QED
      BY <2>3 DEF BlockHead
  <1>5. ASSUME Restart \/ \E id \in window : ExpireId(id) PROVE FALSE
    BY <1>5 DEF Restart, ExpireId
  <1>6. QED
    BY <1>2, <1>3, <1>4, <1>5 DEF Next

\* The head that closes a slot comes after the settlements of everything that
\* was announced for it, wherever an earlier attempt stopped.
THEOREM HeadTheorem == Spec => HeadClosesSlot
  <1>1. ASSUME ProcessorInv, [Next]_vars
        PROVE  [\A s \in Slots :
                   /\ BlockHead(s, fate[s]) \notin acked
                   /\ BlockHead(s, fate[s]) \in acked'
                   => \A ev \in acked \cap Provisionals : ev.slot = s => Settled(ev)']_vars
    <2> SUFFICES ASSUME Next, NEW s \in Slots,
                        BlockHead(s, fate[s]) \notin acked, BlockHead(s, fate[s]) \in acked',
                        NEW ev \in acked \cap Provisionals, ev.slot = s
                 PROVE  Settled(ev)'
      BY <1>1
    <2>1. /\ fate' = fate /\ acked \subseteq acked'
          /\ \/ \A i \in 1..Len(pending[s]) : Relabel(pending[s][i], fate[s]) \in acked'
             \/ \E i \in 1..Len(pending[s]) : BlockHead(s, fate[s]) = Relabel(pending[s][i], fate[s])
      BY <1>1, ClosingStep, SlotEffects
    <2>2. \A i \in 1..Len(pending[s]) : pending[s][i] \in Provisionals
      BY <1>1 DEF ProcessorInv, ProcessorTypes
    <2>3. \A i \in 1..Len(pending[s]) : Relabel(pending[s][i], fate[s]) \in acked'
      BY <2>1, <2>2, OtherMessages
    <2>4. Tracked(ev) \/ Settled(ev)
      BY <1>1 DEF ProcessorInv, AnnouncedIsTracked
    <2>5. QED
      BY <2>1, <2>3, <2>4 DEF Tracked, Settled
  <1>2. QED
    BY <1>1, ProcessorCorrect, PTL DEF Spec, HeadClosesSlot
=============================================================================

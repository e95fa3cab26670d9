---------------------------- MODULE StreamProofs ----------------------------
(***************************************************************************)
(* The stream clients: the Helius client skips no update, for every feed   *)
(* whose updates are late by no more than the replay window, wherever its  *)
(* streams break; and the failover service, which alternates between       *)
(* clients, listens to one of them at a time, for every number of clients  *)
(* and every channel capacity.                                             *)
(***************************************************************************)
EXTENDS HeliusClient, Failover, SequenceTheorems, TLAPS

OutputKinds == {"head", "txmeta", "swap"}

\* The channels hold updates of the feed and what is made of them.
Channels ==
    /\ updates \in Seq(Items)
    /\ outbox \in Seq(OutputKinds)
    /\ out \in Seq((Items \cup {Nothing}) \X OutputKinds)

\* A subscription has forwarded what it received, except for the update
\* processStream is just handing over.
Received ==
    /\ loop = "forward" => holding \in Items
    /\ loop \in {"stream", "forward"} =>
          \A k \in 1..(pos - 1) :
              SlotOf(k) >= from => k \in forwarded \/ (loop = "forward" /\ k = holding)

\* lastSlot is the slot of an update of this subscription.
LastReceived ==
    /\ loop \notin {"stream", "forward", "gone"} => lastSlot = 0
    /\ lastSlot # 0 => \E j \in 1..(pos - 1) : SlotOf(j) = lastSlot
    /\ run = "connect" => loop = "off" /\ ~healthy

\* The next subscription would leave out only updates that were forwarded.
CursorSafe ==
    \A i \in Wanted : Feed[i].slot < replaySlot(currentSlot) => i \in forwarded

\* The inductive invariant.
HeliusInv == ClientInv /\ Channels /\ Received /\ LastReceived /\ CursorSafe
-----------------------------------------------------------------------------
\* The numbers the arithmetic needs.
LEMMA FeedFacts ==
    /\ Len(Feed) \in Nat /\ ReplaySlots \in Nat /\ MaxFaults \in Nat
    /\ UpdateCap \in Nat /\ OutCap \in Nat /\ UpdateCap > 0 /\ OutCap > 0
    /\ \A i \in Items : SlotOf(i) \in Nat /\ SlotOf(i) = Feed[i].slot /\ SlotOf(i) > ReplaySlots
    /\ \A i \in Items, j \in Items : i < j => SlotOf(j) + ReplaySlots >= SlotOf(i)
    /\ \A i \in Items : i \in Nat /\ i # Nothing
  <1>1. Feed \in Seq([slot : Nat, kind : Kinds]) /\ Len(Feed) \in Nat
    BY HeliusAssumption
  <1>2. \A i \in Items : Feed[i] \in [slot : Nat, kind : Kinds]
    BY <1>1, ElementOfSeq DEF Items
  <1>3. \A i \in Items : SlotOf(i) \in Nat /\ SlotOf(i) = Feed[i].slot
    BY <1>2 DEF SlotOf
  <1>4. \A i \in Items : i \in Nat /\ i # Nothing
    BY <1>1 DEF Items, Nothing
  <1>5. /\ ReplaySlots \in Nat /\ MaxFaults \in Nat
        /\ UpdateCap \in Nat /\ OutCap \in Nat /\ UpdateCap > 0 /\ OutCap > 0
    BY HeliusAssumption
  <1>6. /\ \A i \in Items : SlotOf(i) > ReplaySlots
        /\ \A i \in Items, j \in Items : i < j => SlotOf(j) + ReplaySlots >= SlotOf(i)
    BY HeliusAssumption DEF SlotOf
  <1>7. QED
    BY <1>1, <1>3, <1>4, <1>5, <1>6

\* What an update makes run send.
LEMMA OutputsType ==
    ASSUME NEW i \in Items
    PROVE  Outputs(i) \in Seq(OutputKinds)
  <1>1. Feed[i].kind \in Kinds
    <2>1. Feed[i] \in [slot : Nat, kind : Kinds]
      BY HeliusAssumption, ElementOfSeq DEF Items
    <2>2. QED
      BY <2>1
  <1>2. /\ <<"head">> \in Seq(OutputKinds) /\ <<>> \in Seq(OutputKinds)
        /\ <<"txmeta", "swap">> \in Seq(OutputKinds) /\ <<"txmeta">> \in Seq(OutputKinds)
    BY DEF OutputKinds
  <1>3. QED
    BY <1>1, <1>2 DEF Outputs, Kinds

\* The end of a stream moves the cursor to the last slot seen.  An update below
\* the next window came before the update of that slot, and so was forwarded:
\* none later in the feed is that late.
LEMMA CursorMoves ==
    ASSUME HeliusInv, loop = "stream", currentSlot' = Larger(currentSlot, lastSlot),
           start' = start, forwarded' = forwarded
    PROVE  CursorSafe'
  <1>1. CASE currentSlot' = currentSlot
    BY <1>1 DEF HeliusInv, CursorSafe, Wanted, replaySlot
  <1>2. CASE currentSlot' # currentSlot
    <2>1. currentSlot' = lastSlot /\ lastSlot > currentSlot /\ currentSlot \in Nat /\ lastSlot \in Nat
      BY <1>2 DEF Larger, HeliusInv, ClientInv, TypeOK
    <2>2. PICK j \in 1..(pos - 1) : SlotOf(j) = lastSlot
      BY <2>1 DEF HeliusInv, LastReceived
    <2>3. j \in Items /\ pos \in 1..(Len(Feed) + 1)
      BY FeedFacts DEF HeliusInv, ClientInv, TypeOK, Items
    <2>4. replaySlot(lastSlot) = lastSlot - ReplaySlots
      BY <2>2, <2>3, FeedFacts DEF replaySlot
    <2> SUFFICES ASSUME NEW i \in Wanted, Feed[i].slot < lastSlot - ReplaySlots
                 PROVE  i \in forwarded
      BY <2>1, <2>4 DEF CursorSafe, Wanted, replaySlot
    <2>5. i \in Items /\ SlotOf(i) = Feed[i].slot /\ SlotOf(i) \in Nat
      BY FeedFacts DEF Wanted
    <2>6. ~(j < i)
      BY <2>1, <2>2, <2>3, <2>5, FeedFacts
    <2>7. i \in 1..(pos - 1)
      BY <2>3, <2>5, <2>6, FeedFacts DEF Items
    <2>8. CASE SlotOf(i) >= from
      BY <2>7, <2>8 DEF HeliusInv, Received
    <2>9. CASE ~(SlotOf(i) >= from)
      <3>1. Feed[i].slot < from
        BY <2>5, <2>9 DEF HeliusInv, ClientInv, TypeOK
      <3>2. QED
        BY <3>1 DEF HeliusInv, ClientInv, NothingSkipped
    <2>10. QED
      BY <2>8, <2>9
  <1>3. QED
    BY <1>1, <1>2
-----------------------------------------------------------------------------
\* A new subscription starts at the cursor.
LEMMA SubscribeStep ==
    ASSUME HeliusInv, Subscribe
    PROVE  HeliusInv'
  <1>1. /\ loop = "subscribe" /\ lastSlot = 0 /\ lastSlot' = 0
        /\ \/ loop' = "stream" /\ from' = replaySlot(currentSlot) /\ pos' = 1
           \/ loop' = "report" /\ from' = from /\ pos' = pos
        /\ UNCHANGED <<endpoint, start, currentSlot, lastSlot, holding, forwarded, updates, errs,
                       run, handling, outbox, healthy, out, cancelled, seen, faults>>
    BY DEF Subscribe, runVars, HeliusInv, LastReceived
  <1>2. replaySlot(currentSlot) \in Nat
    BY FeedFacts DEF replaySlot, HeliusInv, ClientInv, TypeOK
  <1>3. TypeOK'
    <2>1. 1 \in 1..(Len(Feed) + 1)
      BY FeedFacts
    <2>2. QED
      BY <1>1, <1>2, <2>1 DEF HeliusInv, ClientInv, TypeOK
  <1>4. NothingSkipped' /\ EndedIsUnhealthy'
    BY <1>1 DEF HeliusInv, ClientInv, NothingSkipped, EndedIsUnhealthy, CursorSafe, Wanted, replaySlot
  <1>5. Channels' /\ LastReceived' /\ CursorSafe'
    BY <1>1 DEF HeliusInv, Channels, LastReceived, CursorSafe, Wanted, replaySlot
  <1>6. Received'
    BY <1>1 DEF HeliusInv, Received
  <1>7. QED
    BY <1>3, <1>4, <1>5, <1>6 DEF HeliusInv, ClientInv

\* The next update of the subscription is taken from the endpoint.
LEMMA RecvStep ==
    ASSUME HeliusInv, Recv
    PROVE  HeliusInv'
  <1>1. PICK i \in pos..Len(Feed) :
            /\ \A k \in pos..(i - 1) : SlotOf(k) < from
            /\ holding' = i /\ pos' = i + 1
            /\ lastSlot' = Larger(lastSlot, SlotOf(i))
    BY DEF Recv
  <1>2. /\ loop = "stream" /\ loop' = "forward"
        /\ UNCHANGED <<endpoint, start, currentSlot, from, forwarded, updates, errs, run,
                       handling, outbox, healthy, out, cancelled, seen, faults>>
    BY DEF Recv, runVars
  <1>3. /\ pos \in 1..(Len(Feed) + 1) /\ i \in Items /\ i \in Nat /\ pos \in Nat
        /\ from \in Nat /\ lastSlot \in Nat /\ SlotOf(i) \in Nat
    BY FeedFacts DEF HeliusInv, ClientInv, TypeOK, Items
  <1>4. TypeOK'
    <2>1. lastSlot' \in Nat /\ pos' \in 1..(Len(Feed) + 1)
      BY <1>1, <1>3, FeedFacts DEF Larger
    <2>2. QED
      BY <1>1, <1>2, <1>3, <2>1 DEF HeliusInv, ClientInv, TypeOK
  <1>5. NothingSkipped' /\ EndedIsUnhealthy'
    BY <1>2 DEF HeliusInv, ClientInv, NothingSkipped, EndedIsUnhealthy, Wanted, replaySlot
  <1>6. Channels' /\ CursorSafe'
    BY <1>2 DEF HeliusInv, Channels, CursorSafe, Wanted, replaySlot
  <1>7. Received'
    <2> SUFFICES ASSUME NEW k \in 1..i, SlotOf(k) >= from, k # i
                 PROVE  k \in forwarded
      BY <1>1, <1>2, <1>3 DEF Received
    <2>1. SlotOf(k) \in Nat
      BY <1>3, FeedFacts DEF Items
    <2>2. k \in 1..(pos - 1)
      BY <1>1, <1>3, <2>1
    <2>3. QED
      BY <1>2, <2>2 DEF HeliusInv, Received
  <1>8. LastReceived'
    <2>1. ASSUME lastSlot' # 0 PROVE \E j \in 1..i : SlotOf(j) = lastSlot'
      <3>1. CASE lastSlot' = SlotOf(i)
        BY <3>1, <1>3, FeedFacts
      <3>2. CASE lastSlot' # SlotOf(i)
        <4>1. lastSlot' = lastSlot
          BY <3>2, <1>1 DEF Larger
        <4>2. PICK j \in 1..(pos - 1) : SlotOf(j) = lastSlot
          BY <4>1, <2>1 DEF HeliusInv, LastReceived
        <4>3. j \in 1..i
          BY <1>1, <1>3
        <4>4. QED
          BY <4>1, <4>2, <4>3
      <3>3. QED
        BY <3>1, <3>2
    <2>2. (i + 1) - 1 = i
      BY <1>3
    <2>3. QED
      BY <1>1, <1>2, <2>1, <2>2 DEF HeliusInv, LastReceived
  <1>9. QED
    BY <1>4, <1>5, <1>6, <1>7, <1>8 DEF HeliusInv, ClientInv

\* processStream hands the update over.
LEMMA ForwardStep ==
    ASSUME HeliusInv, Forward
    PROVE  HeliusInv'
  <1>1. /\ loop = "forward" /\ loop' = "stream" /\ Len(updates) < UpdateCap
        /\ updates' = Append(updates, holding) /\ forwarded' = forwarded \cup {holding}
        /\ holding' = Nothing
        /\ UNCHANGED <<endpoint, start, currentSlot, lastSlot, from, pos, errs, run, handling,
                       outbox, healthy, out, cancelled, seen, faults>>
    BY DEF Forward, runVars
  <1>2. holding \in Items /\ updates \in Seq(Items)
    BY <1>1 DEF HeliusInv, Received, Channels
  <1>3. updates' \in Seq(Items) /\ Len(updates') <= UpdateCap
    BY <1>1, <1>2, FeedFacts
  <1>4. TypeOK'
    BY <1>1, <1>2, <1>3 DEF HeliusInv, ClientInv, TypeOK
  <1>5. NothingSkipped' /\ EndedIsUnhealthy'
    BY <1>1 DEF HeliusInv, ClientInv, NothingSkipped, EndedIsUnhealthy, Wanted, replaySlot
  <1>6. Channels' /\ CursorSafe'
    BY <1>1, <1>3 DEF HeliusInv, Channels, CursorSafe, Wanted, replaySlot
  <1>7. Received' /\ LastReceived'
    BY <1>1 DEF HeliusInv, Received, LastReceived
  <1>8. QED
    BY <1>4, <1>5, <1>6, <1>7 DEF HeliusInv, ClientInv

\* The stream ends, with an error or without.
LEMMA StreamEndStep ==
    ASSUME HeliusInv, RecvFails \/ StreamEOF
    PROVE  HeliusInv'
  <1>1. /\ loop = "stream" /\ loop' \in {"report", "sleep"}
        /\ currentSlot' = Larger(currentSlot, lastSlot) /\ lastSlot' = 0 /\ holding' = Nothing
        /\ UNCHANGED <<endpoint, start, from, pos, forwarded, updates, errs, run, handling,
                       outbox, healthy, out, cancelled, seen>>
        /\ faults' \in 0..MaxFaults
    <2>1. faults \in 0..MaxFaults /\ MaxFaults \in Nat
      BY FeedFacts DEF HeliusInv, ClientInv, TypeOK
    <2>2. faults' = faults \/ (faults < MaxFaults /\ faults' = faults + 1)
      BY DEF RecvFails, StreamEOF
    <2>3. faults' \in 0..MaxFaults
      BY <2>1, <2>2
    <2>4. QED
      BY <2>3 DEF RecvFails, StreamEOF, Ended, runVars
  <1>2. currentSlot' \in Nat
    BY <1>1 DEF HeliusInv, ClientInv, TypeOK, Larger
  <1>3. TypeOK'
    BY <1>1, <1>2 DEF HeliusInv, ClientInv, TypeOK
  <1>4. NothingSkipped' /\ EndedIsUnhealthy' /\ Received'
    BY <1>1 DEF HeliusInv, ClientInv, NothingSkipped, EndedIsUnhealthy, Received
  <1>5. Channels' /\ LastReceived'
    BY <1>1 DEF HeliusInv, Channels, LastReceived
  <1>6. CursorSafe'
    BY <1>1, CursorMoves
  <1>7. QED
    BY <1>3, <1>4, <1>5, <1>6 DEF HeliusInv, ClientInv

\* The rest of subscribeLoop moves on without touching the stream's state.
LEMMA LoopStep ==
    ASSUME HeliusInv, Report \/ Awake \/ LoopGone
    PROVE  HeliusInv'
  <1>1. /\ loop' \in {"subscribe", "sleep", "gone"}
        /\ loop' # "gone" => lastSlot = 0
        /\ run # "connect"
        /\ errs' \in 0..1
        /\ UNCHANGED <<endpoint, start, currentSlot, lastSlot, from, pos, holding, forwarded,
                       updates, run, handling, outbox, healthy, out, cancelled, seen, faults>>
    BY DEF Report, Awake, LoopGone, runVars, HeliusInv, LastReceived, ClientInv, TypeOK
  <1>2. TypeOK'
    BY <1>1 DEF HeliusInv, ClientInv, TypeOK
  <1>3. NothingSkipped' /\ EndedIsUnhealthy' /\ Received'
    BY <1>1 DEF HeliusInv, ClientInv, NothingSkipped, EndedIsUnhealthy, Received
  <1>4. Channels' /\ LastReceived' /\ CursorSafe'
    BY <1>1 DEF HeliusInv, Channels, LastReceived, CursorSafe, Wanted, replaySlot
  <1>5. QED
    BY <1>2, <1>3, <1>4 DEF HeliusInv, ClientInv

\* A step that leaves subscribeLoop alone keeps what is said of it.
LEMMA StreamUntouched ==
    ASSUME HeliusInv, UNCHANGED streamVars
    PROVE  Received' /\ CursorSafe' /\ NothingSkipped'
  BY DEF HeliusInv, ClientInv, streamVars, Received, CursorSafe, NothingSkipped, Wanted, replaySlot

\* run starts the stream, or fails to.
LEMMA ConnectStep ==
    ASSUME HeliusInv, Connect \/ ConnectFails
    PROVE  HeliusInv'
  <1>1. /\ run = "connect" /\ loop = "off" /\ lastSlot = 0 /\ ~healthy
        /\ \/ run' = "select" /\ loop' = "subscribe" /\ healthy' = TRUE
           \/ run' = "ended" /\ loop' = loop /\ healthy' = healthy
        /\ UNCHANGED <<endpoint, start, currentSlot, lastSlot, from, pos, holding, forwarded,
                       updates, errs, handling, outbox, out, cancelled, seen, faults>>
    BY DEF Connect, ConnectFails, Health, streamVars, HeliusInv, LastReceived
  <1>2. TypeOK'
    BY <1>1 DEF HeliusInv, ClientInv, TypeOK
  <1>3. NothingSkipped' /\ EndedIsUnhealthy' /\ Received'
    BY <1>1 DEF NothingSkipped, EndedIsUnhealthy, Received
  <1>4. Channels' /\ LastReceived' /\ CursorSafe'
    BY <1>1 DEF HeliusInv, Channels, LastReceived, CursorSafe, Wanted, replaySlot
  <1>5. QED
    BY <1>2, <1>3, <1>4 DEF HeliusInv, ClientInv

\* run takes an update from the channel, or an error.
LEMMA SelectStep ==
    ASSUME HeliusInv, RunError \/ RunUpdate \/ RunDone
    PROVE  HeliusInv'
  <1>1. /\ run = "select" /\ outbox = <<>>
        /\ UNCHANGED <<endpoint, streamVars, out, cancelled, seen, faults>>
    BY DEF RunError, RunUpdate, RunDone, HeliusInv, ClientInv, TypeOK
  <1>2. /\ updates' \in Seq(Items) /\ Len(updates') <= UpdateCap
        /\ outbox' \in Seq(OutputKinds) /\ handling' \in Items \cup {Nothing}
        /\ run' \in {"select", "send", "ended"} /\ (run' = "send" <=> outbox' # <<>>)
        /\ run' = "ended" => ~healthy'
        /\ healthy' \in BOOLEAN /\ errs' \in 0..1
    <2>1. CASE RunUpdate
      <3>1. updates \in Seq(Items) /\ updates # <<>> /\ Len(updates) <= UpdateCap
        BY <2>1 DEF RunUpdate, HeliusInv, ClientInv, TypeOK, Channels
      <3>2. /\ Head(updates) \in Items /\ Tail(updates) \in Seq(Items)
            /\ Len(Tail(updates)) = Len(updates) - 1 /\ Len(updates) \in Nat
        BY <3>1, HeadTailProperties
      <3>3. updates' = Tail(updates) /\ Len(updates') <= UpdateCap
        BY <2>1, <3>1, <3>2, FeedFacts DEF RunUpdate
      <3>4. Outputs(Head(updates)) \in Seq(OutputKinds)
        BY <3>2, OutputsType
      <3>5. QED
        BY <2>1, <3>2, <3>3, <3>4 DEF RunUpdate, Health, HeliusInv, ClientInv, TypeOK
    <2>2. CASE RunError \/ RunDone
      <3>1. /\ UNCHANGED <<updates, handling, outbox>> /\ errs' \in 0..1 /\ healthy' = FALSE
            /\ run' \in {"select", "ended"}
        BY <2>2 DEF RunError, RunDone, Health, HeliusInv, ClientInv, TypeOK
      <3>2. /\ updates \in Seq(Items) /\ Len(updates) <= UpdateCap
            /\ outbox \in Seq(OutputKinds) /\ handling \in Items \cup {Nothing}
        BY DEF HeliusInv, ClientInv, TypeOK, Channels
      <3>3. QED
        BY <3>1, <3>2, <1>1
    <2>3. QED
      BY <2>1, <2>2
  <1>3. TypeOK'
    BY <1>1, <1>2 DEF streamVars, HeliusInv, ClientInv, TypeOK
  <1>4. EndedIsUnhealthy' /\ Channels'
    BY <1>1, <1>2 DEF EndedIsUnhealthy, HeliusInv, Channels
  <1>5. LastReceived'
    BY <1>1, <1>2 DEF streamVars, HeliusInv, LastReceived
  <1>6. QED
    BY <1>1, <1>3, <1>4, <1>5, StreamUntouched DEF HeliusInv, ClientInv

\* sendUpdate, for one output of the update.
LEMMA SendStep ==
    ASSUME HeliusInv, RunSend
    PROVE  HeliusInv'
  <1>1. /\ run = "send" /\ outbox # <<>> /\ outbox \in Seq(OutputKinds)
        /\ outbox' = Tail(outbox)
        /\ run' = IF Len(outbox) = 1 THEN "select" ELSE "send"
        /\ UNCHANGED <<endpoint, streamVars, updates, errs, handling, healthy, cancelled, seen, faults>>
    BY DEF RunSend, HeliusInv, ClientInv, TypeOK, Channels
  <1>2. /\ Head(outbox) \in OutputKinds /\ Tail(outbox) \in Seq(OutputKinds)
        /\ Len(Tail(outbox)) = Len(outbox) - 1 /\ Len(outbox) \in Nat
    BY <1>1, HeadTailProperties
  <1>3. run' = "send" <=> outbox' # <<>>
    <2>1. outbox' = <<>> <=> Len(outbox') = 0
      BY <1>1, <1>2, EmptySeq
    <2>2. QED
      BY <1>1, <1>2, <2>1
  <1>4. out' \in Seq((Items \cup {Nothing}) \X OutputKinds) /\ Len(out') <= OutCap
    <2>1. CASE out' = out
      BY <2>1 DEF HeliusInv, ClientInv, TypeOK, Channels
    <2>2. CASE Len(out) < OutCap /\ out' = Append(out, <<handling, Head(outbox)>>)
      <3>1. <<handling, Head(outbox)>> \in (Items \cup {Nothing}) \X OutputKinds
        BY <1>2 DEF HeliusInv, ClientInv, TypeOK
      <3>2. out \in Seq((Items \cup {Nothing}) \X OutputKinds)
        BY DEF HeliusInv, Channels
      <3>3. QED
        BY <2>2, <3>1, <3>2, AppendProperties, FeedFacts
    <2>3. QED
      BY <2>1, <2>2 DEF RunSend
  <1>5. TypeOK'
    BY <1>1, <1>3, <1>4 DEF streamVars, HeliusInv, ClientInv, TypeOK
  <1>6. EndedIsUnhealthy' /\ Channels'
    BY <1>1, <1>2, <1>4 DEF EndedIsUnhealthy, HeliusInv, Channels
  <1>7. LastReceived'
    BY <1>1 DEF streamVars, HeliusInv, LastReceived
  <1>8. QED
    BY <1>1, <1>5, <1>6, <1>7, StreamUntouched DEF HeliusInv, ClientInv

\* A step of the caller or of the endpoint, or one that changes nothing.
LEMMA WorldStep ==
    ASSUME HeliusInv, Read \/ Close \/ Outage \/ Recover \/ UNCHANGED vars
    PROVE  HeliusInv'
  <1>1. UNCHANGED <<streamVars, updates, errs, run, handling, outbox, healthy>>
    BY DEF Read, Close, Outage, Recover, vars, runVars
  <1>2. /\ endpoint' \in {"up", "down"} /\ cancelled' \in BOOLEAN /\ faults' \in 0..MaxFaults
    <2>1. endpoint' \in {"up", "down"}
      BY DEF Read, Close, Outage, Recover, vars, HeliusInv, ClientInv, TypeOK
    <2>2. cancelled \in BOOLEAN
      BY DEF HeliusInv, ClientInv, TypeOK
    <2>3. cancelled' \in BOOLEAN
      BY <2>2 DEF Read, Close, Outage, Recover, vars
    <2>4. faults' \in 0..MaxFaults
      <3>1. MaxFaults \in Nat /\ faults \in 0..MaxFaults
        BY FeedFacts DEF HeliusInv, ClientInv, TypeOK
      <3>2. faults' = faults \/ (faults < MaxFaults /\ faults' = faults + 1)
        BY DEF Read, Close, Outage, Recover, vars
      <3>3. QED
        BY <3>1, <3>2
    <2>5. QED
      BY <2>1, <2>3, <2>4
  <1>3. out' \in Seq((Items \cup {Nothing}) \X OutputKinds) /\ Len(out') <= OutCap
    <2>1. out \in Seq((Items \cup {Nothing}) \X OutputKinds) /\ Len(out) <= OutCap
      BY DEF HeliusInv, ClientInv, TypeOK, Channels
    <2>2. CASE Read
      BY <2>1, <2>2, HeadTailProperties, FeedFacts DEF Read
    <2>3. CASE ~Read
      BY <2>1, <2>3 DEF Close, Outage, Recover, vars
    <2>4. QED
      BY <2>2, <2>3
  <1>4. TypeOK'
    BY <1>1, <1>2, <1>3 DEF streamVars, HeliusInv, ClientInv, TypeOK
  <1>5. EndedIsUnhealthy' /\ Channels'
    BY <1>1, <1>3 DEF EndedIsUnhealthy, HeliusInv, ClientInv, Channels
  <1>6. LastReceived'
    BY <1>1 DEF streamVars, HeliusInv, LastReceived
  <1>7. QED
    BY <1>1, <1>4, <1>5, <1>6, StreamUntouched DEF HeliusInv, ClientInv

\* Start leaves the client in a state of the invariant: a wanted update is
\* never below the first window.
LEMMA InitInv == Init => HeliusInv
  <1> SUFFICES ASSUME Init PROVE HeliusInv
    OBVIOUS
  <1>1. start \in Nat
    BY HeliusAssumption DEF Init
  <1>2. TypeOK
    <2>1. /\ {start, currentSlot, lastSlot, from} \subseteq Nat /\ pos \in 1..(Len(Feed) + 1)
          /\ Len(updates) <= UpdateCap /\ Len(out) <= OutCap /\ errs \in 0..1
          /\ faults \in 0..MaxFaults
      BY <1>1, FeedFacts DEF Init
    <2>2. /\ {holding, handling} \subseteq Items \cup {Nothing} /\ {healthy, cancelled} \subseteq BOOLEAN
          /\ forwarded \subseteq Items /\ (run = "send" <=> outbox # <<>>)
      BY DEF Init
    <2>3. QED
      BY <2>1, <2>2 DEF Init, TypeOK
  <1>3. NothingSkipped /\ EndedIsUnhealthy /\ Received /\ LastReceived
    BY DEF Init, NothingSkipped, EndedIsUnhealthy, Received, LastReceived
  <1>4. Channels
    BY DEF Init, Channels
  <1>5. CursorSafe
    <2> SUFFICES ASSUME NEW i \in Wanted, Feed[i].slot < replaySlot(start) PROVE FALSE
      BY DEF Init, CursorSafe
    <2>1. i \in Items /\ Feed[i].slot >= replaySlot(start) /\ replaySlot(start) \in Nat
      BY <1>1, FeedFacts DEF Wanted, replaySlot
    <2>2. Feed[i].slot \in Nat
      BY <2>1, FeedFacts
    <2>3. QED
      BY <2>1, <2>2
  <1>6. QED
    BY <1>2, <1>3, <1>4, <1>5 DEF HeliusInv, ClientInv
-----------------------------------------------------------------------------
\* The invariant holds of every behaviour.
THEOREM HeliusCorrect == Spec => []HeliusInv
  <1>1. HeliusInv /\ [Next]_vars => HeliusInv'
    BY SubscribeStep, RecvStep, ForwardStep, StreamEndStep, LoopStep, ConnectStep, SelectStep,
       SendStep, WorldStep DEF Next
  <1>2. QED
    BY <1>1, InitInv, PTL DEF Spec

\* The client's state is sound in every reachable state: its channels keep to
\* their capacities, no subscription leaves out an update that was not
\* forwarded, and a client that has ended is not healthy.
THEOREM ClientTheorem == Spec => []ClientInv
  <1>1. HeliusInv => ClientInv
    BY DEF HeliusInv
  <1>2. QED
    BY <1>1, HeliusCorrect, PTL
-----------------------------------------------------------------------------
(* The failover service *)

\* A client that was subscribed to and never closed is the one being received
\* from: runClient closes a client on every way out of its select.
OnlyCurrentOpen ==
    \A c \in Clients : loops[c] # "none" /\ ~closed[c] => svc = "recv" /\ current = c

\* A client that put an update in its channel behind the service's back was
\* closed, and holds no update: it finds its context cancelled before it
\* receives another one.
OneLate ==
    \A c \in Clients :
        \/ late[c] = 0
        \/ late[c] = 1 /\ closed[c] /\ loops[c] \notin {"recv", "forward"}

\* The inductive invariant.
FailoverInv == FailoverTypeOK /\ OnlyCurrentOpen /\ OneLate
-----------------------------------------------------------------------------
\* The toggle stays among the clients.
LEMMA ToggleInClients ==
    ASSUME NEW i \in Clients
    PROVE  (i + 1) % NumClients \in Clients
  BY FailoverAssumption DEF Clients

\* A step of a subscribeLoop goroutine: it never leaves "none", and closes
\* nothing.
LEMMA FailoverLoopStep ==
    ASSUME FailoverInv, NEW c \in Clients, Loop(c)
    PROVE  FailoverInv'
  <1>1. /\ UNCHANGED <<svc, current, ctxDone, closed, up, failures>>
        /\ loops[c] # "none"
        /\ \E pc \in LoopStates \ {"none"} :
              /\ loops' = [loops EXCEPT ![c] = pc]
              /\ pc = "recv" => ~closed[c]
              /\ pc = "forward" => loops[c] = "recv"
    BY DEF Loop, LoopCheck, LoopOpen, LoopStream, LoopRecv, LoopForward, LoopForwardDone,
           LoopReport, LoopBackoff, Goto, LoopStates
  <1>2. errBuf' \in [Clients -> 0..1]
    BY DEF Loop, LoopCheck, LoopOpen, LoopStream, LoopRecv, LoopForward, LoopForwardDone,
           LoopReport, LoopBackoff, FailoverInv, FailoverTypeOK
  <1>3. CASE LoopForward(c)
    <2>1. /\ loops[c] = "forward" /\ loops' = [loops EXCEPT ![c] = "stream"]
          /\ late' = [late EXCEPT ![c] = IF Receiving(c) THEN @ ELSE @ + 1]
      BY <1>3 DEF LoopForward, Goto
    <2>2. late[c] = 0
      BY <2>1 DEF FailoverInv, OneLate
    <2>3. late' = [late EXCEPT ![c] = 0] \/ (late' = [late EXCEPT ![c] = 1] /\ closed[c])
      <3>1. ~Receiving(c) => closed[c]
        BY <2>1 DEF FailoverInv, OnlyCurrentOpen, Receiving
      <3>2. CASE Receiving(c)
        BY <2>1, <2>2, <3>2
      <3>3. CASE ~Receiving(c)
        <4>1. late' = [late EXCEPT ![c] = late[c] + 1]
          BY <2>1, <3>3
        <4>2. late[c] + 1 = 1
          BY <2>2
        <4>3. QED
          BY <3>1, <3>3, <4>1, <4>2
      <3>4. QED
        BY <3>2, <3>3
    <2>4. updBuf' \in [Clients -> 0..ChannelCap]
      BY <1>3, FailoverAssumption DEF LoopForward, FailoverInv, FailoverTypeOK
    <2>5. FailoverTypeOK'
      <3>1. late' \in [Clients -> Nat]
        BY <2>3, 0 \in Nat, 1 \in Nat DEF FailoverInv, FailoverTypeOK
      <3>2. loops' \in [Clients -> LoopStates]
        BY <1>1 DEF FailoverInv, FailoverTypeOK
      <3>3. QED
        BY <1>1, <1>2, <2>4, <3>1, <3>2 DEF FailoverInv, FailoverTypeOK
    <2>6. OnlyCurrentOpen'
      BY <1>1 DEF FailoverInv, FailoverTypeOK, OnlyCurrentOpen
    <2>7. OneLate'
      BY <1>1, <2>1, <2>3 DEF FailoverInv, FailoverTypeOK, OneLate
    <2>8. QED
      BY <2>5, <2>6, <2>7 DEF FailoverInv
  <1>4. CASE ~LoopForward(c)
    <2>1. UNCHANGED <<updBuf, late>>
      BY <1>4 DEF Loop, LoopCheck, LoopOpen, LoopStream, LoopRecv, LoopForwardDone,
             LoopReport, LoopBackoff
    <2>2. FailoverTypeOK'
      BY <1>1, <1>2, <2>1 DEF FailoverInv, FailoverTypeOK
    <2>3. OnlyCurrentOpen'
      BY <1>1 DEF FailoverInv, FailoverTypeOK, OnlyCurrentOpen
    <2>4. OneLate'
      BY <1>1, <2>1 DEF FailoverInv, FailoverTypeOK, OneLate
    <2>5. QED
      BY <2>2, <2>3, <2>4 DEF FailoverInv
  <1>5. QED
    BY <1>3, <1>4

\* The service subscribes to a client it has just turned to: no other client
\* is open, since it is receiving from none.
LEMMA FailoverConnectStep ==
    ASSUME FailoverInv, ConnectAndSubscribe
    PROVE  FailoverInv'
  <1>1. FailoverTypeOK'
    BY FailoverAssumption DEF ConnectAndSubscribe, Goto, FailoverInv, FailoverTypeOK, LoopStates
  <1>2. OnlyCurrentOpen'
    BY DEF ConnectAndSubscribe, Goto, FailoverInv, FailoverTypeOK, OnlyCurrentOpen
  <1>3. OneLate'
    BY DEF ConnectAndSubscribe, Goto, FailoverInv, FailoverTypeOK, OneLate
  <1>4. QED
    BY <1>1, <1>2, <1>3 DEF FailoverInv

\* The service leaves the select, to toggle or to return: either way it closes
\* the client first.
LEMMA LeaveStep ==
    ASSUME FailoverInv, svc' \in {"sleep", "returned"}, current' \in Clients,
           closed' = [closed EXCEPT ![current] = TRUE],
           svc = "recv",
           UNCHANGED <<ctxDone, loops, up, late>>,
           errBuf' \in [Clients -> 0..1], updBuf' \in [Clients -> 0..ChannelCap],
           failures' \in 0..MaxFailures
    PROVE  FailoverInv'
  <1>1. FailoverTypeOK'
    BY DEF FailoverInv, FailoverTypeOK
  <1>2. OnlyCurrentOpen'
    BY DEF FailoverInv, FailoverTypeOK, OnlyCurrentOpen
  <1>3. OneLate'
    BY DEF FailoverInv, FailoverTypeOK, OneLate
  <1>4. QED
    BY <1>1, <1>2, <1>3 DEF FailoverInv

\* A step of the service.
LEMMA ServiceStep ==
    ASSUME FailoverInv, Service
    PROVE  FailoverInv'
  <1>1. /\ current \in Clients /\ (current + 1) % NumClients \in Clients
        /\ errBuf \in [Clients -> 0..1] /\ updBuf \in [Clients -> 0..ChannelCap]
        /\ failures \in 0..MaxFailures
    BY ToggleInClients DEF FailoverInv, FailoverTypeOK
  <1>2. updBuf[current] > 0 => [updBuf EXCEPT ![current] = @ - 1] \in [Clients -> 0..ChannelCap]
    BY <1>1, FailoverAssumption DEF FailoverInv
  <1>3. CASE ConnectAndSubscribe
    BY <1>3, FailoverConnectStep
  <1>4. CASE RecvError
    BY <1>4, <1>1, LeaveStep DEF RecvError, LeaveClient
  <1>5. CASE RecvUpdate
    BY <1>5, <1>2 DEF RecvUpdate, FailoverInv, FailoverTypeOK, OnlyCurrentOpen, OneLate
  <1>6. CASE RecvUpdateFails
    <2>1. failures' \in 0..MaxFailures
      BY <1>6, <1>1, FailoverAssumption DEF RecvUpdateFails, FailoverInv
    <2>2. QED
      BY <1>6, <1>1, <1>2, <2>1, LeaveStep DEF RecvUpdateFails, LeaveClient
  <1>7. CASE RecvUpdateCancelled
    BY <1>7, <1>1, <1>2, LeaveStep DEF RecvUpdateCancelled
  <1>8. CASE RecvClosed
    BY <1>8, <1>1, LeaveStep DEF RecvClosed, LeaveClient
  <1>9. CASE RecvDone
    BY <1>9, <1>1, LeaveStep DEF RecvDone
  <1>10. CASE Wake
    BY <1>10 DEF Wake, clientVars, FailoverInv, FailoverTypeOK, OnlyCurrentOpen, OneLate
  <1>11. QED
    BY <1>3, <1>4, <1>5, <1>6, <1>7, <1>8, <1>9, <1>10 DEF Service

\* A step of the world: the caller cancels, an endpoint fails or comes back.
LEMMA FailoverWorldStep ==
    ASSUME FailoverInv,
           Cancel \/ \E c \in Clients : EndpointFails(c) \/ EndpointRecovers(c)
    PROVE  FailoverInv'
  <1>1. UNCHANGED <<svc, current, closed, loops, errBuf, updBuf, late>>
    BY DEF Cancel, EndpointFails, EndpointRecovers, clientVars
  <1>2. /\ ctxDone' \in BOOLEAN /\ up' \in [Clients -> BOOLEAN]
        /\ failures' \in 0..MaxFailures
    <2>1. CASE Cancel
      BY <2>1 DEF Cancel, FailoverInv, FailoverTypeOK
    <2>2. ASSUME NEW c \in Clients, EndpointFails(c) PROVE <1>2!:
      BY <2>2, FailoverAssumption DEF EndpointFails, FailoverInv, FailoverTypeOK
    <2>3. ASSUME NEW c \in Clients, EndpointRecovers(c) PROVE <1>2!:
      BY <2>3 DEF EndpointRecovers, FailoverInv, FailoverTypeOK
    <2>4. QED
      BY <2>1, <2>2, <2>3
  <1>3. QED
    BY <1>1, <1>2 DEF FailoverInv, FailoverTypeOK, OnlyCurrentOpen, OneLate

\* The invariant holds before the first connection.
LEMMA FailoverStart == FailoverInit => FailoverInv
  <1> SUFFICES ASSUME FailoverInit PROVE FailoverInv
    OBVIOUS
  <1>1. current \in Clients /\ failures \in 0..MaxFailures /\ 0 \in 0..ChannelCap /\ 0 \in 0..1
    BY FailoverAssumption DEF FailoverInit, Clients, FailoverInv
  <1>2. FailoverTypeOK
    BY <1>1 DEF FailoverInit, FailoverTypeOK, LoopStates
  <1>3. QED
    BY <1>2 DEF FailoverInit, FailoverInv, OnlyCurrentOpen, OneLate

\* Every step keeps the invariant.
LEMMA FailoverStep == FailoverInv /\ [FailoverNext]_failoverVars => FailoverInv'
  <1> SUFFICES ASSUME FailoverInv, [FailoverNext]_failoverVars PROVE FailoverInv'
    OBVIOUS
  <1>1. CASE UNCHANGED failoverVars
    BY <1>1 DEF failoverVars, FailoverInv, FailoverTypeOK, OnlyCurrentOpen, OneLate
  <1>2. QED
    BY <1>1, FailoverLoopStep, ServiceStep, FailoverWorldStep DEF FailoverNext
-----------------------------------------------------------------------------
\* The invariant holds of every behaviour.
THEOREM FailoverCorrect == FailoverSpec => []FailoverInv
  BY FailoverStart, FailoverStep, PTL DEF FailoverSpec

\* The channels never hold more than their capacity, and the toggle never
\* leaves the list of clients.
THEOREM FailoverTypeTheorem == FailoverSpec => []FailoverTypeOK
  <1>1. FailoverInv => FailoverTypeOK
    BY DEF FailoverInv
  <1>2. QED
    BY <1>1, FailoverCorrect, PTL

\* A client the service has left puts at most one more update in its channel,
\* however often the service comes back to it.
THEOREM SingleFeedTheorem == FailoverSpec => []SingleFeed
  <1>1. FailoverInv => SingleFeed
    BY DEF FailoverInv, FailoverTypeOK, OneLate, SingleFeed
  <1>2. QED
    BY <1>1, FailoverCorrect, PTL
=============================================================================

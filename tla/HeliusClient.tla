---------------------------- MODULE HeliusClient ----------------------------
(***************************************************************************)
(* The Helius client: Client.run with its health snapshot                  *)
(* (ingestor/helius/client.go) over the goroutine of StreamClient          *)
(* (ingestor/helius/stream_client.go), which reconnects and subscribes     *)
(* again from a slot before the last one it saw.                           *)
(*                                                                         *)
(* The endpoint has a feed of updates, in the order it sends them, in      *)
(* which an update may be late by a few slots; a subscription from a slot  *)
(* gets every update of that slot and later ones.  The client's own error  *)
(* channel is left out: run never waits for it.  Outages and clean ends of *)
(* a stream are bounded.                                                   *)
(***************************************************************************)
EXTENDS Integers, Sequences, FiniteSets

CONSTANTS
    Feed,         \* the updates: a sequence of [slot, kind]
    StartSlots,   \* the start slots Start may be called with
    ReplaySlots,  \* cfg.ReplaySlots
    UpdateCap,    \* capacity of the stream client's updates (128)
    OutCap,       \* capacity of the client's updates (128)
    MaxFaults     \* bound: how many outages and clean ends there are

\* A transaction "tx" has a swap, a "badtx" cannot be decoded.
Kinds == {"meta", "account", "tx", "badtx"}

Items == 1..Len(Feed)

\* An update is late by at most the replay window, and slots are large.
ASSUME HeliusAssumption ==
    /\ Feed \in Seq([slot : Nat, kind : Kinds])
    /\ StartSlots \subseteq Nat
    /\ {ReplaySlots, MaxFaults} \subseteq Nat
    /\ {UpdateCap, OutCap} \subseteq Nat \ {0}
    /\ \A i, j \in Items : i < j => Feed[j].slot + ReplaySlots >= Feed[i].slot
    /\ \A i \in Items : Feed[i].slot > ReplaySlots

Nothing == 0

\* slotFromUpdate, extractSlot.
SlotOf(i) == Feed[i].slot

\* handleSubscribeUpdate: what one update makes it send.
Outputs(i) ==
    CASE Feed[i].kind = "meta"    -> <<"head">>
      [] Feed[i].kind = "account" -> <<>>
      [] Feed[i].kind = "tx"      -> <<"txmeta", "swap">>
      [] Feed[i].kind = "badtx"   -> <<"txmeta">>

VARIABLES
    endpoint,     \* "up" or "down"
    start,        \* the slot Start was called with
    currentSlot,  \* subscribeLoop
    lastSlot,     \* processStream
    loop,         \* subscribeLoop: "off", "subscribe", "stream", "forward",
                  \* "report" (errs <- err), "sleep" or "gone"
    from,         \* FromSlot of the subscription
    pos,          \* the next item of the feed in this subscription
    holding,      \* processStream: the update received and not forwarded
    updates,      \* the channel between the goroutines
    errs,         \* how many errors are in the channel between them (capacity 1)
    run,          \* run: "connect", "select", "send" or "ended"
    handling,     \* run: the update it handles
    outbox,       \* run: what it still sends for it
    healthy,      \* health.Healthy
    out,          \* the client's updates
    cancelled,    \* runCtx: Close was called
    forwarded,    \* the items that were put into updates
    seen,         \* what the caller has read: pairs of an item and an output
    faults

streamVars == <<start, currentSlot, lastSlot, loop, from, pos, holding, forwarded>>
runVars    == <<run, handling, outbox, healthy>>
vars == <<endpoint, streamVars, updates, errs, runVars, out, cancelled, seen, faults>>

Larger(a, b) == IF a > b THEN a ELSE b

\* stream.Close is deferred by run.
StreamClosed == run = "ended"
-----------------------------------------------------------------------------
\* subscribeLoop and processStream.

MutantNoWindow(slot) == slot

replaySlot(slot) == IF slot > ReplaySlots THEN slot - ReplaySlots ELSE slot

\* The stream ended, with or without an error, after the slots up to last.
Ended(next) ==
    /\ loop' = next
    /\ currentSlot' = Larger(currentSlot, lastSlot)
    /\ lastSlot' = 0
    /\ holding' = Nothing

Subscribe ==
    /\ loop = "subscribe"
    /\ ~StreamClosed
    /\ IF endpoint = "up"
       THEN /\ loop' = "stream"
            /\ from' = replaySlot(currentSlot)
            /\ pos' = 1
       ELSE /\ loop' = "report"
            /\ UNCHANGED <<from, pos>>
    /\ UNCHANGED <<endpoint, start, currentSlot, lastSlot, holding, forwarded, updates, errs,
                   runVars, out, cancelled, seen, faults>>

\* stream.Recv returns the next update of the subscription.
Recv ==
    /\ loop = "stream"
    /\ endpoint = "up"
    /\ ~StreamClosed
    /\ \E i \in pos..Len(Feed) :
          /\ SlotOf(i) >= from
          /\ \A k \in pos..(i - 1) : SlotOf(k) < from
          /\ holding' = i
          /\ pos' = i + 1
          /\ lastSlot' = Larger(lastSlot, SlotOf(i))
    /\ loop' = "forward"
    /\ UNCHANGED <<endpoint, start, currentSlot, from, forwarded, updates, errs, runVars, out,
                   cancelled, seen, faults>>

MutantForwardUnbounded ==
    /\ loop = "forward"
    /\ updates' = Append(updates, holding)
    /\ forwarded' = forwarded \cup {holding}
    /\ holding' = Nothing
    /\ loop' = "stream"
    /\ UNCHANGED <<endpoint, start, currentSlot, lastSlot, from, pos, errs, runVars, out,
                   cancelled, seen, faults>>

Forward ==
    /\ loop = "forward"
    /\ Len(updates) < UpdateCap
    /\ updates' = Append(updates, holding)
    /\ forwarded' = forwarded \cup {holding}
    /\ holding' = Nothing
    /\ loop' = "stream"
    /\ UNCHANGED <<endpoint, start, currentSlot, lastSlot, from, pos, errs, runVars, out,
                   cancelled, seen, faults>>

MutantGiveUp ==
    /\ loop = "stream"
    /\ endpoint = "down" \/ StreamClosed
    /\ Ended("gone")
    /\ UNCHANGED <<endpoint, start, from, pos, forwarded, updates, errs, runVars, out,
                   cancelled, seen, faults>>

\* stream.Recv returns an error.
RecvFails ==
    /\ loop = "stream"
    /\ endpoint = "down" \/ StreamClosed
    /\ Ended("report")
    /\ UNCHANGED <<endpoint, start, from, pos, forwarded, updates, errs, runVars, out,
                   cancelled, seen, faults>>

\* io.EOF: the loop goes on without an error.
StreamEOF ==
    /\ loop = "stream"
    /\ faults < MaxFaults
    /\ faults' = faults + 1
    /\ Ended("sleep")
    /\ UNCHANGED <<endpoint, start, from, pos, forwarded, updates, errs, runVars, out,
                   cancelled, seen>>

\* errs <- err, in no select.
Report ==
    /\ loop = "report"
    /\ errs = 0
    /\ errs' = 1
    /\ loop' = "sleep"
    /\ UNCHANGED <<endpoint, start, currentSlot, lastSlot, from, pos, holding, forwarded,
                   updates, runVars, out, cancelled, seen, faults>>

\* The backoff has passed.
Awake ==
    /\ loop = "sleep"
    /\ loop' = "subscribe"
    /\ UNCHANGED <<endpoint, start, currentSlot, lastSlot, from, pos, holding, forwarded,
                   updates, errs, runVars, out, cancelled, seen, faults>>

\* c.ctx.Done at the head of a loop, or while the channel is full.
LoopGone ==
    /\ loop \in {"subscribe", "stream", "forward"}
    /\ StreamClosed
    /\ loop' = "gone"
    /\ UNCHANGED <<endpoint, start, currentSlot, lastSlot, from, pos, holding, forwarded,
                   updates, errs, runVars, out, cancelled, seen, faults>>
-----------------------------------------------------------------------------
\* run.

Health(h) == healthy' = h

\* newStream, Connect and Subscribe succeed: both goroutines go on ...
Connect ==
    /\ run = "connect"
    /\ run' = "select"
    /\ loop' = "subscribe"
    /\ Health(TRUE)
    /\ UNCHANGED <<endpoint, start, currentSlot, lastSlot, from, pos, holding, forwarded,
                   updates, errs, handling, outbox, out, cancelled, seen, faults>>

\* ... or one of the first two fails.
ConnectFails ==
    /\ run = "connect"
    /\ run' = "ended"
    /\ UNCHANGED <<endpoint, streamVars, updates, errs, handling, outbox, healthy, out,
                   cancelled, seen, faults>>

MutantIgnoreError ==
    /\ run = "select"
    /\ errs = 1
    /\ errs' = 0
    /\ UNCHANGED <<endpoint, streamVars, updates, runVars, out, cancelled, seen, faults>>

\* The case of errCh.
RunError ==
    /\ run = "select"
    /\ errs = 1
    /\ errs' = 0
    /\ Health(FALSE)
    /\ UNCHANGED <<endpoint, streamVars, updates, run, handling, outbox, out, cancelled, seen,
                   faults>>

\* The case of updateCh.
RunUpdate ==
    /\ run = "select"
    /\ updates # <<>>
    /\ updates' = Tail(updates)
    /\ Health(TRUE)
    /\ handling' = Head(updates)
    /\ outbox' = Outputs(Head(updates))
    /\ run' = IF outbox' = <<>> THEN "select" ELSE "send"
    /\ UNCHANGED <<endpoint, streamVars, errs, out, cancelled, seen, faults>>

MutantSendBlocks ==
    /\ run = "send"
    /\ Len(out) < OutCap
    /\ out' = Append(out, <<handling, Head(outbox)>>)
    /\ outbox' = Tail(outbox)
    /\ run' = IF Len(outbox) = 1 THEN "select" ELSE "send"
    /\ UNCHANGED <<endpoint, streamVars, updates, errs, handling, healthy, cancelled, seen, faults>>

\* sendUpdate, which gives up when the context is cancelled.
RunSend ==
    /\ run = "send"
    /\ \/ /\ Len(out) < OutCap
          /\ out' = Append(out, <<handling, Head(outbox)>>)
       \/ /\ cancelled
          /\ UNCHANGED out
    /\ outbox' = Tail(outbox)
    /\ run' = IF Len(outbox) = 1 THEN "select" ELSE "send"
    /\ UNCHANGED <<endpoint, streamVars, updates, errs, handling, healthy, cancelled, seen, faults>>

MutantStaysHealthy ==
    /\ run = "select"
    /\ cancelled
    /\ run' = "ended"
    /\ UNCHANGED <<endpoint, streamVars, updates, errs, handling, outbox, healthy, out,
                   cancelled, seen, faults>>

\* The case of ctx.Done.
RunDone ==
    /\ run = "select"
    /\ cancelled
    /\ run' = "ended"
    /\ Health(FALSE)
    /\ UNCHANGED <<endpoint, streamVars, updates, errs, handling, outbox, out,
                   cancelled, seen, faults>>
-----------------------------------------------------------------------------
\* The caller and the endpoint.

Read ==
    /\ out # <<>>
    /\ out' = Tail(out)
    /\ seen' = seen \cup {Head(out)}
    /\ UNCHANGED <<endpoint, streamVars, updates, errs, runVars, cancelled, faults>>

Close ==
    /\ ~cancelled
    /\ cancelled' = TRUE
    /\ UNCHANGED <<endpoint, streamVars, updates, errs, runVars, out, seen, faults>>

Outage ==
    /\ endpoint = "up"
    /\ faults < MaxFaults
    /\ faults' = faults + 1
    /\ endpoint' = "down"
    /\ UNCHANGED <<streamVars, updates, errs, runVars, out, cancelled, seen>>

Recover ==
    /\ endpoint = "down"
    /\ endpoint' = "up"
    /\ UNCHANGED <<streamVars, updates, errs, runVars, out, cancelled, seen, faults>>
-----------------------------------------------------------------------------
\* Start.
Init ==
    /\ endpoint = "up"
    /\ start \in StartSlots
    /\ currentSlot = start
    /\ lastSlot = 0
    /\ loop = "off"
    /\ from = 0
    /\ pos = 1
    /\ holding = Nothing
    /\ updates = <<>>
    /\ errs = 0
    /\ run = "connect"
    /\ handling = Nothing
    /\ outbox = <<>>
    /\ healthy = FALSE
    /\ out = <<>>
    /\ cancelled = FALSE
    /\ forwarded = {}
    /\ seen = {}
    /\ faults = 0

Next ==
    \/ Subscribe \/ Recv \/ Forward \/ RecvFails \/ StreamEOF \/ Report \/ Awake \/ LoopGone
    \/ Connect \/ ConnectFails \/ RunError \/ RunUpdate \/ RunSend \/ RunDone
    \/ Read \/ Close \/ Outage \/ Recover

Spec == Init /\ [][Next]_vars

\* The goroutines go on, a connected endpoint sends, and the caller reads
\* until it closes the client.  A select takes each of its cases when that is ready again
\* and again.  An outage need not end.
FairSpec ==
    /\ Spec
    /\ WF_vars(Subscribe) /\ WF_vars(Forward) /\ WF_vars(RecvFails)
    /\ WF_vars(Report) /\ WF_vars(Awake) /\ WF_vars(LoopGone)
    /\ WF_vars(Recv)
    /\ WF_vars(Connect \/ ConnectFails) /\ WF_vars(RunSend)
    /\ SF_vars(RunError) /\ SF_vars(RunUpdate) /\ SF_vars(RunDone)
    /\ WF_vars(Read /\ ~cancelled)
-----------------------------------------------------------------------------
\* Types.
TypeOK ==
    /\ endpoint \in {"up", "down"}
    /\ {start, currentSlot, lastSlot, from} \subseteq Nat
    /\ loop \in {"off", "subscribe", "stream", "forward", "report", "sleep", "gone"}
    /\ pos \in 1..(Len(Feed) + 1)
    /\ {holding, handling} \subseteq Items \cup {Nothing}
    /\ Len(updates) <= UpdateCap
    /\ Len(out) <= OutCap
    /\ errs \in 0..1
    /\ run \in {"connect", "select", "send", "ended"}
    /\ run = "send" <=> outbox # <<>>
    /\ {healthy, cancelled} \subseteq BOOLEAN
    /\ forwarded \subseteq Items
    /\ faults \in 0..MaxFaults

Wanted == {i \in Items : Feed[i].slot >= replaySlot(start)}

\* A subscription leaves out only updates that were forwarded before: the
\* window of subscribeLoop makes up for updates that are late, however often
\* and wherever the stream breaks.
NothingSkipped ==
    loop \in {"stream", "forward"} =>
        \A i \in Wanted : Feed[i].slot < from => i \in forwarded

\* A client that is not running is not reported as healthy.
EndedIsUnhealthy == run = "ended" => ~healthy

\* The client's state: its type with the bounds of its channels, a position from
\* which nothing is skipped, and the health of a client that has ended.
ClientInv ==
    /\ TypeOK
    /\ NothingSkipped
    /\ EndedIsUnhealthy

\* An endpoint that stays down is noticed: updates that were already received
\* set the health again after the error, but the next attempt corrects it.
DownIsNoticed == <>[](endpoint = "down") => <>[](~healthy)

\* Close ends run, also when nobody reads its updates.
CloseEnds == cancelled ~> run = "ended"

\* Every update of the wanted slots reaches the caller while the endpoint is
\* up again and the client is not closed.
EventuallySeen ==
    [](run # "ended" /\ ~cancelled) /\ <>[](endpoint = "up") =>
        <>(\A i \in Wanted : \A k \in 1..Len(Outputs(i)) : <<i, Outputs(i)[k]>> \in seen)
=============================================================================

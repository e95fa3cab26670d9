--------------------------- MODULE ClickHouseSink ---------------------------
(***************************************************************************)
(* The ClickHouse sink: Service.Run and handleMessage                      *)
(* (sinks/clickhouse/service.go), the batching Writer                      *)
(* (sinks/clickhouse/writer.go), and the durable JetStream consumer and    *)
(* the trades table they talk to.                                          *)
(*                                                                         *)
(* A message is named by its sequence number in the stream.  The consumer  *)
(* delivers the messages in stream order, and again those whose            *)
(* acknowledgement did not arrive.  Acknowledgements are sent and not      *)
(* waited for, so one may be lost, and an insert may fail before or after  *)
(* the server stored the rows.  Faults (these, fetch errors, shutdowns and *)
(* crashes) are bounded.  A message that cannot be decoded is no fault:    *)
(* it ends Run every time it is delivered.                                 *)
(***************************************************************************)
EXTENDS Integers, Sequences, FiniteSets

CONSTANTS
    Slots,
    Stream,      \* the messages of the stream, in order
    PullBatch,   \* cfg.PullBatch: most messages of one Fetch
    BatchSize,   \* cfg.Writer.BatchSize
    MaxFaults,   \* bound: how many faults there are
    MaxResets    \* bound: how often the durable consumer is deleted

\* "swap" stands for a swap event, "live" and "dead" for a block head by its
\* status, "bad" for a swap or a head that cannot be decoded and "other" for
\* any other subject (tx.meta).
Kinds == {"swap", "live", "dead", "bad", "other"}

ASSUME SinkAssumption ==
    /\ Stream \in Seq([kind : Kinds, slot : Slots])
    /\ PullBatch \in Nat \ {0}
    /\ BatchSize \in Nat \ {0}
    /\ MaxFaults \in Nat
    /\ MaxResets \in Nat

Messages == 1..Len(Stream)

Swaps == {m \in Messages : Stream[m].kind = "swap"}

VARIABLES
    svc,        \* Run: "running", "exiting" (its deferred calls) or "stopped"
    avail,      \* consumer: the messages ready for delivery
    acked,      \* consumer: the messages acknowledged
    queue,      \* Run: the messages fetched and not handled yet
    batch,      \* Writer.tradesBatch
    slotTimes,  \* processor.slotTimes: the slots whose time is known
    table,      \* how many rows the trades table has for a swap
    durable,    \* the durable consumer: "own" when this process created it,
                \* "found" when it was there, "gone" when it was deleted
    resets,     \* how often it was deleted
    faults,     \* how many faults there were
    drops       \* history: how many processes ended with rows not inserted

vars == <<svc, avail, acked, queue, batch, slotTimes, table, durable, resets, faults, drops>>

consumer == <<durable, resets>>

Fault ==
    /\ faults < MaxFaults
    /\ faults' = faults + 1
-----------------------------------------------------------------------------
\* The writer.

\* A row of the batch: a swap, and whether its slot's time was known.
Row(m) == [swap |-> m, timed |-> Stream[m].slot \in slotTimes]

SwapsIn(rows) == {rows[i].swap : i \in 1..Len(rows)}

Copies(rows, m) == Cardinality({i \in 1..Len(rows) : rows[i].swap = m})

\* client.Do succeeds: the trades table is a plain MergeTree, so every row adds up.
Insert(rows) == table' = [m \in Swaps |-> table[m] + Copies(rows, m)]

MutantResetFirst(rows) ==
    /\ Fault
    /\ batch' = <<>>
    /\ (UNCHANGED table \/ Insert(rows))

MutantKeepBatch(rows) ==
    /\ Insert(rows)
    /\ batch' = rows

\* flushTrades: the batch is reset only when the insert succeeded.
FlushOk(rows) ==
    /\ Insert(rows)
    /\ batch' = <<>>

\* It fails: the server is away, or the context that WriteTrades and Flush
\* were given is cancelled by a shutdown.
FlushFails(rows) ==
    /\ Fault
    /\ batch' = rows
    /\ (UNCHANGED table \/ Insert(rows))
-----------------------------------------------------------------------------
\* The loop of Run.

\* sub.Fetch: the first few of the messages that are ready.
Fetch ==
    /\ svc = "running"
    /\ queue = {}
    /\ \E msgs \in SUBSET avail :
          /\ msgs # {}
          /\ Cardinality(msgs) <= PullBatch
          /\ \A m \in msgs, k \in avail \ msgs : m < k
          /\ queue' = msgs
          /\ avail' = avail \ msgs
    /\ UNCHANGED <<svc, acked, batch, slotTimes, table, consumer, faults, drops>>

MutantAckKeepsQueue(m) ==
    /\ acked' = acked \cup {m}
    /\ UNCHANGED <<svc, avail, queue, consumer, faults, drops>>

\* msg.Ack arrives at the consumer ...
AckArrives(m) ==
    /\ queue' = queue \ {m}
    /\ acked' = acked \cup {m}
    /\ UNCHANGED <<svc, avail, consumer, faults, drops>>

\* ... or is lost, which Run does not notice.
AckLost(m) ==
    /\ Fault
    /\ queue' = queue \ {m}
    /\ UNCHANGED <<svc, avail, acked, consumer, drops>>

Ack(m) == AckArrives(m) \/ AckLost(m)

MutantBatchLater(m) ==
    LET rows == Append(batch, Row(m))
    IN  /\ UNCHANGED slotTimes
        /\ \/ /\ Len(rows) <= BatchSize
              /\ batch' = rows
              /\ UNCHANGED table
              /\ Ack(m)
           \/ /\ Len(rows) > BatchSize
              /\ FlushOk(rows)
              /\ Ack(m)
           \/ /\ Len(rows) > BatchSize
              /\ FlushFails(rows)
              /\ svc' = "exiting"
              /\ avail' = avail \cup {m}
              /\ queue' = {}
              /\ UNCHANGED <<acked, consumer, drops>>

\* handleSwap and WriteTrades, then Ack; or Nak and the end of Run when the
\* full batch cannot be inserted.  What was fetched and not handled is given up.
HandleSwap(m) ==
    LET rows == Append(batch, Row(m))
    IN  /\ UNCHANGED slotTimes
        /\ \/ /\ Len(rows) < BatchSize
              /\ batch' = rows
              /\ UNCHANGED table
              /\ Ack(m)
           \/ /\ Len(rows) >= BatchSize
              /\ FlushOk(rows)
              /\ Ack(m)
           \/ /\ Len(rows) >= BatchSize
              /\ FlushFails(rows)
              /\ svc' = "exiting"
              /\ avail' = avail \cup {m}
              /\ queue' = {}
              /\ UNCHANGED <<acked, consumer, drops>>

MutantKeepTime(m) ==
    /\ slotTimes' = IF Stream[m].kind = "dead" THEN slotTimes
                    ELSE slotTimes \cup {Stream[m].slot}
    /\ Ack(m)
    /\ UNCHANGED <<batch, table>>

\* handleBlockHead, then Ack.
HandleHead(m) ==
    /\ slotTimes' = IF Stream[m].kind = "dead" THEN slotTimes \ {Stream[m].slot}
                    ELSE slotTimes \cup {Stream[m].slot}
    /\ Ack(m)
    /\ UNCHANGED <<batch, table>>

HandleOther(m) ==
    /\ Ack(m)
    /\ UNCHANGED <<batch, slotTimes, table>>

\* proto.Unmarshal fails: Nak, and the end of Run.
HandleBad(m) ==
    /\ svc' = "exiting"
    /\ avail' = avail \cup {m}
    /\ queue' = {}
    /\ UNCHANGED <<acked, batch, slotTimes, table, consumer, faults, drops>>

\* handleMessage, for the messages of a fetch in turn.
Handle(m) ==
    /\ svc = "running"
    /\ \A k \in queue : m <= k
    /\ \/ Stream[m].kind = "swap" /\ HandleSwap(m)
       \/ Stream[m].kind \in {"live", "dead"} /\ HandleHead(m)
       \/ Stream[m].kind = "bad" /\ HandleBad(m)
       \/ Stream[m].kind = "other" /\ HandleOther(m)

\* The flush ticker, looked at only between two fetches.
Tick ==
    /\ svc = "running"
    /\ queue = {}
    /\ batch # <<>>
    /\ \/ FlushOk(batch) /\ UNCHANGED <<svc, faults>>
       \/ FlushFails(batch) /\ svc' = "exiting"
    /\ UNCHANGED <<avail, acked, queue, slotTimes, consumer, drops>>

\* ctx is cancelled, or Fetch returns an error that is not a timeout.
Leave ==
    /\ svc = "running"
    /\ queue = {}
    /\ Fault
    /\ svc' = "exiting"
    /\ UNCHANGED <<avail, acked, queue, batch, slotTimes, table, consumer, drops>>

\* conn.Drain, the last deferred call, unsubscribes while the process ends: a
\* durable that this process created may be deleted, and what it knew of
\* acknowledgements with it.
Drain ==
    \/ UNCHANGED <<avail, acked, consumer>>
    \/ /\ durable = "own"
       /\ resets < MaxResets
       /\ durable' = "gone"
       /\ resets' = resets + 1
       /\ avail' = Messages
       /\ acked' = {}

MutantNoDeferredFlush ==
    /\ svc = "exiting"
    /\ batch' = <<>>
    /\ Drain
    /\ svc' = "stopped"
    /\ UNCHANGED <<queue, slotTimes, table, faults, drops>>

\* Run's deferred calls: Flush, whose error is ignored, and Drain; then the
\* process ends.
Exit ==
    /\ svc = "exiting"
    /\ \/ FlushOk(batch) /\ UNCHANGED <<faults, drops>>
       \/ /\ batch # <<>>
          /\ Fault
          /\ drops' = drops + 1
          /\ batch' = <<>>
          /\ (UNCHANGED table \/ Insert(batch))
    /\ Drain
    /\ svc' = "stopped"
    /\ UNCHANGED <<queue, slotTimes>>

\* The process dies at any point.
Crash ==
    /\ svc # "stopped"
    /\ Fault
    /\ svc' = "stopped"
    /\ queue' = {}
    /\ batch' = <<>>
    /\ drops' = IF batch = <<>> THEN drops ELSE drops + 1
    /\ UNCHANGED <<avail, acked, slotTimes, table, consumer>>

\* The process is started again: NewService, with an empty processor.
\* PullSubscribe binds to the durable, or creates it.
Restart ==
    /\ svc = "stopped"
    /\ svc' = "running"
    /\ slotTimes' = {}
    /\ durable' = IF durable = "gone" THEN "own" ELSE "found"
    /\ UNCHANGED <<avail, acked, queue, batch, table, resets, faults, drops>>

\* The consumer's AckWait is over for a message that it delivered and whose
\* acknowledgement is not going to come.
Redeliver(m) ==
    /\ m \notin avail \cup acked \cup queue
    /\ avail' = avail \cup {m}
    /\ UNCHANGED <<svc, acked, queue, batch, slotTimes, table, consumer, faults, drops>>

Init ==
    /\ svc = "running"
    /\ avail = Messages
    /\ acked = {}
    /\ queue = {}
    /\ batch = <<>>
    /\ slotTimes = {}
    /\ table = [m \in Swaps |-> 0]
    /\ durable \in {"own", "found"}
    /\ resets = 0
    /\ faults = 0
    /\ drops = 0

Next ==
    \/ Fetch
    \/ \E m \in queue : Handle(m)
    \/ Tick
    \/ Leave
    \/ Exit
    \/ Crash
    \/ Restart
    \/ \E m \in Messages : Redeliver(m)

Spec == Init /\ [][Next]_vars

\* The loop keeps running, a stopped process is restarted by its supervisor and
\* the consumer redelivers what was not acknowledged.
Fairness ==
    /\ WF_vars(Fetch)
    /\ WF_vars(\E m \in queue : Handle(m))
    /\ WF_vars(Tick)
    /\ WF_vars(Exit)
    /\ WF_vars(Restart)
    /\ \A m \in Messages : WF_vars(Redeliver(m))

FairSpec == Spec /\ Fairness
-----------------------------------------------------------------------------
\* Properties.

\* The state has its type; the consumer holds a message as ready, delivered or
\* acknowledged, never two of them.
TypeOK ==
    /\ svc \in {"running", "exiting", "stopped"}
    /\ avail \subseteq Messages
    /\ acked \subseteq Messages \ avail
    /\ queue \subseteq Messages \ (avail \cup acked)
    /\ batch \in Seq([swap : Swaps, timed : BOOLEAN])
    /\ slotTimes \subseteq Slots
    /\ table \in [Swaps -> Nat]
    /\ durable \in {"own", "found", "gone"}
    /\ resets \in 0..MaxResets
    /\ faults \in 0..MaxFaults
    /\ drops \in 0..faults

\* Memory stays bounded: the batch never outgrows BatchSize, and it reaches it
\* only on the way out of Run, with an insert that failed (WriteTrades).
BatchBounded ==
    /\ Len(batch) <= BatchSize
    /\ svc = "running" => Len(batch) < BatchSize

\* The swaps that were acknowledged and are nowhere: not in the table, and in
\* no batch that may still be inserted.
Lost == {m \in Swaps \cap acked : table[m] = 0 /\ m \notin SwapsIn(batch)}

\* What is lost at most: acknowledgements run ahead of the table by what the
\* batch holds, so a process that dies, or whose last insert fails, takes less
\* than a full batch of acknowledged swaps with it, and nothing else loses
\* any: not the failed inserts before, nor redeliveries, nor a new consumer.
LossBounded == Cardinality(Lost) <= (BatchSize - 1) * drops

\* A message before this one, or this one, cannot be decoded.
Poisoned(m) == \E b \in 1..m : Stream[b].kind = "bad"

\* Every swap of the stream before a message that cannot be decoded becomes a
\* row, or is lost with a process as above: failed inserts, restarts and
\* redeliveries do not stop the sink, and a batch that does not fill is written
\* by the flush ticker, or by the deferred Flush of a Run that such a message
\* ends.  The swaps after it may wait for ever.
EventuallyStored ==
    \A m \in Swaps : Poisoned(m) \/ <>(table[m] > 0 \/ (m \in Lost /\ drops > 0))

\* A swap is counted more than once only after a fault or when the durable was
\* deleted.  A fault adds at most two rows: the one of an insert that failed
\* after the server stored it, which the deferred Flush repeats, and the one
\* of the message that was given back with it (or whose acknowledgement was
\* lost); a new durable delivers the stream once more.
CopiesNeedFaults ==
    \A m \in Swaps : table[m] + Copies(batch, m) <= 1 + 2 * faults + resets

\* docs-archive/SPEC.md: "Exactly-once downstream via (slot, sig, index) keys";
\* docs-archive/ACCEPTANCE.md: "idempotent upserts [...] and no duplicates";
\* sinks/clickhouse/service.mdx: "messages are only acked after successful
\* decoding + persistence".  A swap that was acknowledged, and does not wait in
\* the batch, is one row of the table.
ExactlyOnce ==
    \A m \in Swaps \cap acked : m \notin SwapsIn(batch) => table[m] = 1

\* While nothing fails, a row has a time exactly when the last head of its slot
\* before it in the stream is a live one: a dead head takes the time of its
\* slot away, and fetches and batches do not reorder heads and swaps.
TimedByStreamOrder ==
    faults = 0 =>
        \A i \in 1..Len(batch) :
            LET m == batch[i].swap
                heads == {h \in 1..m : /\ Stream[h].kind \in {"live", "dead"}
                                      /\ Stream[h].slot = Stream[m].slot}
            IN  batch[i].timed <=>
                    \E h \in heads : Stream[h].kind = "live" /\ \A k \in heads : k <= h

\* The sink's state: its type, the bound of the batch and the time of the rows
\* in it, as WriteTrades and handleBlockHead leave them.
SinkInv ==
    /\ TypeOK
    /\ BatchBounded
    /\ TimedByStreamOrder
=============================================================================

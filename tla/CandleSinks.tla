---------------------------- MODULE CandleSinks ----------------------------
(***************************************************************************)
(* The two programs that store candles: the Parquet sink (Service.Run of   *)
(* sinks/parquet/service.go) and the candle materializer (main and Process *)
(* of cmd/candles/main.go), with the Parquet writer both use               *)
(* (sinks/parquet/writer.go), the candle batch of the ClickHouse writer    *)
(* (sinks/clickhouse/writer.go) and a durable JetStream consumer.          *)
(*                                                                         *)
(* A behaviour is about one of the programs and one stream.  A message is  *)
(* named by its sequence number; memory and stores count the copies of a   *)
(* message's row.  Inserts and uploads may fail before or after the server *)
(* stored the rows, acknowledgements may be lost, and a shutdown may come  *)
(* at any time: all of them are bounded.  The materializer is the one that *)
(* was given a Parquet bucket.                                             *)
(***************************************************************************)
EXTENDS Integers, Sequences, FiniteSets, FiniteSetsExt

CONSTANTS
    Buckets,    \* the bucket keys (timeframe and scope) of the Parquet writer
    Bad,        \* a message that cannot be decoded
    Streams,    \* what a stream may hold: a set of sequences of Buckets and Bad
    PullBatch,  \* most messages of one Fetch
    BatchSize,  \* BatchSize of the ClickHouse writer
    BatchRows,  \* BatchRows of the Parquet writer
    MaxStops,   \* bound: how many shutdowns there are
    MaxFaults,  \* bound: how many faults there are
    MaxResets   \* bound: how often the durable consumer is deleted

ASSUME CandleSinksAssumption ==
    /\ Bad \notin Buckets
    /\ \A s \in Streams : s \in Seq(Buckets \cup {Bad})
    /\ {PullBatch, BatchSize, BatchRows} \subseteq Nat \ {0}
    /\ {MaxStops, MaxFaults, MaxResets} \subseteq Nat

VARIABLES
    prog,     \* the program: "parquet" or "candles"
    stream,   \* the messages of its stream
    phase,    \* where it is: "fetch", "insert" (WriteCandles), "append"
              \* (AppendCandle), "ack", "exit" (deferred calls), "end" or "down"
    fetched,  \* Process: the decoded messages of this call
    todo,     \* the messages the current phase has left
    acking,   \* the messages to acknowledge before the next
    avail,    \* consumer: the messages ready for delivery
    acked,    \* consumer: the messages acknowledged
    batch,    \* Writer.candlesBatch (ClickHouse)
    rows,     \* Writer.buckets (Parquet); a row's bucket is its message's
    table,    \* the rows ClickHouse has
    objects,  \* the rows uploaded
    durable,  \* the durable consumer: "own" when this process created it,
              \* "found" when it was there, "gone" when it was deleted
    resets,   \* how often it was deleted
    stops,    \* how many shutdowns there were
    cuts,     \* how many of them cancelled the context of a write
    faults,   \* how many faults there were
    drops     \* history: how many processes ended with rows in memory

consumer == <<avail, acked, durable, resets>>
work     == <<fetched, todo, acking>>
memory   == <<batch, rows>>
stores   == <<table, objects>>
counters == <<stops, cuts, faults>>
vars     == <<prog, stream, phase, work, consumer, memory, stores, counters, drops>>

Messages == 1..Len(stream)

Candles == {m \in Messages : stream[m] # Bad}

Fault ==
    /\ faults < MaxFaults
    /\ faults' = faults + 1
    /\ UNCHANGED <<stops, cuts>>

\* The shutdown cancels ctx while it is in use by a write.
Cut ==
    /\ stops < MaxStops
    /\ stops' = stops + 1
    /\ cuts' = cuts + 1
    /\ UNCHANGED faults

\* A write failed, and the program goes on at phase then; with its ctx
\* cancelled it leaves its loop.
WriteFailed(then) ==
    \/ Fault /\ phase' = then
    \/ Cut /\ phase' = "exit"

NoRows == [m \in Messages |-> 0]

Plus(f, g) == [m \in Messages |-> f[m] + g[m]]

OneMore(f, m) == [f EXCEPT ![m] = @ + 1]

Only(f, S) == [m \in Messages |-> IF m \in S THEN f[m] ELSE 0]

Total(f, S) == MapThenSumSet(LAMBDA m : f[m], S)

In(b) == {m \in Messages : stream[m] = b}

\* nakAll, or the Nak of one message.
Nak(msgs) == avail' = avail \cup msgs

Idle ==
    /\ fetched' = {}
    /\ todo' = {}
    /\ acking' = {}
-----------------------------------------------------------------------------
\* The Parquet writer.  new is the buckets' content, with the appended row.

MutantClearAllOnError(new) ==
    /\ \E up \in SUBSET {b \in Buckets : Total(new, In(b)) > 0} :
          /\ objects' = Plus(objects, Only(new, UNION {In(b) : b \in up}))
          /\ rows' = NoRows

FlushOk(new) ==
    /\ objects' = Plus(objects, new)
    /\ rows' = NoRows

\* flushLocked uploads bucket after bucket, in any order: those before the
\* failing one are uploaded and emptied, the failing one may be uploaded too.
FlushFails(new) ==
    \E up \in SUBSET Buckets, b \in Buckets :
        LET done == UNION {In(c) : c \in up}
        IN  /\ b \notin up
            /\ Total(new, In(b)) > 0
            /\ rows' = Only(new, Messages \ done)
            /\ \/ objects' = Plus(objects, Only(new, done))
               \/ objects' = Plus(objects, Only(new, done \cup In(b)))

Full(new, m) == Total(new, In(stream[m])) >= BatchRows

MutantFlushOnIntervalOnly(m) ==
    LET new == OneMore(rows, m)
    IN  \/ /\ rows' = new
           /\ UNCHANGED objects
        \/ FlushOk(new)

\* AppendCandle succeeds: the buckets are flushed when this one is full, and
\* also when the interval has passed since the last flush.
AppendOk(m) ==
    LET new == OneMore(rows, m)
    IN  \/ /\ ~Full(new, m)
           /\ rows' = new
           /\ UNCHANGED objects
        \/ FlushOk(new)

AppendFails(m) == FlushFails(OneMore(rows, m))
-----------------------------------------------------------------------------
\* The candle batch of the ClickHouse writer.

MutantNeverReset(new) ==
    /\ table' = Plus(table, new)
    /\ batch' = new

\* flushCandles: the batch is reset only when the insert succeeded.
InsertOk(new) ==
    /\ table' = Plus(table, new)
    /\ batch' = NoRows

InsertFails(new) ==
    /\ batch' = new
    /\ UNCHANGED table \/ table' = Plus(table, new)
-----------------------------------------------------------------------------
\* The messages of a fetch: the first of those that are ready.
Fetchable(msgs) ==
    /\ msgs # {}
    /\ Cardinality(msgs) <= PullBatch
    /\ \A m \in msgs, k \in avail \ msgs : m < k

\* The Parquet sink.

FetchParquet ==
    /\ prog = "parquet"
    /\ phase = "fetch"
    /\ \E msgs \in SUBSET avail :
          /\ Fetchable(msgs)
          /\ todo' = msgs
          /\ avail' = avail \ msgs
    /\ phase' = "append"
    /\ UNCHANGED <<prog, stream, fetched, acking, acked, durable, resets, memory, stores, counters, drops>>

FetchFails ==
    /\ prog = "parquet"
    /\ phase = "fetch"
    /\ Fault
    /\ phase' = "exit"
    /\ UNCHANGED <<prog, stream, work, consumer, memory, stores, drops>>

\* handleMessage cannot decode the message: it is given back, and Run ends.
HandleBad ==
    /\ prog = "parquet"
    /\ phase = "append"
    /\ stream[Min(todo)] = Bad
    /\ Nak({Min(todo)})
    /\ Idle
    /\ phase' = "exit"
    /\ UNCHANGED <<prog, stream, acked, durable, resets, memory, stores, counters, drops>>

HandleCandle ==
    LET m == Min(todo)
    IN  /\ prog = "parquet"
        /\ phase = "append"
        /\ stream[m] # Bad
        /\ UNCHANGED <<prog, stream, acked, durable, resets, batch, table, drops>>
        /\ \/ /\ AppendOk(m)
              /\ phase' = "ack"
              /\ acking' = {m}
              /\ todo' = todo \ {m}
              /\ UNCHANGED <<fetched, avail, counters>>
           \/ /\ AppendFails(m)
              /\ Nak({m})
              /\ Idle
              /\ WriteFailed("exit")


\* The case of flushTick.
Tick ==
    /\ prog = "parquet"
    /\ phase = "fetch"
    /\ rows # NoRows
    /\ \/ FlushOk(rows) /\ UNCHANGED <<phase, counters>>
       \/ FlushFails(rows) /\ WriteFailed("exit")
    /\ UNCHANGED <<prog, stream, work, consumer, batch, table, drops>>
-----------------------------------------------------------------------------
\* The candle materializer.

MutantKeepBad ==
    /\ prog = "candles"
    /\ phase = "fetch"
    /\ \E msgs \in SUBSET avail :
          /\ Fetchable(msgs)
          /\ fetched' = msgs
          /\ todo' = msgs
          /\ avail' = avail \ msgs
    /\ phase' = "insert"
    /\ UNCHANGED <<prog, stream, acking, acked, durable, resets, memory, stores, counters, drops>>

MutantBadSpoilsBatch ==
    /\ prog = "candles"
    /\ phase = "fetch"
    /\ \E msgs \in SUBSET avail :
          /\ Fetchable(msgs)
          /\ msgs \subseteq Candles
          /\ fetched' = msgs
          /\ todo' = msgs
          /\ avail' = avail \ msgs
    /\ phase' = "insert"
    /\ UNCHANGED <<prog, stream, acking, acked, durable, resets, memory, stores, counters, drops>>

\* Fetch, and the loop of Process that gives back what cannot be decoded.  A
\* fetch that fails is tried again and changes nothing.
FetchCandles ==
    /\ prog = "candles"
    /\ phase = "fetch"
    /\ \E msgs \in SUBSET avail :
          /\ Fetchable(msgs)
          /\ fetched' = msgs \cap Candles
          /\ todo' = fetched'
          /\ avail' = (avail \ msgs) \cup (msgs \ Candles)
    /\ phase' = IF fetched' = {} THEN "fetch" ELSE "insert"
    /\ UNCHANGED <<prog, stream, acking, acked, durable, resets, memory, stores, counters, drops>>

\* A row went through this phase of Process.
Advance(m, then) ==
    /\ todo' = IF todo = {m} /\ then = "append" THEN fetched ELSE todo \ {m}
    /\ phase' = IF todo = {m} THEN then ELSE phase
    /\ acking' = IF todo = {m} /\ then = "ack" THEN fetched ELSE {}
    /\ UNCHANGED <<fetched, avail, counters>>

\* A write failed: Process gives back every decoded message and returns.
Abandon ==
    /\ Nak(fetched)
    /\ Idle
    /\ WriteFailed("fetch")

\* WriteCandles: one candle.
WriteCandle ==
    LET m   == Min(todo)
        new == OneMore(batch, m)
    IN  /\ prog = "candles"
        /\ phase = "insert"
        /\ UNCHANGED <<prog, stream, acked, durable, resets, rows, objects, drops>>
        /\ \/ /\ Total(new, Messages) < BatchSize
              /\ batch' = new
              /\ UNCHANGED table
              /\ Advance(m, "append")
           \/ /\ Total(new, Messages) >= BatchSize
              /\ InsertOk(new)
              /\ Advance(m, "append")
           \/ /\ Total(new, Messages) >= BatchSize
              /\ InsertFails(new)
              /\ Abandon

\* The loop of Process over parquetRows.
AppendRow ==
    LET m == Min(todo)
    IN  /\ prog = "candles"
        /\ phase = "append"
        /\ UNCHANGED <<prog, stream, acked, durable, resets, batch, table, drops>>
        /\ \/ AppendOk(m) /\ Advance(m, "ack")
           \/ AppendFails(m) /\ Abandon
-----------------------------------------------------------------------------
\* Both programs.

\* msg.Ack, which is sent and not waited for, so it may be lost.
Ack ==
    LET m == Min(acking)
    IN  /\ phase = "ack"
        /\ \/ acked' = acked \cup {m} /\ UNCHANGED counters
           \/ Fault /\ UNCHANGED acked
        /\ acking' = acking \ {m}
        /\ phase' = IF acking # {m} THEN "ack" ELSE IF todo = {} THEN "fetch" ELSE "append"
        /\ fetched' = IF acking # {m} THEN fetched ELSE {}
        /\ UNCHANGED <<prog, stream, todo, avail, durable, resets, memory, stores, drops>>

\* ctx.Done at the head of the loop.
Stop ==
    /\ phase = "fetch"
    /\ stops < MaxStops
    /\ stops' = stops + 1
    /\ phase' = "exit"
    /\ UNCHANGED <<prog, stream, work, consumer, memory, stores, cuts, faults, drops>>

MutantNoClose ==
    /\ phase = "exit"
    /\ phase' = "end"
    /\ UNCHANGED <<prog, stream, work, consumer, memory, stores, counters, drops>>

\* The deferred Close of the Parquet writer, which is given a context of its
\* own.  Nothing flushes the candle batch.
Close ==
    /\ phase = "exit"
    /\ \/ FlushOk(rows) /\ UNCHANGED counters
       \/ FlushFails(rows) /\ Fault
    /\ phase' = "end"
    /\ UNCHANGED <<prog, stream, work, consumer, batch, table, drops>>

\* The process is gone, with what it had in memory.
Down ==
    /\ phase' = "down"
    /\ Idle
    /\ drops' = IF batch = NoRows /\ rows = NoRows THEN drops ELSE drops + 1
    /\ batch' = NoRows
    /\ rows' = NoRows
    /\ UNCHANGED <<prog, stream, stores>>

\* conn.Drain, the last deferred call, unsubscribes while the process ends: a
\* durable that this process created may be deleted, and what it knew of
\* acknowledgements with it.
Drain ==
    \/ UNCHANGED consumer
    \/ /\ durable = "own"
       /\ resets < MaxResets
       /\ durable' = "gone"
       /\ resets' = resets + 1
       /\ avail' = Messages
       /\ acked' = {}

End ==
    /\ phase = "end"
    /\ Drain
    /\ Down
    /\ UNCHANGED counters

Crash ==
    /\ phase # "down"
    /\ Fault
    /\ Down
    /\ UNCHANGED consumer

\* The supervisor starts the program again: PullSubscribe binds to the durable,
\* or creates it.
Restart ==
    /\ phase = "down"
    /\ phase' = "fetch"
    /\ durable' = IF durable = "gone" THEN "own" ELSE "found"
    /\ UNCHANGED <<prog, stream, work, avail, acked, resets, memory, stores, counters, drops>>

\* The consumer delivers again what was not acknowledged in time.
Redeliver ==
    /\ \E m \in Messages \ (avail \cup acked \cup fetched \cup todo \cup acking) :
          avail' = avail \cup {m}
    /\ UNCHANGED <<prog, stream, phase, work, acked, durable, resets, memory, stores, counters, drops>>
-----------------------------------------------------------------------------
Init ==
    /\ prog \in {"parquet", "candles"}
    /\ stream \in Streams
    /\ phase = "fetch"
    /\ fetched = {} /\ todo = {} /\ acking = {}
    /\ avail = Messages
    /\ acked = {}
    /\ batch = NoRows /\ rows = NoRows
    /\ table = NoRows /\ objects = NoRows
    /\ durable \in {"own", "found"}
    /\ resets = 0 /\ stops = 0 /\ cuts = 0 /\ faults = 0 /\ drops = 0

Work == HandleBad \/ HandleCandle \/ FetchCandles \/ WriteCandle \/ AppendRow \/ Ack \/ Close \/ End

Next ==
    \/ Work
    \/ FetchParquet
    \/ FetchFails
    \/ Tick
    \/ Stop
    \/ Crash
    \/ Restart
    \/ Redeliver

Spec == Init /\ [][Next]_vars

\* The loops and the ticker go on, an ended program is started again, and
\* what was not acknowledged comes again.  No fault has to happen.
FairSpec ==
    /\ Spec
    /\ WF_vars(Work) /\ WF_vars(FetchParquet) /\ WF_vars(Tick /\ UNCHANGED counters)
    /\ WF_vars(Restart) /\ WF_vars(Redeliver)
-----------------------------------------------------------------------------
\* Types, and what each phase has to work on.
TypeOK ==
    /\ phase \in {"fetch", "insert", "append", "ack", "exit", "end", "down"}
    /\ fetched \subseteq Candles
    /\ todo \cup acking \cup avail \cup acked \subseteq Messages
    /\ phase \in {"insert", "append"} => todo # {}
    /\ phase = "ack" => acking # {}
    /\ {batch, rows, table, objects} \subseteq [Messages -> Nat]
    /\ durable \in {"own", "found", "gone"}
    /\ resets \in 0..MaxResets
    /\ stops \in 0..MaxStops
    /\ cuts \in 0..stops
    /\ faults \in 0..MaxFaults
    /\ drops \in Nat

\* The messages that were acknowledged and have no row, neither in a store nor
\* in the memory that goes there.
Lost(store, held) == {m \in acked : store[m] + held[m] = 0}

\* What is lost at most: Process and handleMessage acknowledge a candle when
\* its rows are stored or in memory, so a process that ends takes less than a
\* full candle batch and less than a full bucket of acknowledged candles with
\* it, and nothing else loses any: not the failed writes before, however much
\* they left in memory, nor redeliveries, nor a new consumer.
LossBounded ==
    /\ prog = "candles" => Cardinality(Lost(table, batch)) <= (BatchSize - 1) * drops
    /\ \A b \in Buckets : Cardinality(Lost(objects, rows) \cap In(b)) <= (BatchRows - 1) * drops

\* While there is no fault a candle has a second row only because of a shutdown
\* in the middle of a batch, which adds at most two (the upload that was
\* cancelled and yet stored, the row that Close uploads, and that of the
\* message given back), or of a new durable.  Messages that cannot be decoded,
\* shutdowns between two batches and restarts repeat nothing.
DuplicatesBounded ==
    faults = 0 => \A m \in Messages :
                      /\ table[m] + batch[m] <= 1 + 2 * cuts + resets
                      /\ objects[m] + rows[m] <= 1 + 2 * cuts + resets

\* A program that ends without a fault has uploaded every row it held, also
\* when a message it cannot decode or a cancelled upload ends it (the deferred
\* Close).
CleanExitUploads == faults = 0 => Lost(objects, rows) = {}

\* While inserts fail Process goes on and appends redelivered rows to the
\* batch, one for every failure; the buckets grow in the same way.
MemoryBounded ==
    /\ Total(batch, Messages) <= BatchSize - 1 + faults + cuts
    /\ \A b \in Buckets : Total(rows, In(b)) <= BatchRows - 1 + faults + cuts

\* The state of the two programs: its type, the uploads of a program that ended
\* without a fault, and the bounds of what the writers hold.
SinksInv ==
    /\ TypeOK
    /\ CleanExitUploads
    /\ MemoryBounded

\* Process gives back what it cannot decode and goes on with the rest, so
\* every candle is acknowledged in the end, unless such messages fill every
\* fetch; the Parquet sink ends instead, and does so only for a stream without
\* such a message.
EventuallyAcked ==
    LET bad == Messages \ Candles
    IN  (prog = "candles" /\ Cardinality(bad) < PullBatch) \/ bad = {}
            => <>(Candles \subseteq acked)

\* The Parquet sink uploads every candle, or loses it as above.
EventuallyUploaded ==
    prog = "parquet" /\ Candles = Messages
        => <>[](\A m \in Messages : objects[m] > 0 \/ m \in Lost(objects, rows))

=============================================================================

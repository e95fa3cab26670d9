------------------------- MODULE CandleWorkerProofs -------------------------
(***************************************************************************)
(* The candle worker counts each accepted trade once in a candle of every  *)
(* window size, and its candles are exact: for any callers, shards, pairs  *)
(* and windows, however their threads interleave.                          *)
(***************************************************************************)
EXTENDS CandleWorker, SequenceTheorems, FiniteSetTheorems, TLAPS

CandleType ==
    [pair : Pairs, size : WindowSizes, open_time : Nat, close_time : Nat,
     open : Int, high : Int, low : Int, close : Int, trades : Seq(Trades)]

\* The candles are records of windows, and an emitted one is not open any more.
Windows ==
    /\ AllCandles \subseteq CandleType
    /\ \A c \in AllCandles : c.close_time = c.open_time + c.size
    /\ candles \cap emitted = {}
    /\ watermark <= now

\* A thread that works on a trade has it, and only such a thread has windows
\* left; a worker that can be started has no threads.
Threads ==
    /\ calling \in [Callers -> Seq(Trades)]
    /\ hand \in [Shards -> Seq(Trades)]
    /\ \A s \in Shards : /\ pc[s] \in {"get", "update"} => hand[s] # <<>>
                         /\ pc[s] # "update" => todo[s] = {}
    /\ ctrl = "idle" /\ ~running => \A s \in Shards : pc[s] = "exited"

\* A trade is with one caller, at one place of one queue, with one thread or in
\* one candle, or not.
InHand(s, t, size) == hand[s] = <<t>> /\ (pc[s] = "get" \/ size \in todo[s])

InCandle(c, t, size) == c.size = size /\ t \in SeqRange(c.trades)

NoCaller(t) == \A p \in Callers : calling[p] # <<t>>

NoQueue(t) == \A s \in Shards : \A i \in 1..Len(queue[s]) : queue[s][i] # t

NoHand(t, size) == \A s \in Shards : ~InHand(s, t, size)

NoCandle(t, size) == \A c \in AllCandles : ~InCandle(c, t, size)

OneCaller(t) ==
    \E p \in Callers : calling[p] = <<t>> /\ \A q \in Callers : calling[q] = <<t>> => q = p

OneQueue(t) ==
    \E s \in Shards : \E i \in 1..Len(queue[s]) :
        /\ queue[s][i] = t
        /\ \A r \in Shards : \A j \in 1..Len(queue[r]) : queue[r][j] = t => r = s /\ j = i

OneHand(t, size) ==
    \E s \in Shards : InHand(s, t, size) /\ \A r \in Shards : InHand(r, t, size) => r = s

OneCandle(t, size) ==
    \E c \in AllCandles : InCandle(c, t, size) /\ \A d \in AllCandles : InCandle(d, t, size) => d = c

\* An accepted trade is in one place, another one in none.
Somewhere(t, size) ==
    \/ OneCaller(t) /\ NoQueue(t) /\ NoHand(t, size) /\ NoCandle(t, size)
    \/ NoCaller(t) /\ OneQueue(t) /\ NoHand(t, size) /\ NoCandle(t, size)
    \/ NoCaller(t) /\ NoQueue(t) /\ OneHand(t, size) /\ NoCandle(t, size)
    \/ NoCaller(t) /\ NoQueue(t) /\ NoHand(t, size) /\ OneCandle(t, size)

Nowhere(t, size) == NoCaller(t) /\ NoQueue(t) /\ NoHand(t, size) /\ NoCandle(t, size)

Located ==
    \A t \in Trades, size \in WindowSizes :
        IF t \in sent THEN Somewhere(t, size) ELSE Nowhere(t, size)

\* The inductive invariant.
CandleWorkerInv ==
    /\ WorkerInv
    /\ Windows
    /\ Threads
    /\ Located
-----------------------------------------------------------------------------
\* A trade of the input, and the shard of its pair.
LEMMA TradeFacts ==
    ASSUME NEW t \in Trades
    PROVE  t.pair \in Pairs /\ t.ts \in Nat /\ t.price \in Int /\ ShardOf[t.pair] \in Shards
  BY CandleWorkerAssumption

\* A time lies in the window that starts at its window's start.
LEMMA WindowStart ==
    ASSUME NEW ts \in Nat, NEW size \in WindowSizes
    PROVE  /\ get_window_start(ts, size) \in Nat
           /\ get_window_start(ts, size) <= ts
           /\ ts < get_window_start(ts, size) + size
           /\ size \in Nat
  <1>1. size \in Nat /\ size > 0
    BY CandleWorkerAssumption
  <1>2. PICK q \in Nat, r \in Nat : ts \div size = q /\ ts = q * size + r /\ r < size
    BY <1>1
  <1>3. q * size \in Nat
    BY <1>1
  <1>4. QED
    BY <1>1, <1>2, <1>3 DEF get_window_start

\* A sequence of one trade says which.
LEMMA OneTrade ==
    ASSUME NEW t, NEW u
    PROVE  /\ <<t>> = <<u>> => t = u
           /\ <<t>> # <<>>
           /\ <<t>>[1] = t
  OBVIOUS

\* The places stay the same when the trades stay where they are.
LEMMA PlacesKept ==
    ASSUME Located, sent' = sent, calling' = calling, queue' = queue, AllCandles' = AllCandles,
           \A s \in Shards, t \in Trades, size \in WindowSizes :
               InHand(s, t, size)' <=> InHand(s, t, size)
    PROVE  Located'
  <1> SUFFICES ASSUME NEW t \in Trades, NEW size \in WindowSizes
               PROVE  IF t \in sent THEN Somewhere(t, size)' ELSE Nowhere(t, size)'
    BY DEF Located
  <1>1. (NoCaller(t)' <=> NoCaller(t)) /\ (OneCaller(t)' <=> OneCaller(t))
    BY DEF NoCaller, OneCaller
  <1>2. (NoQueue(t)' <=> NoQueue(t)) /\ (OneQueue(t)' <=> OneQueue(t))
    BY DEF NoQueue, OneQueue
  <1>3. (NoHand(t, size)' <=> NoHand(t, size)) /\ (OneHand(t, size)' <=> OneHand(t, size))
    BY DEF NoHand, OneHand
  <1>4. (NoCandle(t, size)' <=> NoCandle(t, size)) /\ (OneCandle(t, size)' <=> OneCandle(t, size))
    BY DEF NoCandle, OneCandle, InCandle
  <1>5. IF t \in sent THEN Somewhere(t, size) ELSE Nowhere(t, size)
    BY DEF Located
  <1>6. QED
    BY <1>1, <1>2, <1>3, <1>4, <1>5 DEF Somewhere, Nowhere

\* Candles stay exact while none is added, none newly emitted, and time goes on.
LEMMA CandlesKept ==
    ASSUME WorkerInv, Windows, candles' = candles, emitted' = emitted, now' \in Nat, now' >= now,
           watermark' <= now'
    PROVE  CandleExact' /\ Windows' /\ AllCandles' = AllCandles
  <1>1. AllCandles' = AllCandles
    BY DEF AllCandles
  <1>2. \A c \in emitted : c.close_time <= now'
    <2>1. \A c \in emitted : c.close_time \in Nat /\ c.close_time <= now /\ now \in Nat
      BY CandleWorkerAssumption DEF WorkerInv, TypeOK, CandleExact, Windows, AllCandles, CandleType
    <2>2. QED
      BY <2>1
  <1>3. QED
    BY <1>1, <1>2 DEF CandleExact, Windows, WorkerInv
-----------------------------------------------------------------------------
\* The steps that move no trade.

\* The finalizer between two windows, the controller and the clock.
LEMMA FinalizerStep ==
    ASSUME CandleWorkerInv, FinLoop \/ FinWake \/ FinShard \/ StopBegin \/ StopJoinFinalizer
                                    \/ StopReturn \/ Advance
    PROVE  CandleWorkerInv'
  <1> USE DEF CandleWorkerInv, WorkerInv
  <1>1. UNCHANGED <<callVars, shardVars, windowVars, emitted, starts>>
    BY DEF FinLoop, FinWake, FinShard, StopBegin, StopJoinFinalizer, StopReturn, Advance,
           ctrlVars, finVars
  <1>2. /\ sent' = sent /\ calling' = calling /\ queue' = queue /\ pc' = pc /\ hand' = hand
        /\ todo' = todo /\ created' = created /\ candles' = candles /\ lastTrade' = lastTrade
        /\ emitted' = emitted /\ starts' = starts
    BY <1>1 DEF callVars, shardVars, windowVars
  <1>3. /\ fin' \in {"none", "loop", "sleep", "next", "pass", "done"}
        /\ ctrl' \in {"idle", "joinFinalizer", "notify", "joinShards"}
        /\ running' \in BOOLEAN /\ notified' \subseteq Shards /\ finShards' \subseteq Shards
    BY DEF FinLoop, FinWake, FinShard, StopBegin, StopJoinFinalizer, StopReturn, Advance,
           ctrlVars, finVars, TypeOK
  <1>4. finTodo' \subseteq [shard : Shards, pair : Pairs, size : WindowSizes]
    <2>1. CASE finTodo' = finTodo
      BY <2>1 DEF TypeOK
    <2>2. CASE \E s \in finShards :
                   finTodo' = [shard : {s}, pair : {p \in created : ShardOf[p] = s}, size : WindowSizes]
      BY <2>2 DEF TypeOK
    <2>3. QED
      BY <2>1, <2>2 DEF FinLoop, FinWake, FinShard, StopBegin, StopJoinFinalizer, StopReturn,
                        Advance, finVars
  <1>5. /\ now' \in 0..MaxTime /\ now' >= now /\ now' \in Nat
        /\ watermark' \in 0..MaxTime /\ watermark' <= now'
    <2>1. now \in 0..MaxTime /\ watermark \in 0..MaxTime /\ watermark <= now /\ MaxTime \in Nat
      BY CandleWorkerAssumption DEF TypeOK, Windows
    <2>2. /\ now' = now \/ (now < MaxTime /\ now' = now + 1)
          /\ watermark' = watermark \/ (watermark' = now /\ now' = now)
      BY DEF FinLoop, FinWake, FinShard, StopBegin, StopJoinFinalizer, StopReturn, Advance,
             finVars
    <2>3. QED
      BY <2>1, <2>2
  <1>6. TypeOK'
    BY <1>2, <1>3, <1>4, <1>5 DEF TypeOK
  <1>7. CandleExact' /\ Windows' /\ AllCandles' = AllCandles
    BY <1>2, <1>5, CandlesKept
  <1>8. ctrl' = "idle" /\ ~running' => \A s \in Shards : pc[s] = "exited"
    BY DEF FinLoop, FinWake, FinShard, StopBegin, StopJoinFinalizer, StopReturn, Advance,
           ctrlVars, Threads
  <1>9. Threads'
    BY <1>2, <1>8 DEF Threads
  <1>10. Located'
    <2>1. \A s \in Shards, t \in Trades, size \in WindowSizes :
              InHand(s, t, size)' <=> InHand(s, t, size)
      BY <1>2 DEF InHand
    <2>2. QED
      BY <1>2, <1>7, <2>1, PlacesKept
  <1>11. QED
    BY <1>6, <1>7, <1>9, <1>10

\* A thread of a shard moves without a trade: it waits, wakes up, ends or is
\* started.
LEMMA ThreadStep ==
    ASSUME CandleWorkerInv,
           pc' \in [Shards -> {"exited", "enter", "blocking", "waiting", "get", "update"}],
           \A s \in Shards : pc'[s] = pc[s] \/ {pc[s], pc'[s]} \cap {"get", "update"} = {},
           ctrl' = "idle" /\ ~running' => \A s \in Shards : pc'[s] = "exited",
           ctrl' \in {"idle", "joinFinalizer", "notify", "joinShards"}, running' \in BOOLEAN,
           notified' \subseteq Shards, starts' \in 0..MaxStarts,
           fin' \in {"none", "loop", "sleep", "next", "pass", "done"},
           UNCHANGED <<now, callVars, queue, hand, todo, windowVars,
                       watermark, finShards, finTodo, emitted>>
    PROVE  CandleWorkerInv'
  <1> USE DEF CandleWorkerInv, WorkerInv, callVars, windowVars
  <1>1. TypeOK'
    BY DEF TypeOK
  <1>2. CandleExact' /\ Windows' /\ AllCandles' = AllCandles
    <2>1. now' \in Nat /\ now' >= now /\ watermark' <= now'
      BY CandleWorkerAssumption DEF TypeOK, Windows
    <2>2. QED
      BY <2>1, CandlesKept
  <1>3. Threads'
    BY DEF Threads
  <1>4. Located'
    <2>1. \A s \in Shards, t \in Trades, size \in WindowSizes :
              InHand(s, t, size)' <=> InHand(s, t, size)
      BY DEF InHand
    <2>2. QED
      BY <1>2, <2>1, PlacesKept
  <1>5. QED
    BY <1>1, <1>2, <1>3, <1>4

\* A shard's thread goes to sleep or ends, with its mutex.
LEMMA WaitStep ==
    ASSUME CandleWorkerInv, NEW s \in Shards, ShardExit(s) \/ ShardWait(s) \/ ShardBlock(s)
    PROVE  CandleWorkerInv'
  <1> USE DEF CandleWorkerInv, WorkerInv
  <1>1. PICK to \in {"exited", "blocking", "waiting"} :
            /\ pc' = [pc EXCEPT ![s] = to] /\ pc[s] \in {"enter", "blocking"}
            /\ UNCHANGED <<now, ctrlVars, callVars, queue, hand, todo, windowVars, finVars>>
    BY DEF ShardExit, ShardWait, ShardBlock
  <1>2. pc \in [Shards -> {"exited", "enter", "blocking", "waiting", "get", "update"}]
    BY DEF TypeOK
  <1>3. pc' \in [Shards -> {"exited", "enter", "blocking", "waiting", "get", "update"}]
    BY <1>1, <1>2
  <1>4. \A r \in Shards : pc'[r] = pc[r] \/ {pc[r], pc'[r]} \cap {"get", "update"} = {}
    BY <1>1, <1>2
  <1>5. ctrl' = "idle" /\ ~running' => \A r \in Shards : pc'[r] = "exited"
    BY <1>1, <1>2 DEF Threads, ctrlVars
  <1>6. /\ ctrl' \in {"idle", "joinFinalizer", "notify", "joinShards"} /\ running' \in BOOLEAN
        /\ notified' \subseteq Shards /\ starts' \in 0..MaxStarts
        /\ fin' \in {"none", "loop", "sleep", "next", "pass", "done"}
    BY <1>1 DEF ctrlVars, finVars, TypeOK
  <1>7. UNCHANGED <<now, callVars, queue, hand, todo, windowVars, watermark, finShards, finTodo, emitted>>
    BY <1>1 DEF finVars
  <1>8. QED
    BY <1>3, <1>4, <1>5, <1>6, <1>7, ThreadStep

\* start() and the notifications of stop().
LEMMA ControlStep ==
    ASSUME CandleWorkerInv, Start \/ \E s \in Shards : StopNotify(s)
    PROVE  CandleWorkerInv'
  <1> USE DEF CandleWorkerInv, WorkerInv
  <1>1. pc \in [Shards -> {"exited", "enter", "blocking", "waiting", "get", "update"}]
    BY DEF TypeOK
  <1>2. UNCHANGED <<now, callVars, queue, hand, todo, windowVars, watermark, finShards, finTodo, emitted>>
    BY DEF Start, StopNotify, finVars
  <1>3. CASE Start
    <2>1. pc' \in [Shards -> {"exited", "enter", "blocking", "waiting", "get", "update"}]
      BY <1>3 DEF Start
    <2>2. \A r \in Shards : {pc[r], pc'[r]} \cap {"get", "update"} = {}
      BY <1>3 DEF Start, Threads
    <2>3. /\ ctrl' \in {"idle", "joinFinalizer", "notify", "joinShards"} /\ running'
          /\ notified' \subseteq Shards /\ fin' = "loop"
      BY <1>3 DEF Start, TypeOK
    <2>4. starts' \in 0..MaxStarts
      BY <1>3, CandleWorkerAssumption DEF Start, TypeOK
    <2>5. running' = TRUE
      BY <1>3 DEF Start
    <2>6. QED
      BY <1>2, <2>1, <2>2, <2>3, <2>4, <2>5, ThreadStep
  <1>4. CASE \E s \in Shards : StopNotify(s)
    <2>1. PICK s \in Shards : StopNotify(s)
      BY <1>4
    <2>2. /\ pc' = [pc EXCEPT ![s] = IF @ = "waiting" THEN "enter" ELSE @]
          /\ ctrl = "notify" /\ ctrl' \in {"notify", "joinShards"}
          /\ notified' = notified \cup {s} /\ UNCHANGED <<running, starts, finVars>>
      BY <2>1 DEF StopNotify, Notified
    <2>3. pc' \in [Shards -> {"exited", "enter", "blocking", "waiting", "get", "update"}]
      BY <1>1, <2>2
    <2>4. \A r \in Shards : pc'[r] = pc[r] \/ {pc[r], pc'[r]} \cap {"get", "update"} = {}
      BY <1>1, <2>2
    <2>5. /\ ctrl' \in {"idle", "joinFinalizer", "notify", "joinShards"} /\ ctrl' # "idle"
          /\ running' \in BOOLEAN
          /\ notified' \subseteq Shards /\ starts' \in 0..MaxStarts
          /\ fin' \in {"none", "loop", "sleep", "next", "pass", "done"}
      BY <2>2 DEF TypeOK, finVars
    <2>6. QED
      BY <1>2, <2>3, <2>4, <2>5, ThreadStep
  <1>5. QED
    BY <1>3, <1>4

\* The trade a thread works on.
LEMMA HandFacts ==
    ASSUME CandleWorkerInv, NEW s \in Shards, pc[s] \in {"get", "update"}
    PROVE  hand[s][1] \in Trades /\ hand[s] = <<hand[s][1]>>
  <1>1. hand[s] # <<>> /\ (hand[s] = <<>> \/ \E t \in Trades : hand[s] = <<t>>)
    BY DEF CandleWorkerInv, WorkerInv, Threads, TypeOK
  <1>2. PICK t \in Trades : hand[s] = <<t>>
    BY <1>1
  <1>3. QED
    BY <1>2

\* process_trade gets the windows: the trade is to be applied to all of them.
LEMMA GetWindowsStep ==
    ASSUME CandleWorkerInv, NEW s \in Shards, ShardGetWindows(s)
    PROVE  CandleWorkerInv'
  <1> USE DEF CandleWorkerInv, WorkerInv
  <1>1. /\ pc[s] = "get" /\ created' = created \cup {hand[s][1].pair}
        /\ todo' = [todo EXCEPT ![s] = WindowSizes] /\ pc' = [pc EXCEPT ![s] = "update"]
        /\ UNCHANGED <<now, running, starts, ctrl, notified, sent, calling, queue, hand,
                       candles, lastTrade, fin, watermark, finShards, finTodo, emitted>>
    BY DEF ShardGetWindows, ctrlVars, callVars, finVars
  <1>2. /\ pc \in [Shards -> {"exited", "enter", "blocking", "waiting", "get", "update"}]
        /\ todo \in [Shards -> SUBSET WindowSizes]
    BY DEF TypeOK
  <1>3. created' \subseteq Pairs
    <2>1. hand[s][1].pair \in Pairs
      BY <1>1, HandFacts, TradeFacts
    <2>2. QED
      BY <1>1, <2>1 DEF TypeOK
  <1>4. TypeOK'
    <2>1. /\ pc' \in [Shards -> {"exited", "enter", "blocking", "waiting", "get", "update"}]
          /\ todo' \in [Shards -> SUBSET WindowSizes]
      BY <1>1, <1>2
    <2>2. QED
      BY <1>1, <1>3, <2>1 DEF TypeOK
  <1>5. CandleExact' /\ Windows' /\ AllCandles' = AllCandles
    <2>1. now' \in Nat /\ now' >= now /\ watermark' <= now'
      BY <1>1, CandleWorkerAssumption DEF TypeOK, Windows
    <2>2. QED
      BY <1>1, <2>1, CandlesKept
  <1>6. Threads'
    BY <1>1, <1>2 DEF Threads
  <1>7. Located'
    <2>1. \A r \in Shards, t \in Trades, size \in WindowSizes :
              InHand(r, t, size)' <=> InHand(r, t, size)
      BY <1>1, <1>2 DEF InHand
    <2>2. QED
      BY <1>1, <1>5, <2>1, PlacesKept
  <1>8. QED
    BY <1>4, <1>5, <1>6, <1>7

\* The finalizer takes closed candles out and emits them: they are the same
\* candles, and their window is over.
LEMMA FinWindowStep ==
    ASSUME CandleWorkerInv, NEW w \in finTodo, FinWindow(w)
    PROVE  CandleWorkerInv'
  <1> USE DEF CandleWorkerInv, WorkerInv
  <1>1. PICK closed \in SUBSET Closed(w.pair, w.size) :
            candles' = candles \ closed /\ emitted' = emitted \cup closed
    BY DEF FinWindow
  <1>2. /\ finTodo' = finTodo \ {w} /\ fin' \in {"next", "pass"}
        /\ UNCHANGED <<now, running, starts, ctrl, notified, sent, calling, queue, pc, hand, todo,
                       created, lastTrade, watermark, finShards>>
    BY DEF FinWindow, ctrlVars, callVars, shardVars
  <1>3. closed \subseteq candles /\ \A c \in closed : c.close_time <= watermark
    BY <1>1 DEF Closed
  <1>4. AllCandles' = AllCandles
    BY <1>1, <1>3 DEF AllCandles
  <1>5. TypeOK'
    BY <1>1, <1>2 DEF TypeOK
  <1>6. \A c \in emitted' : c.close_time <= now
    <2>1. \A c \in candles : c.close_time \in Nat
      BY DEF Windows, AllCandles, CandleType
    <2>2. watermark \in Nat /\ now \in Nat /\ watermark <= now
      BY CandleWorkerAssumption DEF TypeOK, Windows
    <2>3. QED
      BY <1>1, <1>3, <2>1, <2>2 DEF CandleExact
  <1>7. CandleExact' /\ Windows'
    BY <1>1, <1>2, <1>4, <1>6 DEF CandleExact, Windows
  <1>8. Threads'
    BY <1>2 DEF Threads
  <1>9. Located'
    <2>1. \A r \in Shards, t \in Trades, size \in WindowSizes :
              InHand(r, t, size)' <=> InHand(r, t, size)
      BY <1>2 DEF InHand
    <2>2. QED
      BY <1>2, <1>4, <2>1, PlacesKept
  <1>10. QED
    BY <1>5, <1>7, <1>8, <1>9
-----------------------------------------------------------------------------
\* The steps that move a trade.

\* on_trade accepts a trade that was nowhere.
LEMMA CheckStep ==
    ASSUME CandleWorkerInv, NEW p \in Callers, NEW t \in Trades, OnTradeCheck(p, t)
    PROVE  CandleWorkerInv'
  <1> USE DEF CandleWorkerInv, WorkerInv
  <1>1. /\ calling[p] = <<>> /\ t \notin sent /\ sent' = sent \cup {t}
        /\ calling' = [calling EXCEPT ![p] = <<t>>]
        /\ UNCHANGED <<now, running, starts, ctrl, notified, queue, pc, hand, todo, created,
                       candles, lastTrade, fin, watermark, finShards, finTodo, emitted>>
    BY DEF OnTradeCheck, ctrlVars, shardVars, windowVars, finVars
  <1>2. calling \in [Callers -> Seq(Trades)] /\ calling' \in [Callers -> Seq(Trades)]
    BY <1>1 DEF Threads
  <1>3. /\ calling'[p] = <<t>> /\ \A q \in Callers : q # p => calling'[q] = calling[q]
    BY <1>1, <1>2
  <1>4. TypeOK'
    <2>1. \A q \in Callers : calling'[q] = <<>> \/ \E u \in Trades : calling'[q] = <<u>>
      BY <1>3 DEF TypeOK
    <2>2. QED
      BY <1>1, <2>1 DEF TypeOK
  <1>5. CandleExact' /\ Windows' /\ AllCandles' = AllCandles
    <2>1. now' \in Nat /\ now' >= now /\ watermark' <= now'
      BY <1>1, CandleWorkerAssumption DEF TypeOK, Windows
    <2>2. QED
      BY <1>1, <2>1, CandlesKept
  <1>6. Threads'
    BY <1>1, <1>2 DEF Threads
  <1>7. Located'
    <2> SUFFICES ASSUME NEW u \in Trades, NEW size \in WindowSizes
                 PROVE  IF u \in sent' THEN Somewhere(u, size)' ELSE Nowhere(u, size)'
      BY DEF Located
    <2>1. (NoQueue(u)' <=> NoQueue(u)) /\ (OneQueue(u)' <=> OneQueue(u))
      BY <1>1 DEF NoQueue, OneQueue
    <2>2. (NoHand(u, size)' <=> NoHand(u, size)) /\ (OneHand(u, size)' <=> OneHand(u, size))
      BY <1>1 DEF NoHand, OneHand, InHand
    <2>3. (NoCandle(u, size)' <=> NoCandle(u, size)) /\ (OneCandle(u, size)' <=> OneCandle(u, size))
      BY <1>5 DEF NoCandle, OneCandle, InCandle
    <2>4. IF u \in sent THEN Somewhere(u, size) ELSE Nowhere(u, size)
      BY DEF Located
    <2>5. CASE u = t
      <3>1. Nowhere(u, size)
        BY <1>1, <2>4, <2>5
      <3>2. OneCaller(u)'
        BY <1>3, <2>5, <3>1 DEF OneCaller, NoCaller, Nowhere
      <3>3. QED
        BY <1>1, <2>1, <2>2, <2>3, <2>5, <3>1, <3>2 DEF Somewhere, Nowhere
    <2>6. CASE u # t
      <3>1. calling[p] # <<u>> /\ calling'[p] # <<u>>
        BY <1>1, <1>3, <2>6, OneTrade
      <3>2. (NoCaller(u)' <=> NoCaller(u)) /\ (OneCaller(u)' <=> OneCaller(u))
        BY <1>3, <3>1 DEF NoCaller, OneCaller
      <3>3. u \in sent' <=> u \in sent
        BY <1>1, <2>6
      <3>4. QED
        BY <2>1, <2>2, <2>3, <2>4, <3>2, <3>3 DEF Somewhere, Nowhere
    <2>7. QED
      BY <2>5, <2>6
  <1>8. QED
    BY <1>4, <1>5, <1>6, <1>7

\* The caller pushes its trade to the end of its shard's queue.
LEMMA PushStep ==
    ASSUME CandleWorkerInv, NEW p \in Callers, OnTradePush(p)
    PROVE  CandleWorkerInv'
  <1> USE DEF CandleWorkerInv, WorkerInv
  <1>1. PICK t \in Trades : calling[p] = <<t>>
    BY DEF OnTradePush, TypeOK
  <1> DEFINE s == ShardOf[t.pair]
  <1>2. s \in Shards
    BY TradeFacts
  <1> HIDE DEF s
  <1>3. /\ queue' = [queue EXCEPT ![s] = Append(@, t)]
        /\ pc' = [pc EXCEPT ![s] = IF @ = "waiting" THEN "enter" ELSE @]
        /\ calling' = [calling EXCEPT ![p] = <<>>]
        /\ UNCHANGED <<now, running, starts, ctrl, notified, sent, hand, todo, created,
                       candles, lastTrade, fin, watermark, finShards, finTodo, emitted>>
    <2>1. calling[p][1] = t
      BY <1>1
    <2>2. QED
      BY <2>1 DEF OnTradePush, Notified, s, ctrlVars, windowVars, finVars
  <1>4. /\ calling \in [Callers -> Seq(Trades)] /\ calling' \in [Callers -> Seq(Trades)]
        /\ calling'[p] = <<>> /\ \A q \in Callers : q # p => calling'[q] = calling[q]
    BY <1>3 DEF Threads
  <1>5. queue \in [Shards -> Seq(Trades)]
    BY DEF TypeOK
  <1>6. /\ queue'[s] = Append(queue[s], t) /\ \A r \in Shards : r # s => queue'[r] = queue[r]
        /\ Len(queue'[s]) = Len(queue[s]) + 1 /\ Len(queue[s]) \in Nat
        /\ \A i \in 1..Len(queue[s]) : queue'[s][i] = queue[s][i]
        /\ queue'[s][Len(queue[s]) + 1] = t
        /\ queue' \in [Shards -> Seq(Trades)]
    <2>1. queue[s] \in Seq(Trades)
      BY <1>2, <1>5
    <2>2. queue'[s] = Append(queue[s], t) /\ \A r \in Shards : r # s => queue'[r] = queue[r]
      BY <1>2, <1>3, <1>5
    <2>3. Append(queue[s], t) \in Seq(Trades)
      BY <2>1, AppendProperties
    <2>4. queue' \in [Shards -> Seq(Trades)]
      BY <1>3, <1>5, <2>3
    <2>5. QED
      BY <2>1, <2>2, <2>4, AppendProperties, LenProperties
  <1>7. /\ pc \in [Shards -> {"exited", "enter", "blocking", "waiting", "get", "update"}]
        /\ pc' \in [Shards -> {"exited", "enter", "blocking", "waiting", "get", "update"}]
        /\ \A r \in Shards : pc'[r] = pc[r] \/ (pc[r] = "waiting" /\ pc'[r] = "enter")
    <2>1. pc \in [Shards -> {"exited", "enter", "blocking", "waiting", "get", "update"}]
      BY DEF TypeOK
    <2>2. QED
      BY <1>3, <2>1
  <1>8. TypeOK'
    <2>1. \A q \in Callers : calling'[q] = <<>> \/ \E u \in Trades : calling'[q] = <<u>>
      BY <1>4 DEF TypeOK
    <2>2. QED
      BY <1>3, <1>6, <1>7, <2>1 DEF TypeOK
  <1>9. CandleExact' /\ Windows' /\ AllCandles' = AllCandles
    <2>1. now' \in Nat /\ now' >= now /\ watermark' <= now'
      BY <1>3, CandleWorkerAssumption DEF TypeOK, Windows
    <2>2. QED
      BY <1>3, <2>1, CandlesKept
  <1>10. Threads'
    BY <1>3, <1>4, <1>7 DEF Threads
  <1>11. Located'
    <2> SUFFICES ASSUME NEW u \in Trades, NEW size \in WindowSizes
                 PROVE  IF u \in sent THEN Somewhere(u, size)' ELSE Nowhere(u, size)'
      BY <1>3 DEF Located
    <2>1. \A r \in Shards : InHand(r, u, size)' <=> InHand(r, u, size)
      BY <1>3, <1>7 DEF InHand
    <2>2. (NoHand(u, size)' <=> NoHand(u, size)) /\ (OneHand(u, size)' <=> OneHand(u, size))
      BY <2>1 DEF NoHand, OneHand
    <2>3. (NoCandle(u, size)' <=> NoCandle(u, size)) /\ (OneCandle(u, size)' <=> OneCandle(u, size))
      BY <1>9 DEF NoCandle, OneCandle, InCandle
    <2>4. IF u \in sent THEN Somewhere(u, size) ELSE Nowhere(u, size)
      BY DEF Located
    <2>5. CASE u = t
      <3>1. ~NoCaller(u)
        BY <1>1, <2>5 DEF NoCaller
      <3>2. u \in sent /\ OneCaller(u) /\ NoQueue(u) /\ NoHand(u, size) /\ NoCandle(u, size)
        BY <2>4, <3>1 DEF Somewhere, Nowhere
      <3>3. NoCaller(u)'
        <4>1. \A q \in Callers : calling[q] = <<u>> => q = p
          BY <1>1, <2>5, <3>2 DEF OneCaller
        <4>2. QED
          BY <1>4, <4>1, OneTrade DEF NoCaller
      <3>4. OneQueue(u)'
        <4>1. Len(queue[s]) + 1 \in 1..Len(queue'[s])
          BY <1>6
        <4>2. \A r \in Shards : \A j \in 1..Len(queue'[r]) :
                  queue'[r][j] = u => r = s /\ j = Len(queue[s]) + 1
          <5> TAKE r \in Shards
          <5>1. CASE r # s
            BY <1>6, <3>2, <5>1 DEF NoQueue
          <5>2. CASE r = s
            <6>1. \A j \in 1..Len(queue[s]) : queue[s][j] # u
              BY <1>2, <3>2 DEF NoQueue
            <6>2. \A j \in 1..Len(queue'[s]) : j \in 1..Len(queue[s]) \/ j = Len(queue[s]) + 1
              BY <1>6
            <6>3. QED
              BY <1>6, <5>2, <6>1, <6>2
          <5>3. QED
            BY <5>1, <5>2
        <4>3. QED
          BY <1>2, <1>6, <2>5, <4>1, <4>2 DEF OneQueue
      <3>5. QED
        BY <2>2, <2>3, <3>2, <3>3, <3>4 DEF Somewhere
    <2>6. CASE u # t
      <3>1. calling[p] # <<u>> /\ calling'[p] # <<u>>
        BY <1>1, <1>4, <2>6, OneTrade
      <3>2. (NoCaller(u)' <=> NoCaller(u)) /\ (OneCaller(u)' <=> OneCaller(u))
        BY <1>4, <3>1 DEF NoCaller, OneCaller
      <3>3. \A r \in Shards : \A i : (i \in 1..Len(queue'[r]) /\ queue'[r][i] = u)
                                         <=> (i \in 1..Len(queue[r]) /\ queue[r][i] = u)
        <4> TAKE r \in Shards
        <4>1. CASE r # s
          BY <1>6, <4>1
        <4>2. CASE r = s
          <5>1. \A j \in 1..Len(queue'[s]) : j \in 1..Len(queue[s]) \/ j = Len(queue[s]) + 1
            BY <1>6
          <5>2. 1..Len(queue[s]) \subseteq 1..Len(queue'[s])
            BY <1>6
          <5>3. QED
            BY <1>6, <2>6, <4>2, <5>1, <5>2
        <4>3. QED
          BY <4>1, <4>2
      <3>4. (NoQueue(u) => NoQueue(u)') /\ (OneQueue(u) => OneQueue(u)')
        <4>1. NoQueue(u) => NoQueue(u)'
          BY <3>3 DEF NoQueue
        <4>2. ASSUME NEW r \in Shards, NEW i \in 1..Len(queue[r]), queue[r][i] = u,
                     \A q \in Shards : \A j \in 1..Len(queue[q]) : queue[q][j] = u => q = r /\ j = i
              PROVE  OneQueue(u)'
          <5>1. i \in 1..Len(queue'[r]) /\ queue'[r][i] = u
            BY <3>3, <4>2
          <5>2. \A q \in Shards : \A j \in 1..Len(queue'[q]) : queue'[q][j] = u => q = r /\ j = i
            BY <3>3, <4>2
          <5>3. QED
            BY <5>1, <5>2 DEF OneQueue
        <4>3. QED
          BY <4>1, <4>2 DEF OneQueue
      <3>5. QED
        BY <2>2, <2>3, <2>4, <3>2, <3>4 DEF Somewhere, Nowhere
    <2>7. QED
      BY <2>5, <2>6
  <1>12. QED
    BY <1>8, <1>9, <1>10, <1>11

\* A shard's thread takes the first trade of its queue.
LEMMA PopStep ==
    ASSUME CandleWorkerInv, NEW s \in Shards, ShardPop(s)
    PROVE  CandleWorkerInv'
  <1> USE DEF CandleWorkerInv, WorkerInv
  <1> DEFINE t == Head(queue[s])
  <1>1. /\ pc[s] = "enter" /\ queue[s] # <<>>
        /\ hand' = [hand EXCEPT ![s] = <<t>>]
        /\ queue' = [queue EXCEPT ![s] = Tail(@)]
        /\ pc' = [pc EXCEPT ![s] = "get"]
        /\ UNCHANGED <<now, running, starts, ctrl, notified, sent, calling, todo, created,
                       candles, lastTrade, fin, watermark, finShards, finTodo, emitted>>
    BY DEF ShardPop, ctrlVars, callVars, windowVars, finVars
  <1>2. queue \in [Shards -> Seq(Trades)] /\ queue[s] \in Seq(Trades)
    BY DEF TypeOK
  <1>3. /\ t \in Trades /\ t = queue[s][1] /\ Len(queue[s]) \in Nat /\ Len(queue[s]) > 0
        /\ Tail(queue[s]) \in Seq(Trades) /\ Len(Tail(queue[s])) = Len(queue[s]) - 1
        /\ \A i \in 1..Len(Tail(queue[s])) : Tail(queue[s])[i] = queue[s][i + 1]
    BY <1>1, <1>2, HeadTailProperties, EmptySeq
  <1> HIDE DEF t
  <1>4. /\ queue'[s] = Tail(queue[s]) /\ \A r \in Shards : r # s => queue'[r] = queue[r]
        /\ queue' \in [Shards -> Seq(Trades)]
    BY <1>1, <1>2, <1>3
  <1>5. /\ hand \in [Shards -> Seq(Trades)] /\ hand' \in [Shards -> Seq(Trades)]
        /\ hand'[s] = <<t>> /\ \A r \in Shards : r # s => hand'[r] = hand[r]
    BY <1>1, <1>3 DEF Threads
  <1>6. /\ pc' \in [Shards -> {"exited", "enter", "blocking", "waiting", "get", "update"}]
        /\ pc'[s] = "get" /\ \A r \in Shards : r # s => pc'[r] = pc[r]
    <2>1. pc \in [Shards -> {"exited", "enter", "blocking", "waiting", "get", "update"}]
      BY DEF TypeOK
    <2>2. pc' = [pc EXCEPT ![s] = "get"]
      BY <1>1
    <2>3. pc' \in [Shards -> {"exited", "enter", "blocking", "waiting", "get", "update"}]
      BY <2>1, <2>2
    <2>4. QED
      BY <2>1, <2>2, <2>3
  <1>7. TypeOK'
    <2>1. \A r \in Shards : hand'[r] = <<>> \/ \E u \in Trades : hand'[r] = <<u>>
      <3>1. \A r \in Shards : hand[r] = <<>> \/ \E u \in Trades : hand[r] = <<u>>
        BY DEF TypeOK
      <3>2. QED
        BY <1>3, <1>5, <3>1
    <2>2. QED
      BY <1>1, <1>4, <1>6, <2>1 DEF TypeOK
  <1>8. CandleExact' /\ Windows' /\ AllCandles' = AllCandles
    <2>1. now' \in Nat /\ now' >= now /\ watermark' <= now'
      BY <1>1, CandleWorkerAssumption DEF TypeOK, Windows
    <2>2. QED
      BY <1>1, <2>1, CandlesKept
  <1>9. todo[s] = {} /\ ~(ctrl = "idle" /\ ~running)
    BY <1>1 DEF Threads
  <1>10. Threads'
    <2>1. \A r \in Shards : /\ pc'[r] \in {"get", "update"} => hand'[r] # <<>>
                            /\ pc'[r] # "update" => todo[r] = {}
      <3>1. hand'[s] # <<>>
        BY <1>5, OneTrade
      <3>2. \A r \in Shards : r # s => /\ pc[r] \in {"get", "update"} => hand[r] # <<>>
                                       /\ pc[r] # "update" => todo[r] = {}
        BY DEF Threads
      <3>3. QED
        BY <1>5, <1>6, <1>9, <3>1, <3>2
    <2>2. QED
      BY <1>1, <1>5, <1>9, <2>1 DEF Threads
  <1>11. Located'
    <2> SUFFICES ASSUME NEW u \in Trades, NEW size \in WindowSizes
                 PROVE  IF u \in sent THEN Somewhere(u, size)' ELSE Nowhere(u, size)'
      BY <1>1 DEF Located
    <2>1. (NoCaller(u)' <=> NoCaller(u)) /\ (OneCaller(u)' <=> OneCaller(u))
      BY <1>1 DEF NoCaller, OneCaller
    <2>2. \A r \in Shards : r # s => (InHand(r, u, size)' <=> InHand(r, u, size))
      BY <1>1, <1>5, <1>6 DEF InHand
    <2>3. ~InHand(s, u, size) /\ (InHand(s, u, size)' <=> u = t)
      BY <1>1, <1>5, <1>6, <1>9, OneTrade DEF InHand
    <2>4. (NoCandle(u, size)' <=> NoCandle(u, size)) /\ (OneCandle(u, size)' <=> OneCandle(u, size))
      BY <1>8 DEF NoCandle, OneCandle, InCandle
    <2>5. IF u \in sent THEN Somewhere(u, size) ELSE Nowhere(u, size)
      BY DEF Located
    <2>6. CASE u = t
      <3>1. 1 \in 1..Len(queue[s]) /\ queue[s][1] = u
        BY <1>3, <2>6
      <3>2. ~NoQueue(u)
        BY <3>1 DEF NoQueue
      <3>3. u \in sent /\ NoCaller(u) /\ OneQueue(u) /\ NoHand(u, size) /\ NoCandle(u, size)
        BY <2>5, <3>2 DEF Somewhere, Nowhere
      <3>4. \A r \in Shards : \A j \in 1..Len(queue[r]) : queue[r][j] = u => r = s /\ j = 1
        BY <3>1, <3>3 DEF OneQueue
      <3>5. NoQueue(u)'
        <4> SUFFICES ASSUME NEW r \in Shards, NEW i \in 1..Len(queue'[r]) PROVE queue'[r][i] # u
          BY DEF NoQueue
        <4>1. CASE r # s
          BY <1>4, <3>4, <4>1
        <4>2. CASE r = s
          <5>1. i + 1 \in 1..Len(queue[s]) /\ i + 1 # 1 /\ queue'[r][i] = queue[s][i + 1]
            <6>1. i \in 1..Len(Tail(queue[s])) /\ queue'[r][i] = Tail(queue[s])[i]
              BY <1>4, <4>2
            <6>2. QED
              BY <1>3, <6>1
          <5>2. QED
            BY <3>4, <5>1
        <4>3. QED
          BY <4>1, <4>2
      <3>6. OneHand(u, size)'
        BY <2>2, <2>3, <2>6, <3>3 DEF OneHand, NoHand
      <3>7. QED
        BY <2>1, <2>4, <3>3, <3>5, <3>6 DEF Somewhere
    <2>7. CASE u # t
      <3>1. (NoHand(u, size)' <=> NoHand(u, size)) /\ (OneHand(u, size)' <=> OneHand(u, size))
        BY <2>2, <2>3, <2>7 DEF NoHand, OneHand
      <3>2. \A i \in 1..Len(queue'[s]) : i + 1 \in 1..Len(queue[s]) /\ queue'[s][i] = queue[s][i + 1]
        BY <1>3, <1>4
      <3>3. \A j \in 1..Len(queue[s]) : queue[s][j] = u => j - 1 \in 1..Len(queue'[s]) /\ j = (j - 1) + 1
        <4>1. \A j \in 1..Len(queue[s]) : j = 1 \/ j - 1 \in 1..Len(queue'[s])
          BY <1>3, <1>4
        <4>2. QED
          BY <1>3, <2>7, <4>1
      <3>4. NoQueue(u) => NoQueue(u)'
        BY <1>4, <3>2 DEF NoQueue
      <3>5. OneQueue(u) => OneQueue(u)'
        <4> SUFFICES ASSUME OneQueue(u) PROVE OneQueue(u)'
          OBVIOUS
        <4>0. PICK r \in Shards : \E i \in 1..Len(queue[r]) :
                  /\ queue[r][i] = u
                  /\ \A q \in Shards : \A j \in 1..Len(queue[q]) : queue[q][j] = u => q = r /\ j = i
          BY DEF OneQueue
        <4>1. PICK i \in 1..Len(queue[r]) :
                  /\ queue[r][i] = u
                  /\ \A q \in Shards : \A j \in 1..Len(queue[q]) : queue[q][j] = u => q = r /\ j = i
          BY <4>0
        <4>2. \A q \in Shards : \A j \in 1..Len(queue'[q]) :
                  queue'[q][j] = u => q = r /\ j = IF r = s THEN i - 1 ELSE i
          <5> SUFFICES ASSUME NEW q \in Shards, NEW j \in 1..Len(queue'[q]), queue'[q][j] = u
                       PROVE  q = r /\ j = IF r = s THEN i - 1 ELSE i
            OBVIOUS
          <5>1. CASE q = s
            <6>1. s = r /\ j + 1 = i
              BY <3>2, <4>1, <5>1
            <6>2. QED
              BY <5>1, <6>1
          <5>2. CASE q # s
            BY <1>4, <4>1, <5>2
          <5>3. QED
            BY <5>1, <5>2
        <4>3. CASE r = s
          <5>1. i - 1 \in 1..Len(queue'[s]) /\ queue'[s][i - 1] = u
            BY <3>2, <3>3, <4>1, <4>3
          <5>2. QED
            BY <4>2, <4>3, <5>1 DEF OneQueue
        <4>4. CASE r # s
          <5>1. i \in 1..Len(queue'[r]) /\ queue'[r][i] = u
            BY <1>4, <4>1, <4>4
          <5>2. QED
            BY <4>2, <4>4, <5>1 DEF OneQueue
        <4>5. QED
          BY <4>3, <4>4
      <3>6. QED
        BY <2>1, <2>4, <2>5, <3>1, <3>4, <3>5 DEF Somewhere, Nowhere
    <2>8. QED
      BY <2>6, <2>7
  <1>12. QED
    BY <1>7, <1>8, <1>10, <1>11

\* A new candle is exact.
LEMMA NewExact ==
    ASSUME NEW t \in Trades, NEW size \in WindowSizes
    PROVE  /\ NewCandle(t, size) \in CandleType
           /\ Exact(NewCandle(t, size))
           /\ SeqRange(NewCandle(t, size).trades) = {t}
  <1> DEFINE c == NewCandle(t, size)
             start == get_window_start(t.ts, size)
  <1>1. /\ t.pair \in Pairs /\ t.ts \in Nat /\ t.price \in Int
        /\ start \in Nat /\ start <= t.ts /\ t.ts < start + size /\ size \in Nat
    BY TradeFacts, WindowStart
  <1> HIDE DEF start
  <1>2. c = [pair |-> t.pair, size |-> size, open_time |-> start, close_time |-> start + size,
             open |-> t.price, high |-> t.price, low |-> t.price, close |-> t.price,
             trades |-> <<t>>]
    BY DEF NewCandle, start
  <1> HIDE DEF c
  <1>3. /\ c.open_time = start /\ c.close_time = start + size
        /\ c.open = t.price /\ c.high = t.price /\ c.low = t.price /\ c.close = t.price
        /\ c.trades = <<t>>
    BY <1>2
  <1>4. c.trades \in Seq(Trades) /\ Len(c.trades) = 1 /\ c.trades[1] = t
    BY <1>3
  <1>5. c \in CandleType
    BY <1>1, <1>2 DEF CandleType
  <1>6. 1..Len(c.trades) = {1}
    BY <1>4
  <1>7. Exact(c)
    BY <1>1, <1>3, <1>4, <1>6 DEF Exact
  <1>8. SeqRange(c.trades) = {t}
    BY <1>4, <1>6 DEF SeqRange
  <1>9. QED
    BY <1>5, <1>7, <1>8 DEF c

\* A trade of its window keeps a candle exact.
LEMMA AddExact ==
    ASSUME NEW t \in Trades, NEW c \in CandleType, Exact(c), t \notin SeqRange(c.trades),
           c.open_time <= t.ts, t.ts < c.close_time
    PROVE  /\ AddTrade(c, t) \in CandleType
           /\ Exact(AddTrade(c, t))
           /\ SeqRange(AddTrade(c, t).trades) = SeqRange(c.trades) \cup {t}
           /\ AddTrade(c, t).pair = c.pair /\ AddTrade(c, t).size = c.size
           /\ AddTrade(c, t).open_time = c.open_time /\ AddTrade(c, t).close_time = c.close_time
  <1> DEFINE d == AddTrade(c, t)
             n == Len(c.trades)
  <1>1. t.pair \in Pairs /\ t.ts \in Nat /\ t.price \in Int
    BY TradeFacts
  <1>2. /\ d.pair = c.pair /\ d.size = c.size /\ d.open_time = c.open_time
        /\ d.close_time = c.close_time /\ d.open = c.open
        /\ d.high = (IF t.price > c.high THEN t.price ELSE c.high)
        /\ d.low = (IF t.price < c.low THEN t.price ELSE c.low)
        /\ d.close = t.price /\ d.trades = Append(c.trades, t)
    BY DEF AddTrade, CandleType
  <1>3. c.trades \in Seq(Trades) /\ c.high \in Int /\ c.low \in Int
    BY DEF CandleType
  <1>4. n \in Nat /\ n > 0
    BY <1>3, LenProperties DEF Exact
  <1>5. /\ d.trades \in Seq(Trades) /\ Len(d.trades) = n + 1
        /\ \A i \in 1..n : d.trades[i] = c.trades[i]
        /\ d.trades[n + 1] = t
    BY <1>2, <1>3, AppendProperties
  <1>6. d \in CandleType
    BY <1>1, <1>3, <1>5 DEF AddTrade, CandleType
  <1> HIDE DEF d, n
  <1>7. 1..Len(d.trades) = (1..n) \cup {n + 1} /\ 1 \in 1..n /\ n + 1 \notin 1..n
    BY <1>4, <1>5
  <1>8. SeqRange(d.trades) = SeqRange(c.trades) \cup {t}
    BY <1>5, <1>7 DEF SeqRange, n
  <1>9. \A i \in 1..n : c.trades[i] # t /\ c.trades[i].price \in Int
    <2>1. \A i \in 1..n : c.trades[i] \in Trades
      BY <1>3, ElementOfSeq DEF n
    <2>2. QED
      BY <2>1, TradeFacts DEF SeqRange, n
  <1>10. Exact(d)
    <2> DEFINE old == {c.trades[i].price : i \in 1..n}
               all == {d.trades[i].price : i \in 1..Len(d.trades)}
    <2>1. all = old \cup {t.price}
      BY <1>5, <1>7
    <2>2. /\ c.high \in old /\ \A x \in old : x <= c.high
          /\ c.low \in old /\ \A x \in old : c.low <= x
          /\ \A x \in old : x \in Int
      BY <1>9 DEF Exact, n
    <2> HIDE DEF old, all
    <2>3. d.high \in all /\ \A x \in all : x <= d.high
      BY <1>1, <1>2, <1>3, <2>1, <2>2
    <2>4. d.low \in all /\ \A x \in all : d.low <= x
      BY <1>1, <1>2, <1>3, <2>1, <2>2
    <2>5. d.open = d.trades[1].price /\ d.close = d.trades[Len(d.trades)].price /\ Len(d.trades) > 0
      BY <1>2, <1>4, <1>5, <1>7 DEF Exact
    <2>6. \A i \in 1..Len(d.trades) : d.open_time <= d.trades[i].ts /\ d.trades[i].ts < d.close_time
      BY <1>2, <1>5, <1>7 DEF Exact, n
    <2>7. \A i, j \in 1..Len(d.trades) : d.trades[i] = d.trades[j] => i = j
      BY <1>5, <1>7, <1>9 DEF Exact, n
    <2>8. QED
      BY <2>3, <2>4, <2>5, <2>6, <2>7 DEF Exact, all
  <1>11. QED
    BY <1>2, <1>6, <1>8, <1>10 DEF d

\* The candles in gone, of one window, make way for one that has trade t too.
Replaces(new, gone, t, size) ==
    /\ candles' = (candles \ gone) \cup {new}
    /\ Exact(new) /\ new.close_time = new.open_time + new.size
    /\ new.size = size
    /\ \A u : u \in SeqRange(new.trades)
                 <=> u = t \/ \E c \in gone : u \in SeqRange(c.trades)
    /\ \A c \in gone : c.size = size
    /\ \A c \in candles \ gone :
          ~(c.pair = new.pair /\ c.size = new.size /\ c.open_time = new.open_time)

\* update() replaces the window's candle, if it has one, by an exact candle with
\* the trade besides the old one's.
LEMMA UpdateCandle ==
    ASSUME CandleWorkerInv, NEW t \in Trades, NEW size \in WindowSizes, NoCandle(t, size),
           Update(t, size)
    PROVE  \E gone \in SUBSET candles, new \in CandleType : Replaces(new, gone, t, size)
  <1> USE DEF CandleWorkerInv, WorkerInv
  <1> DEFINE start == get_window_start(t.ts, size)
             found == CandleAt(t, size)
  <1>1. /\ start \in Nat /\ start <= t.ts /\ t.ts < start + size /\ size \in Nat
        /\ t.ts \in Nat
    BY TradeFacts, WindowStart
  <1>2. /\ found = {c \in candles : c.pair = t.pair /\ c.size = size /\ c.open_time = start}
        /\ candles' = (candles \ found)
              \cup (IF found = {} THEN {NewCandle(t, size)} ELSE {AddTrade(c, t) : c \in found})
    BY DEF Update, CandleAt
  <1> HIDE DEF start, found
  <1>3. CASE found = {}
    <2> DEFINE new == NewCandle(t, size)
    <2>1. /\ new.pair = t.pair /\ new.size = size /\ new.open_time = start
          /\ new.close_time = start + size
      BY DEF NewCandle, start
    <2>2. new \in CandleType /\ Exact(new) /\ SeqRange(new.trades) = {t}
      BY NewExact
    <2>3. candles' = (candles \ {}) \cup {new}
      BY <1>2, <1>3
    <2> HIDE DEF new
    <2>4. \A c \in candles \ {} :
              ~(c.pair = new.pair /\ c.size = new.size /\ c.open_time = new.open_time)
      BY <1>2, <1>3, <2>1
    <2>5. \A u : u \in SeqRange(new.trades) <=> u = t \/ \E c \in {} : u \in SeqRange(c.trades)
      BY <2>2
    <2>6. \A c \in {} : c.size = size
      OBVIOUS
    <2>7. {} \in SUBSET candles /\ new.close_time = new.open_time + new.size
      BY <2>1
    <2>8. QED
      <3>1. Replaces(new, {}, t, size)
        BY <2>1, <2>2, <2>3, <2>4, <2>5, <2>6, <2>7 DEF Replaces
      <3>2. QED
        BY <2>2, <2>7, <3>1
  <1>4. CASE found # {}
    <2>1. PICK c \in candles : c.pair = t.pair /\ c.size = size /\ c.open_time = start
      BY <1>2, <1>4
    <2>2. found = {c}
      BY <1>2, <2>1 DEF TypeOK
    <2> DEFINE new == AddTrade(c, t)
    <2>3. candles' = (candles \ {c}) \cup {new}
      BY <1>2, <2>2
    <2>4. /\ c \in CandleType /\ Exact(c) /\ c.close_time = c.open_time + c.size
      BY DEF Windows, CandleExact, AllCandles
    <2>5. t \notin SeqRange(c.trades)
      BY <2>1 DEF NoCandle, InCandle, AllCandles
    <2>6. c.open_time <= t.ts /\ t.ts < c.close_time
      BY <1>1, <2>1, <2>4
    <2>7. /\ new \in CandleType /\ Exact(new) /\ SeqRange(new.trades) = SeqRange(c.trades) \cup {t}
          /\ new.pair = c.pair /\ new.size = c.size /\ new.open_time = c.open_time
          /\ new.close_time = c.close_time
      BY <2>4, <2>5, <2>6, AddExact
    <2> HIDE DEF new
    <2>8. \A d \in candles \ {c} :
              ~(d.pair = new.pair /\ d.size = new.size /\ d.open_time = new.open_time)
      BY <2>7 DEF TypeOK
    <2>9. \A u : u \in SeqRange(new.trades) <=> u = t \/ \E d \in {c} : u \in SeqRange(d.trades)
      BY <2>7
    <2>10. (\A d \in {c} : d.size = size) /\ {c} \in SUBSET candles
      BY <2>1
    <2>11. new.close_time = new.open_time + new.size /\ new.size = size
      BY <2>1, <2>4, <2>7
    <2>12. QED
      <3>1. Replaces(new, {c}, t, size)
        BY <2>3, <2>7, <2>8, <2>9, <2>10, <2>11 DEF Replaces
      <3>2. QED
        BY <2>7, <2>10, <3>1
  <1>5. QED
    BY <1>3, <1>4

\* The thread applies its trade to one window.
LEMMA UpdateStep ==
    ASSUME CandleWorkerInv, NEW s \in Shards, NEW size \in WindowSizes, ShardUpdate(s, size)
    PROVE  CandleWorkerInv'
  <1> USE DEF CandleWorkerInv, WorkerInv
  <1>1. /\ pc[s] = "update" /\ size \in todo[s] /\ Update(hand[s][1], size)
        /\ todo' = [todo EXCEPT ![s] = @ \ {size}]
        /\ \/ todo[s] = {size} /\ pc' = [pc EXCEPT ![s] = "enter"] /\ hand' = [hand EXCEPT ![s] = <<>>]
           \/ todo[s] # {size} /\ pc' = pc /\ hand' = hand
        /\ UNCHANGED <<now, running, starts, ctrl, notified, sent, calling, queue, created,
                       fin, watermark, finShards, finTodo, emitted>>
    BY DEF ShardUpdate, ctrlVars, callVars, finVars
  <1>2. PICK t \in Trades : t = hand[s][1] /\ hand[s] = <<t>>
    BY <1>1, HandFacts
  <1>3. /\ pc \in [Shards -> {"exited", "enter", "blocking", "waiting", "get", "update"}]
        /\ todo \in [Shards -> SUBSET WindowSizes] /\ hand \in [Shards -> Seq(Trades)]
        /\ pc' \in [Shards -> {"exited", "enter", "blocking", "waiting", "get", "update"}]
        /\ todo' \in [Shards -> SUBSET WindowSizes] /\ hand' \in [Shards -> Seq(Trades)]
    <2>1. /\ pc \in [Shards -> {"exited", "enter", "blocking", "waiting", "get", "update"}]
          /\ todo \in [Shards -> SUBSET WindowSizes] /\ hand \in [Shards -> Seq(Trades)]
      BY DEF TypeOK, Threads
    <2>2. <<>> \in Seq(Trades)
      BY EmptySeq
    <2>3. QED
      BY <1>1, <2>1, <2>2
  <1>4. /\ todo'[s] = todo[s] \ {size}
        /\ \A r \in Shards : r # s => todo'[r] = todo[r] /\ pc'[r] = pc[r] /\ hand'[r] = hand[r]
        /\ \/ todo'[s] = {} /\ pc'[s] = "enter" /\ hand'[s] = <<>>
           \/ pc'[s] = "update" /\ hand'[s] = <<t>>
    BY <1>1, <1>2, <1>3
  <1>5. InHand(s, t, size)
    BY <1>1, <1>2 DEF InHand
  <1>6. t \in sent /\ NoCaller(t) /\ NoQueue(t) /\ OneHand(t, size) /\ NoCandle(t, size)
    <2>1. IF t \in sent THEN Somewhere(t, size) ELSE Nowhere(t, size)
      BY DEF Located
    <2>2. ~NoHand(t, size)
      BY <1>5 DEF NoHand
    <2>3. QED
      BY <2>1, <2>2 DEF Somewhere, Nowhere
  <1>7. PICK gone \in SUBSET candles, new \in CandleType : Replaces(new, gone, t, size)
    <2>1. Update(t, size)
      BY <1>1, <1>2
    <2>2. QED
      BY <1>6, <2>1, UpdateCandle
  <1> USE DEF Replaces
  <1>8. /\ AllCandles' \subseteq AllCandles \cup {new} /\ new \in AllCandles'
        /\ new \notin AllCandles /\ AllCandles \ gone \subseteq AllCandles'
        /\ AllCandles' \cap gone = {} /\ emitted' = emitted
    <2>1. t \in SeqRange(new.trades)
      BY <1>7
    <2>2. new \notin AllCandles
      BY <1>6, <1>7, <2>1 DEF NoCandle, InCandle
    <2>3. emitted' = emitted /\ emitted \cap gone = {}
      BY <1>1, <1>7 DEF Windows
    <2>4. QED
      BY <1>7, <2>2, <2>3 DEF AllCandles
  <1>9. lastTrade' \in [Pairs \X WindowSizes -> Nat]
    <2>1. t.ts \in Nat
      BY TradeFacts
    <2>2. lastTrade' = [lastTrade EXCEPT ![<<t.pair, size>>] = IF t.ts > @ THEN t.ts ELSE @]
      BY <1>1, <1>2 DEF Update
    <2>3. lastTrade \in [Pairs \X WindowSizes -> Nat]
      BY DEF TypeOK
    <2>4. QED
      BY <2>1, <2>2, <2>3
  <1>10. TypeOK'
    <2>1. \A r \in Shards : hand'[r] = <<>> \/ \E u \in Trades : hand'[r] = <<u>>
      BY <1>4 DEF TypeOK
    <2>2. \A c, d \in candles' :
              c.pair = d.pair /\ c.size = d.size /\ c.open_time = d.open_time => c = d
      BY <1>7 DEF TypeOK
    <2>3. QED
      BY <1>1, <1>3, <1>9, <2>1, <2>2 DEF TypeOK
  <1>11. CandleExact'
    BY <1>1, <1>7, <1>8 DEF CandleExact
  <1>12. Windows'
    <2>1. AllCandles' \subseteq CandleType /\ \A c \in AllCandles' : c.close_time = c.open_time + c.size
      BY <1>7, <1>8 DEF Windows
    <2>2. candles' \cap emitted' = {}
      BY <1>7, <1>8 DEF Windows, AllCandles
    <2>3. QED
      BY <1>1, <2>1, <2>2 DEF Windows
  <1>13. Threads'
    <2>1. \A r \in Shards : /\ pc'[r] \in {"get", "update"} => hand'[r] # <<>>
                            /\ pc'[r] # "update" => todo'[r] = {}
      <3>1. \A r \in Shards : r # s => /\ pc[r] \in {"get", "update"} => hand[r] # <<>>
                                       /\ pc[r] # "update" => todo[r] = {}
        BY DEF Threads
      <3>2. <<t>> # <<>>
        BY OneTrade
      <3>3. QED
        BY <1>4, <3>1, <3>2
    <2>2. ~(ctrl = "idle" /\ ~running)
      BY <1>1 DEF Threads
    <2>3. QED
      BY <1>1, <1>3, <2>1, <2>2 DEF Threads
  <1>14. Located'
    <2> SUFFICES ASSUME NEW u \in Trades, NEW other \in WindowSizes
                 PROVE  IF u \in sent THEN Somewhere(u, other)' ELSE Nowhere(u, other)'
      BY <1>1 DEF Located
    <2>1. /\ (NoCaller(u)' <=> NoCaller(u)) /\ (OneCaller(u)' <=> OneCaller(u))
          /\ (NoQueue(u)' <=> NoQueue(u)) /\ (OneQueue(u)' <=> OneQueue(u))
      BY <1>1 DEF NoCaller, OneCaller, NoQueue, OneQueue
    <2>2. \A r \in Shards : r # s => (InHand(r, u, other)' <=> InHand(r, u, other))
      BY <1>4 DEF InHand
    <2>3. IF u \in sent THEN Somewhere(u, other) ELSE Nowhere(u, other)
      BY DEF Located
    <2>4. CASE u = t /\ other = size
      <3>1. NoHand(u, other)'
        <4>1. ~InHand(s, u, other)'
          BY <1>4, <2>4 DEF InHand
        <4>2. \A r \in Shards : InHand(r, u, other) => r = s
          BY <1>5, <1>6, <2>4 DEF OneHand
        <4>3. QED
          BY <2>2, <4>1, <4>2 DEF NoHand
      <3>2. OneCandle(u, other)'
        <4>1. InCandle(new, u, other)
          BY <1>7, <2>4 DEF InCandle
        <4>2. \A d \in AllCandles' : InCandle(d, u, other) => d = new
          BY <1>6, <1>8, <2>4 DEF NoCandle
        <4>3. QED
          BY <1>8, <4>1, <4>2 DEF OneCandle, InCandle
      <3>3. QED
        BY <1>6, <2>1, <2>4, <3>1, <3>2 DEF Somewhere
    <2>5. CASE ~(u = t /\ other = size)
      <3>1. InHand(s, u, other)' <=> InHand(s, u, other)
        <4>1. CASE u # t
          <5>1. hand[s] # <<u>> /\ hand'[s] # <<u>>
            BY <1>2, <1>4, <4>1, OneTrade
          <5>2. QED
            BY <5>1 DEF InHand
        <4>2. CASE u = t /\ other # size
          <5>1. other \in todo'[s] <=> other \in todo[s]
            BY <1>4, <4>2
          <5>2. pc[s] # "get" /\ pc'[s] # "get" /\ hand[s] = <<u>>
            BY <1>1, <1>2, <1>4, <4>2
          <5>3. other \in todo'[s] => hand'[s] = <<u>>
            BY <1>4, <4>2
          <5>4. QED
            BY <5>1, <5>2, <5>3 DEF InHand
        <4>3. QED
          BY <2>5, <4>1, <4>2
      <3>2. (NoHand(u, other)' <=> NoHand(u, other)) /\ (OneHand(u, other)' <=> OneHand(u, other))
        BY <2>2, <3>1 DEF NoHand, OneHand
      <3>3. InCandle(new, u, other) <=> \E c \in gone : InCandle(c, u, other)
        BY <1>7, <2>5 DEF InCandle
      <3>4. NoCandle(u, other) => NoCandle(u, other)'
        <4> SUFFICES ASSUME NoCandle(u, other) PROVE \A c \in AllCandles' : ~InCandle(c, u, other)
          BY DEF NoCandle, InCandle
        <4>1. ~InCandle(new, u, other)
          BY <1>7, <3>3 DEF NoCandle, AllCandles
        <4>2. QED
          BY <1>8, <4>1 DEF NoCandle
      <3>5. OneCandle(u, other) => OneCandle(u, other)'
        <4> SUFFICES ASSUME NEW c \in AllCandles, InCandle(c, u, other),
                            \A d \in AllCandles : InCandle(d, u, other) => d = c
                     PROVE  \E e \in AllCandles' : /\ InCandle(e, u, other)
                                                   /\ \A d \in AllCandles' : InCandle(d, u, other) => d = e
          BY DEF OneCandle, InCandle
        <4>1. CASE c \in gone
          <5>1. InCandle(new, u, other)
            BY <3>3, <4>1
          <5>2. \A d \in AllCandles' : InCandle(d, u, other) => d = new
            BY <1>8, <4>1
          <5>3. QED
            BY <1>8, <5>1, <5>2
        <4>2. CASE c \notin gone
          <5>1. ~InCandle(new, u, other)
            BY <1>7, <3>3, <4>2 DEF AllCandles
          <5>2. \A d \in AllCandles' : InCandle(d, u, other) => d = c
            BY <1>8, <5>1
          <5>3. c \in AllCandles'
            BY <1>8, <4>2
          <5>4. QED
            BY <5>2, <5>3
        <4>3. QED
          BY <4>1, <4>2
      <3>6. QED
        BY <2>1, <2>3, <3>2, <3>4, <3>5 DEF Somewhere, Nowhere
    <2>6. QED
      BY <2>4, <2>5
  <1>15. QED
    BY <1>10, <1>11, <1>12, <1>13, <1>14
-----------------------------------------------------------------------------
\* The theorems.

\* The worker's invariant is inductive, so it holds always.
THEOREM CandleWorkerCorrect == Spec => []CandleWorkerInv
  <1>1. Init => CandleWorkerInv
    <2> SUFFICES ASSUME Init PROVE CandleWorkerInv
      OBVIOUS
    <2>1. TypeOK
      <3>1. queue \in [Shards -> Seq(Trades)]
        BY EmptySeq DEF Init
      <3>2. now \in 0..MaxTime /\ starts \in 0..MaxStarts /\ watermark \in 0..MaxTime
        BY CandleWorkerAssumption DEF Init
      <3>3. /\ \A p \in Callers : calling[p] = <<>>
            /\ \A s \in Shards : hand[s] = <<>>
            /\ pc \in [Shards -> {"exited", "enter", "blocking", "waiting", "get", "update"}]
            /\ todo \in [Shards -> SUBSET WindowSizes]
            /\ lastTrade \in [Pairs \X WindowSizes -> Nat]
        BY DEF Init
      <3>4. QED
        BY <3>1, <3>2, <3>3 DEF Init, TypeOK
    <2>2. CandleExact /\ Windows
      BY DEF Init, CandleExact, Windows, AllCandles
    <2>3. Threads
      BY EmptySeq DEF Init, Threads
    <2>4. Located
      <3>1. \A p \in Callers : calling[p] = <<>>
        BY DEF Init
      <3>2. \A s \in Shards : hand[s] = <<>> /\ queue[s] = <<>> /\ Len(queue[s]) = 0
        BY EmptySeq DEF Init
      <3>3. AllCandles = {} /\ sent = {}
        BY DEF Init, AllCandles
      <3>4. \A t \in Trades : NoCaller(t) /\ NoQueue(t)
        BY <3>1, <3>2, OneTrade DEF NoCaller, NoQueue
      <3>5. \A t \in Trades, size \in WindowSizes : NoHand(t, size) /\ NoCandle(t, size)
        BY <3>2, <3>3, OneTrade DEF NoHand, InHand, NoCandle
      <3>6. QED
        BY <3>3, <3>4, <3>5 DEF Located, Nowhere
    <2>5. QED
      BY <2>1, <2>2, <2>3, <2>4 DEF CandleWorkerInv, WorkerInv
  <1>2. CandleWorkerInv /\ [Next]_vars => CandleWorkerInv'
    <2> SUFFICES ASSUME CandleWorkerInv, [Next]_vars PROVE CandleWorkerInv'
      OBVIOUS
    <2>1. CASE UNCHANGED vars
      <3>1. WorkerInv' /\ Windows' /\ Threads'
        BY <2>1 DEF vars, CandleWorkerInv, WorkerInv, TypeOK, CandleExact, Windows, Threads, AllCandles
      <3>2. Located'
        <4>1. \A s \in Shards, t \in Trades, size \in WindowSizes :
                  InHand(s, t, size)' <=> InHand(s, t, size)
          BY <2>1 DEF vars, InHand
        <4>2. /\ sent' = sent /\ calling' = calling /\ queue' = queue /\ AllCandles' = AllCandles
          BY <2>1 DEF vars, AllCandles
        <4>3. QED
          BY <4>1, <4>2, PlacesKept DEF CandleWorkerInv
      <3>3. QED
        BY <3>1, <3>2 DEF CandleWorkerInv
    <2>2. CASE Next
      <3>1. CASE \E s \in Shards : ShardLoop(s)
        BY <3>1, PopStep, WaitStep, GetWindowsStep, UpdateStep DEF ShardLoop
      <3>2. CASE Finalizer
        BY <3>2, FinalizerStep, FinWindowStep DEF Finalizer
      <3>3. CASE Start \/ StopBegin \/ StopRest \/ Advance
        BY <3>3, ControlStep, FinalizerStep DEF StopRest
      <3>4. QED
        BY <2>2, <3>1, <3>2, <3>3, CheckStep, PushStep DEF Next
    <2>3. QED
      BY <2>1, <2>2
  <1>3. QED
    BY <1>1, <1>2, PTL DEF Spec

\* The state has its type, no window has two open candles, and every candle,
\* open or emitted, is exactly what its trades make it, whatever update() and
\* finalize_old_candles do between each other's steps.
THEOREM WorkerTheorem == Spec => []WorkerInv
  <1>1. CandleWorkerInv => WorkerInv
    BY DEF CandleWorkerInv
  <1>2. QED
    BY <1>1, CandleWorkerCorrect, PTL

\* A trade on_trade accepted is in exactly one place per window size, from the
\* caller through the queue and the shard's thread to one candle: none is lost
\* and none counted twice.
THEOREM OnceTheorem == Spec => []EachTradeOnce
  <1>1. CandleWorkerInv => EachTradeOnce
    <2> SUFFICES ASSUME CandleWorkerInv, NEW t \in sent, NEW size \in WindowSizes
                 PROVE  Cardinality(Places(t, size)) = 1
      BY DEF EachTradeOnce
    <2>1. t \in Trades /\ Somewhere(t, size)
      BY DEF CandleWorkerInv, WorkerInv, TypeOK, Located
    <2> DEFINE C == {<<"caller", p>> : p \in {q \in Callers : calling[q] = <<t>>}}
               Q == UNION {{<<"queue", s, i>> : i \in {j \in 1..Len(queue[s]) : queue[s][j] = t}} :
                              s \in Shards}
               H == {<<"hand", s>> : s \in {r \in Shards : hand[r] = <<t>>
                                               /\ (pc[r] = "get" \/ size \in todo[r])}}
               D == {<<"candle", c>> : c \in {d \in AllCandles : d.size = size
                                                 /\ t \in SeqRange(d.trades)}}
    <2>2. Places(t, size) = C \cup Q \cup H \cup D
      BY DEF Places
    <2>3. /\ NoCaller(t) => C = {}
          /\ NoQueue(t) => Q = {}
          /\ NoHand(t, size) => H = {}
          /\ NoCandle(t, size) => D = {}
      BY DEF NoCaller, NoQueue, NoHand, InHand, NoCandle, InCandle
    <2>4. OneCaller(t) => \E x : C = {x}
      <3> SUFFICES ASSUME NEW p \in Callers, calling[p] = <<t>>,
                          \A q \in Callers : calling[q] = <<t>> => q = p
                   PROVE  C = {<<"caller", p>>}
        BY DEF OneCaller
      <3>1. {q \in Callers : calling[q] = <<t>>} = {p}
        OBVIOUS
      <3>2. QED
        BY <3>1
    <2>5. OneQueue(t) => \E x : Q = {x}
      <3> SUFFICES ASSUME NEW s \in Shards, NEW i \in 1..Len(queue[s]), queue[s][i] = t,
                          \A r \in Shards : \A j \in 1..Len(queue[r]) :
                              queue[r][j] = t => r = s /\ j = i
                   PROVE  Q = {<<"queue", s, i>>}
        BY DEF OneQueue
      <3>1. {j \in 1..Len(queue[s]) : queue[s][j] = t} = {i}
        OBVIOUS
      <3>2. \A r \in Shards : r # s => {j \in 1..Len(queue[r]) : queue[r][j] = t} = {}
        OBVIOUS
      <3>3. QED
        BY <3>1, <3>2
    <2>6. OneHand(t, size) => \E x : H = {x}
      <3> SUFFICES ASSUME NEW s \in Shards, InHand(s, t, size),
                          \A r \in Shards : InHand(r, t, size) => r = s
                   PROVE  H = {<<"hand", s>>}
        BY DEF OneHand
      <3>1. {r \in Shards : hand[r] = <<t>> /\ (pc[r] = "get" \/ size \in todo[r])} = {s}
        BY DEF InHand
      <3>2. QED
        BY <3>1
    <2>7. OneCandle(t, size) => \E x : D = {x}
      <3> SUFFICES ASSUME NEW c \in AllCandles, InCandle(c, t, size),
                          \A d \in AllCandles : InCandle(d, t, size) => d = c
                   PROVE  D = {<<"candle", c>>}
        BY DEF OneCandle
      <3>1. {d \in AllCandles : d.size = size /\ t \in SeqRange(d.trades)} = {c}
        BY DEF InCandle
      <3>2. QED
        BY <3>1
    <2> HIDE DEF C, Q, H, D
    <2>8. \E x : Places(t, size) = {x}
      BY <2>1, <2>2, <2>3, <2>4, <2>5, <2>6, <2>7 DEF Somewhere
    <2>9. QED
      BY <2>8, FS_Singleton
  <1>2. QED
    BY <1>1, CandleWorkerCorrect, PTL
=============================================================================

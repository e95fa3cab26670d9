---------------------------- MODULE CandleWorker ----------------------------
(***************************************************************************)
(* The candle worker (state/candle_cpp/src/candle_worker.cpp): callers of  *)
(* on_trade, one thread per shard that applies the queued trades to the    *)
(* windows of their pair, a thread that finalizes and emits the candles    *)
(* whose window has closed, and a controller that starts and stops them.   *)
(*                                                                         *)
(* A step is a critical section, or what a thread does between two of      *)
(* them.  The amounts of a trade are added up, so a candle's volumes are   *)
(* determined by the trades it holds: a candle keeps their list.           *)
(***************************************************************************)
EXTENDS Integers, Sequences, FiniteSets

CONSTANTS
    Pairs,
    Shards,
    ShardOf,      \* get_shard_for_pair
    WindowSizes,  \* in seconds
    Trades,       \* the trades: id, pair, ts, price
    Callers,      \* the threads that call on_trade
    MaxTime,      \* bound: the last second of the clock
    MaxStarts     \* bound: how many times the worker is started

ASSUME CandleWorkerAssumption ==
    /\ ShardOf \in [Pairs -> Shards]
    /\ WindowSizes \subseteq Nat \ {0}
    /\ \A t \in Trades : t.pair \in Pairs /\ t.ts \in Nat /\ t.price \in Int
    /\ MaxTime \in Nat
    /\ MaxStarts \in Nat

VARIABLES
    now,        \* the system clock
    running,    \* running_
    starts,     \* how many times start() was called
    ctrl,       \* the controller: "idle", or in stop(): "joinFinalizer", "notify", "joinShards"
    notified,   \* the shards stop() has notified
    sent,       \* the trades given to on_trade
    calling,    \* per caller: the trade between on_trade's check and its push, if any
    queue,      \* per shard: Shard.queue
    pc,         \* per shard: where its thread is
    hand,       \* per shard: the trade its thread took, as a sequence of length 0 or 1
    todo,       \* per shard: the windows this trade is still to be applied to
    created,    \* the pairs with windows (Shard.windows)
    candles,    \* the open candles of all windows
    lastTrade,  \* CandleWindow.last_trade_time
    fin,        \* the finalizer: "none", "loop", "sleep", "next", "pass", "done"
    watermark,  \* the finalizer's clock reading
    finShards,  \* the shards it is still to visit
    finTodo,    \* the windows of the shard whose mutex it holds that are still to do
    emitted     \* the candles given to the publisher

vars == <<now, running, starts, ctrl, notified, sent, calling, queue, pc, hand, todo,
          created, candles, lastTrade, fin, watermark, finShards, finTodo, emitted>>

ctrlVars == <<running, starts, ctrl, notified>>
callVars == <<sent, calling>>
shardVars == <<queue, pc, hand, todo>>
windowVars == <<created, candles, lastTrade>>
finVars == <<fin, watermark, finShards, finTodo, emitted>>
-----------------------------------------------------------------------------
\* CandleWindow.

get_window_start(ts, size) == (ts \div size) * size

\* The candle of trade t's window, as a set of at most one.
CandleAt(t, size) ==
    {c \in candles : c.pair = t.pair /\ c.size = size /\ c.open_time = get_window_start(t.ts, size)}

NewCandle(t, size) ==
    [pair |-> t.pair, size |-> size,
     open_time |-> get_window_start(t.ts, size),
     close_time |-> get_window_start(t.ts, size) + size,
     open |-> t.price, high |-> t.price, low |-> t.price, close |-> t.price,
     trades |-> <<t>>]

MutantAddTrade(c, t) ==
    [c EXCEPT !.high = IF t.price > @ THEN t.price ELSE @,
              !.low = IF t.price < c.close THEN t.price ELSE @,
              !.close = t.price,
              !.trades = Append(@, t)]

AddTrade(c, t) ==
    [c EXCEPT !.high = IF t.price > @ THEN t.price ELSE @,
              !.low = IF t.price < @ THEN t.price ELSE @,
              !.close = t.price,
              !.trades = Append(@, t)]

MutantUpdate(t, size) ==
    /\ candles' = candles \cup {NewCandle(t, size)}
    /\ lastTrade' = [lastTrade EXCEPT ![<<t.pair, size>>] = IF t.ts > @ THEN t.ts ELSE @]

\* update().
Update(t, size) ==
    LET found == CandleAt(t, size)
    IN  /\ candles' = (candles \ found)
               \cup (IF found = {} THEN {NewCandle(t, size)} ELSE {AddTrade(c, t) : c \in found})
        /\ lastTrade' = [lastTrade EXCEPT ![<<t.pair, size>>] = IF t.ts > @ THEN t.ts ELSE @]

\* The candles finalize_old_candles takes out.
Closed(pair, size) ==
    {c \in candles : c.pair = pair /\ c.size = size /\ c.close_time <= watermark}
-----------------------------------------------------------------------------
\* on_trade.

\* The check of running_; a trade that finds the worker stopped is dropped and
\* not counted as sent.
OnTradeCheck(p, t) ==
    /\ running
    /\ calling[p] = <<>>
    /\ t \notin sent
    /\ sent' = sent \cup {t}
    /\ calling' = [calling EXCEPT ![p] = <<t>>]
    /\ UNCHANGED <<now, ctrlVars, shardVars, windowVars, finVars>>

\* A thread in the middle of queue_cv.wait, its predicate evaluated and still
\* holding the mutex.
HoldsQueue(s) == pc[s] = "blocking"

\* queue_cv.notify_one and notify_all: at most one thread waits.
Notified(s) == [pc EXCEPT ![s] = IF @ = "waiting" THEN "enter" ELSE @]

MutantPushSilently(p) ==
    /\ calling[p] # <<>>
    /\ LET t == calling[p][1]
           s == ShardOf[t.pair]
       IN  /\ ~HoldsQueue(s)
           /\ queue' = [queue EXCEPT ![s] = Append(@, t)]
    /\ calling' = [calling EXCEPT ![p] = <<>>]
    /\ UNCHANGED <<now, ctrlVars, sent, pc, hand, todo, windowVars, finVars>>

\* The push, under the queue's mutex, and the notification.
OnTradePush(p) ==
    /\ calling[p] # <<>>
    /\ LET t == calling[p][1]
           s == ShardOf[t.pair]
       IN  /\ ~HoldsQueue(s)
           /\ queue' = [queue EXCEPT ![s] = Append(@, t)]
           /\ pc' = Notified(s)
    /\ calling' = [calling EXCEPT ![p] = <<>>]
    /\ UNCHANGED <<now, ctrlVars, sent, hand, todo, windowVars, finVars>>
-----------------------------------------------------------------------------
\* shard_loop.

MutantPeek(s) ==
    /\ pc[s] = "enter"
    /\ queue[s] # <<>>
    /\ hand' = [hand EXCEPT ![s] = <<Head(queue[s])>>]
    /\ pc' = [pc EXCEPT ![s] = "get"]
    /\ UNCHANGED <<now, ctrlVars, callVars, queue, todo, windowVars, finVars>>

\* With the mutex: the first trade is taken.
ShardPop(s) ==
    /\ pc[s] = "enter"
    /\ queue[s] # <<>>
    /\ hand' = [hand EXCEPT ![s] = <<Head(queue[s])>>]
    /\ queue' = [queue EXCEPT ![s] = Tail(@)]
    /\ pc' = [pc EXCEPT ![s] = "get"]
    /\ UNCHANGED <<now, ctrlVars, callVars, todo, windowVars, finVars>>

\* With the mutex: the worker is stopped and nothing is queued.
ShardExit(s) ==
    /\ pc[s] = "enter"
    /\ queue[s] = <<>>
    /\ ~running
    /\ pc' = [pc EXCEPT ![s] = "exited"]
    /\ UNCHANGED <<now, ctrlVars, callVars, queue, hand, todo, windowVars, finVars>>

\* With the mutex: the predicate of the wait is false ...
ShardWait(s) ==
    /\ pc[s] = "enter"
    /\ queue[s] = <<>>
    /\ running
    /\ pc' = [pc EXCEPT ![s] = "blocking"]
    /\ UNCHANGED <<now, ctrlVars, callVars, queue, hand, todo, windowVars, finVars>>

\* ... and the thread goes to sleep and lets go of the mutex, in one step.  That
\* it may wake for no reason is left out: it would only look and wait again.
ShardBlock(s) ==
    /\ pc[s] = "blocking"
    /\ pc' = [pc EXCEPT ![s] = "waiting"]
    /\ UNCHANGED <<now, ctrlVars, callVars, queue, hand, todo, windowVars, finVars>>

\* process_trade: get_or_create_windows, which waits for the shard's mutex,
\* held by the finalizer during its pass over the shard.
ShardGetWindows(s) ==
    /\ pc[s] = "get"
    /\ ~(fin = "pass" /\ \E w \in finTodo : w.shard = s)
    /\ created' = created \cup {hand[s][1].pair}
    /\ todo' = [todo EXCEPT ![s] = WindowSizes]
    /\ pc' = [pc EXCEPT ![s] = "update"]
    /\ UNCHANGED <<now, ctrlVars, callVars, queue, hand, candles, lastTrade, finVars>>

\* process_trade: one window after the other, smallest first.
ShardUpdate(s, size) ==
    /\ pc[s] = "update"
    /\ size \in todo[s]
    /\ \A other \in todo[s] : size <= other
    /\ Update(hand[s][1], size)
    /\ todo' = [todo EXCEPT ![s] = @ \ {size}]
    /\ IF todo[s] = {size}
       THEN /\ pc' = [pc EXCEPT ![s] = "enter"]
            /\ hand' = [hand EXCEPT ![s] = <<>>]
       ELSE UNCHANGED <<pc, hand>>
    /\ UNCHANGED <<now, ctrlVars, callVars, queue, created, finVars>>
-----------------------------------------------------------------------------
\* finalize_loop.

FinLoop ==
    /\ fin = "loop"
    /\ fin' = IF running THEN "sleep" ELSE "done"
    /\ UNCHANGED <<now, ctrlVars, callVars, shardVars, windowVars, watermark, finShards, finTodo, emitted>>

FinWake ==
    /\ fin = "sleep"
    /\ fin' = "next"
    /\ watermark' = now
    /\ finShards' = Shards
    /\ UNCHANGED <<now, ctrlVars, callVars, shardVars, windowVars, finTodo, emitted>>

\* The next shard is locked, or the loop goes round.
FinShard ==
    /\ fin = "next"
    /\ \/ /\ finShards = {}
          /\ fin' = "loop"
          /\ UNCHANGED <<finShards, finTodo>>
       \/ \E s \in finShards :
             /\ finShards' = finShards \ {s}
             /\ finTodo' = [shard : {s}, pair : {p \in created : ShardOf[p] = s}, size : WindowSizes]
             /\ fin' = IF finTodo' = {} THEN "next" ELSE "pass"
    /\ UNCHANGED <<now, ctrlVars, callVars, shardVars, windowVars, watermark, emitted>>

\* One window: skipped when it has no last trade, otherwise its closed candles
\* are taken out and emitted.  The last trade is read before the candles are
\* taken, under the window's mutex each time; it never goes back to 0, so a trade
\* that comes between the two is as good as one that comes after them.
FinWindow(w) ==
    /\ fin = "pass"
    /\ w \in finTodo
    /\ LET closed == IF lastTrade[w.pair, w.size] = 0 THEN {} ELSE Closed(w.pair, w.size)
       IN  /\ candles' = candles \ closed
           /\ emitted' = emitted \cup closed
    /\ finTodo' = finTodo \ {w}
    /\ fin' = IF finTodo = {w} THEN "next" ELSE "pass"
    /\ UNCHANGED <<now, ctrlVars, callVars, shardVars, created, lastTrade, watermark, finShards>>
-----------------------------------------------------------------------------
\* start and stop, by one controller.

Start ==
    /\ ctrl = "idle"
    /\ ~running
    /\ starts < MaxStarts
    /\ running' = TRUE
    /\ starts' = starts + 1
    /\ pc' = [s \in Shards |-> "enter"]
    /\ fin' = "loop"
    /\ UNCHANGED <<now, ctrl, notified, callVars, queue, hand, todo, windowVars,
                   watermark, finShards, finTodo, emitted>>

StopBegin ==
    /\ ctrl = "idle"
    /\ running
    /\ running' = FALSE
    /\ ctrl' = "joinFinalizer"
    /\ UNCHANGED <<now, starts, notified, callVars, shardVars, windowVars, finVars>>

StopJoinFinalizer ==
    /\ ctrl = "joinFinalizer"
    /\ fin = "done"
    /\ ctrl' = "notify"
    /\ notified' = {}
    /\ UNCHANGED <<now, running, starts, callVars, shardVars, windowVars, finVars>>

MutantNotifyUnlocked(s) ==
    /\ ctrl = "notify"
    /\ s \notin notified
    /\ notified' = notified \cup {s}
    /\ pc' = Notified(s)
    /\ ctrl' = IF notified' = Shards THEN "joinShards" ELSE "notify"
    /\ UNCHANGED <<now, running, starts, callVars, queue, hand, todo, windowVars, finVars>>

\* The queue's mutex is taken and released, then the thread is notified.
StopNotify(s) ==
    /\ ctrl = "notify"
    /\ s \notin notified
    /\ ~HoldsQueue(s)
    /\ notified' = notified \cup {s}
    /\ pc' = Notified(s)
    /\ ctrl' = IF notified' = Shards THEN "joinShards" ELSE "notify"
    /\ UNCHANGED <<now, running, starts, callVars, queue, hand, todo, windowVars, finVars>>

StopReturn ==
    /\ ctrl = "joinShards"
    /\ \A s \in Shards : pc[s] = "exited"
    /\ ctrl' = "idle"
    /\ UNCHANGED <<now, running, starts, notified, callVars, shardVars, windowVars, finVars>>

Advance ==
    /\ now < MaxTime
    /\ now' = now + 1
    /\ UNCHANGED <<ctrlVars, callVars, shardVars, windowVars, finVars>>
-----------------------------------------------------------------------------
Init ==
    /\ now = 0
    /\ running = FALSE
    /\ starts = 0
    /\ ctrl = "idle"
    /\ notified = {}
    /\ sent = {}
    /\ calling = [p \in Callers |-> <<>>]
    /\ queue = [s \in Shards |-> <<>>]
    /\ pc = [s \in Shards |-> "exited"]
    /\ hand = [s \in Shards |-> <<>>]
    /\ todo = [s \in Shards |-> {}]
    /\ created = {}
    /\ candles = {}
    /\ lastTrade = [w \in Pairs \X WindowSizes |-> 0]
    /\ fin = "none"
    /\ watermark = 0
    /\ finShards = {}
    /\ finTodo = {}
    /\ emitted = {}

ShardLoop(s) ==
    \/ ShardPop(s)
    \/ ShardExit(s)
    \/ ShardWait(s)
    \/ ShardBlock(s)
    \/ ShardGetWindows(s)
    \/ \E size \in WindowSizes : ShardUpdate(s, size)

Finalizer ==
    \/ FinLoop
    \/ FinWake
    \/ FinShard
    \/ \E w \in finTodo : FinWindow(w)

StopRest ==
    \/ StopJoinFinalizer
    \/ \E s \in Shards : StopNotify(s)
    \/ StopReturn

Next ==
    \/ \E p \in Callers, t \in Trades : OnTradeCheck(p, t)
    \/ \E p \in Callers : OnTradePush(p)
    \/ \E s \in Shards : ShardLoop(s)
    \/ Finalizer
    \/ Start
    \/ StopBegin
    \/ StopRest
    \/ Advance

Spec == Init /\ [][Next]_vars

\* Every thread that can run does, and the clock goes on; nobody has to start
\* or stop the worker or to trade.  A shard's mutex is free again and again, for
\* the second that the finalizer sleeps, so a thread that waits for it gets it.
Fairness ==
    /\ \A p \in Callers : WF_vars(OnTradePush(p))
    /\ \A s \in Shards : WF_vars(ShardLoop(s)) /\ SF_vars(ShardGetWindows(s))
    /\ WF_vars(Finalizer)
    /\ WF_vars(StopRest)
    /\ WF_vars(Advance)

FairSpec == Spec /\ Fairness
-----------------------------------------------------------------------------
\* Properties.

SeqRange(q) == {q[i] : i \in 1..Len(q)}

AllCandles == candles \cup emitted

\* The state has its type, and no window has two open candles.
TypeOK ==
    /\ now \in 0..MaxTime
    /\ running \in BOOLEAN
    /\ starts \in 0..MaxStarts
    /\ ctrl \in {"idle", "joinFinalizer", "notify", "joinShards"}
    /\ notified \subseteq Shards
    /\ sent \subseteq Trades
    /\ \A p \in Callers : calling[p] = <<>> \/ \E t \in Trades : calling[p] = <<t>>
    /\ queue \in [Shards -> Seq(Trades)]
    /\ pc \in [Shards -> {"exited", "enter", "blocking", "waiting", "get", "update"}]
    /\ \A s \in Shards : hand[s] = <<>> \/ \E t \in Trades : hand[s] = <<t>>
    /\ todo \in [Shards -> SUBSET WindowSizes]
    /\ created \subseteq Pairs
    /\ lastTrade \in [Pairs \X WindowSizes -> Nat]
    /\ fin \in {"none", "loop", "sleep", "next", "pass", "done"}
    /\ watermark \in 0..MaxTime
    /\ finShards \subseteq Shards
    /\ finTodo \subseteq [shard : Shards, pair : Pairs, size : WindowSizes]
    /\ \A c, d \in candles :
          c.pair = d.pair /\ c.size = d.size /\ c.open_time = d.open_time => c = d

\* Where a trade that on_trade accepted is, as far as windows of one size are
\* concerned: with its caller, queued, with the shard's thread and not applied
\* yet, or in a candle.
Places(t, size) ==
    {<<"caller", p>> : p \in {q \in Callers : calling[q] = <<t>>}}
        \cup (UNION {{<<"queue", s, i>> : i \in {j \in 1..Len(queue[s]) : queue[s][j] = t}} :
                        s \in Shards})
        \cup {<<"hand", s>> : s \in {r \in Shards : hand[r] = <<t>>
                                        /\ (pc[r] = "get" \/ size \in todo[r])}}
        \cup {<<"candle", c>> : c \in {d \in AllCandles : d.size = size /\ t \in SeqRange(d.trades)}}

\* Each trade that on_trade accepted is counted exactly once in the candles of
\* each window size, whatever the callers, the shard threads, the finalizer and
\* stop do at the same time: it is in one place and never in two.
EachTradeOnce ==
    \A t \in sent, size \in WindowSizes : Cardinality(Places(t, size)) = 1

\* A candle is what its trades make it: open and close are the first and the
\* last applied, high and low their extremes, none is repeated, and each lies
\* in the window.
Exact(c) ==
    LET n == Len(c.trades)
        prices == {c.trades[i].price : i \in 1..n}
    IN  /\ n > 0
        /\ c.open = c.trades[1].price
        /\ c.close = c.trades[n].price
        /\ c.high \in prices /\ \A x \in prices : x <= c.high
        /\ c.low \in prices /\ \A x \in prices : c.low <= x
        /\ \A i \in 1..n : c.open_time <= c.trades[i].ts /\ c.trades[i].ts < c.close_time
        /\ \A i, j \in 1..n : c.trades[i] = c.trades[j] => i = j

\* Candles are exact, and one is emitted only when its window is over.
CandleExact ==
    /\ \A c \in AllCandles : Exact(c)
    /\ \A c \in emitted : c.close_time <= now

\* The worker's state: its type, and candles that update and the finalizer,
\* between each other's steps, keep exact.
WorkerInv ==
    /\ TypeOK
    /\ CandleExact

\* stop() returns: no thread that it joins sleeps through its notification.
StopReturns == (ctrl # "idle") ~> (ctrl = "idle")

\* An accepted trade is emitted in a candle of every window size, unless the
\* worker is stopped: no trade waits in a queue whose thread sleeps.
EventuallyEmitted ==
    \A t \in Trades, size \in WindowSizes :
        t \in sent ~> \/ \E c \in emitted : c.size = size /\ t \in SeqRange(c.trades)
                      \/ ~running
=============================================================================

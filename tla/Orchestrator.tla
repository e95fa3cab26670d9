---------------------------- MODULE Orchestrator ----------------------------
(***************************************************************************)
(* The backfill orchestrator (backfill/orchestrator): Run slices the       *)
(* configured slot span into ranges in a producer goroutine and processes  *)
(* them in Concurrency workers, all in one errgroup: the first error       *)
(* cancels the context of all.                                             *)
(*                                                                         *)
(* MaxUint64 is a parameter: the arithmetic is that of the code on a       *)
(* smaller word.  The work channel is unbuffered, so a send and a receive  *)
(* are one step.                                                           *)
(***************************************************************************)
EXTENDS Integers, FiniteSets

CONSTANTS
    MaxUint64,  \* the largest value of the slot type
    Workers     \* the worker goroutines; Concurrency is their number

ASSUME OrchestratorAssumption ==
    /\ MaxUint64 \in Nat \ {0}
    /\ Workers # {}

VARIABLES
    cfg,         \* Config: StartSlot, EndSlot, BatchSize
    producer,    \* "loop" at the head of the for, "send" in the select, "done" returned
    start,       \* the producer's next slot
    batch,       \* the range in the select: StartSlot, EndSlot, and overflow of the addition
    worker,      \* per worker: "idle" in the receive, "busy" in the processor, "done" returned
    work,        \* per worker: the last range received
    cancelled,   \* the errgroup's context
    firstErr,    \* the errgroup's first error, or "nil"
    result,      \* Run's result, or "running"
    dispatched,  \* history: the slots of the ranges received by workers
    processed,   \* history: the slots of the ranges whose processing succeeded
    late         \* history: how many ranges were sent after the cancellation

vars == <<cfg, producer, start, batch, worker, work, cancelled, firstErr,
          result, dispatched, processed, late>>

producerVars == <<producer, start, batch>>
workerVars == <<worker, work, processed>>
-----------------------------------------------------------------------------
UInt64 == 0..MaxUint64

\* Config.Validate, as New requires it (Concurrency > 0 is Workers # {}).
ValidConfigs ==
    {c \in [StartSlot : UInt64, EndSlot : UInt64, BatchSize : UInt64] :
        /\ c.EndSlot # 0 => c.StartSlot < c.EndSlot
        /\ c.BatchSize # 0}

hasLimit == cfg.EndSlot # 0

\* The slots of a range: inclusive-exclusive.
SlotsOf(r) == r.StartSlot..(r.EndSlot - 1)

valid(r) == r.EndSlot > r.StartSlot

MutantAddWraps(a, b) ==
    [sum |-> (a + b) % (MaxUint64 + 1), overflow |-> MaxUint64 - a < b]

MutantAddUnchecked(a, b) == [sum |-> a + b, overflow |-> FALSE]

addWithOverflow(a, b) ==
    IF b = 0 THEN [sum |-> a, overflow |-> FALSE]
    ELSE IF MaxUint64 - a < b THEN [sum |-> MaxUint64, overflow |-> TRUE]
    ELSE [sum |-> a + b, overflow |-> FALSE]

MutantNoClamp(s) ==
    LET next == addWithOverflow(s, cfg.BatchSize)
    IN  [StartSlot |-> s, EndSlot |-> next.sum, overflow |-> next.overflow]

\* The range the producer cuts off at slot s.
NextRange(s) ==
    LET next == addWithOverflow(s, cfg.BatchSize)
    IN  [StartSlot |-> s,
         EndSlot |-> IF hasLimit /\ next.sum > cfg.EndSlot THEN cfg.EndSlot ELSE next.sum,
         overflow |-> next.overflow]

\* A goroutine of the group returns: the first error is kept and cancels the
\* context.
Report(err) ==
    IF err = "nil" THEN UNCHANGED <<cancelled, firstErr>>
    ELSE /\ cancelled' = TRUE
         /\ firstErr' = IF firstErr = "nil" THEN err ELSE firstErr
-----------------------------------------------------------------------------
\* The producer.

ProducerReturn(err) ==
    /\ producer' = "done"
    /\ Report(err)
    /\ UNCHANGED <<cfg, start, batch, workerVars, result, dispatched, late>>

MutantNoCtxCheck ==
    /\ producer = "loop"
    /\ IF hasLimit /\ start >= cfg.EndSlot THEN ProducerReturn("nil")
       ELSE IF ~valid(NextRange(start))
            THEN ProducerReturn(IF NextRange(start).overflow THEN "nil" ELSE "error")
            ELSE /\ producer' = "send"
                 /\ batch' = NextRange(start)
                 /\ UNCHANGED <<cfg, start, workerVars, cancelled, firstErr, result, dispatched, late>>

\* From the head of the loop to the select, or to one of the returns before it.
Prepare ==
    /\ producer = "loop"
    /\ \/ /\ cancelled
          /\ ProducerReturn("canceled")
       \/ /\ ~cancelled
          /\ hasLimit /\ start >= cfg.EndSlot
          /\ ProducerReturn("nil")
       \/ /\ ~cancelled
          /\ ~(hasLimit /\ start >= cfg.EndSlot)
          /\ ~valid(NextRange(start))
          /\ ProducerReturn(IF NextRange(start).overflow THEN "nil" ELSE "error")
       \/ /\ ~cancelled
          /\ ~(hasLimit /\ start >= cfg.EndSlot)
          /\ valid(NextRange(start))
          /\ producer' = "send"
          /\ batch' = NextRange(start)
          /\ UNCHANGED <<cfg, start, workerVars, cancelled, firstErr, result, dispatched, late>>

MutantInclusiveEnd(w) ==
    /\ producer = "send"
    /\ worker[w] = "idle"
    /\ worker' = [worker EXCEPT ![w] = "busy"]
    /\ work' = [work EXCEPT ![w] = batch]
    /\ start' = batch.EndSlot - 1
    /\ producer' = IF ~hasLimit /\ batch.overflow THEN "done" ELSE "loop"
    /\ dispatched' = dispatched \cup SlotsOf(batch)
    /\ late' = IF cancelled THEN late + 1 ELSE late
    /\ UNCHANGED <<cfg, batch, cancelled, firstErr, result, processed>>

\* The select's send case, with the worker that receives, and the rest of the
\* loop's body.
Send(w) ==
    /\ producer = "send"
    /\ worker[w] = "idle"
    /\ worker' = [worker EXCEPT ![w] = "busy"]
    /\ work' = [work EXCEPT ![w] = batch]
    /\ start' = batch.EndSlot
    /\ producer' = IF ~hasLimit /\ batch.overflow THEN "done" ELSE "loop"
    /\ dispatched' = dispatched \cup SlotsOf(batch)
    /\ late' = IF cancelled THEN late + 1 ELSE late
    /\ UNCHANGED <<cfg, batch, cancelled, firstErr, result, processed>>

MutantBlockingSend == FALSE /\ UNCHANGED vars

\* The select's ctx.Done() case.
SendCancelled ==
    /\ producer = "send"
    /\ cancelled
    /\ ProducerReturn("canceled")
-----------------------------------------------------------------------------
\* The workers.

\* The processor returns nil: the worker goes back to the receive.
Succeed(w) ==
    /\ worker[w] = "busy"
    /\ worker' = [worker EXCEPT ![w] = "idle"]
    /\ processed' = processed \cup SlotsOf(work[w])
    /\ UNCHANGED <<cfg, producerVars, work, cancelled, firstErr, result, dispatched, late>>

\* The processor returns an error, one that wraps context.Canceled or another.
Fail(w, err) ==
    /\ worker[w] = "busy"
    /\ worker' = [worker EXCEPT ![w] = "done"]
    /\ Report(err)
    /\ UNCHANGED <<cfg, producerVars, work, processed, result, dispatched, late>>

\* The channel is closed (the producer's deferred close) and empty: the range
\* loop ends.
WorkerReturn(w) ==
    /\ worker[w] = "idle"
    /\ producer = "done"
    /\ worker' = [worker EXCEPT ![w] = "done"]
    /\ UNCHANGED <<cfg, producerVars, work, processed, cancelled, firstErr, result, dispatched, late>>
-----------------------------------------------------------------------------
\* The caller.

\* The context given to Run is cancelled (SIGINT in cmd/backfill).
Cancel ==
    /\ ~cancelled
    /\ result = "running"
    /\ cancelled' = TRUE
    /\ UNCHANGED <<cfg, producerVars, workerVars, firstErr, result, dispatched, late>>

\* g.Wait: every goroutine returned.
Wait ==
    /\ result = "running"
    /\ producer = "done"
    /\ \A w \in Workers : worker[w] = "done"
    /\ result' = firstErr
    /\ UNCHANGED <<cfg, producerVars, workerVars, cancelled, firstErr, dispatched, late>>

Init ==
    /\ cfg \in ValidConfigs
    /\ producer = "loop"
    /\ start = cfg.StartSlot
    /\ batch = [StartSlot |-> 0, EndSlot |-> 0, overflow |-> FALSE]
    /\ worker = [w \in Workers |-> "idle"]
    /\ work = [w \in Workers |-> batch]
    /\ cancelled = FALSE
    /\ firstErr = "nil"
    /\ result = "running"
    /\ dispatched = {}
    /\ processed = {}
    /\ late = 0

Next ==
    \/ Prepare
    \/ SendCancelled
    \/ \E w \in Workers : Send(w) \/ Succeed(w) \/ WorkerReturn(w)
    \/ \E w \in Workers, err \in {"canceled", "error"} : Fail(w, err)
    \/ Cancel
    \/ Wait

\* The Go scheduler runs every goroutine that can run; a processor call
\* returns.  Nobody has to cancel, and nothing has to fail.
Fairness ==
    /\ WF_vars(Prepare) /\ WF_vars(SendCancelled) /\ WF_vars(Wait)
    /\ \A w \in Workers :
          /\ WF_vars(Send(w))
          /\ WF_vars(WorkerReturn(w))
          /\ WF_vars(Succeed(w) \/ \E err \in {"canceled", "error"} : Fail(w, err))

Spec == Init /\ [][Next]_vars

FairSpec == Spec /\ Fairness
-----------------------------------------------------------------------------
\* Properties.

\* The slots a run is to process.  Without EndSlot the producer goes on to the
\* end of the type, exclusive: a Range cannot contain MaxUint64 itself.
Limit == IF hasLimit THEN cfg.EndSlot ELSE MaxUint64

Span == cfg.StartSlot..(Limit - 1)

Ranges == [StartSlot : UInt64, EndSlot : UInt64, overflow : BOOLEAN]

\* The state has its type: the slot arithmetic stays within uint64.
TypeOK ==
    /\ cfg \in ValidConfigs
    /\ producer \in {"loop", "send", "done"}
    /\ start \in UInt64
    /\ batch \in Ranges
    /\ worker \in [Workers -> {"idle", "busy", "done"}]
    /\ work \in [Workers -> Ranges]
    /\ cancelled \in BOOLEAN
    /\ firstErr \in {"nil", "canceled", "error"}
    /\ result \in {"running", "nil", "canceled", "error"}
    /\ dispatched \subseteq UInt64
    /\ processed \subseteq UInt64
    /\ late \in Nat

\* No slot is processed twice: a range that a worker receives in Run overlaps
\* none that was received before, and no two workers hold the same slot.
RangesDisjoint ==
    [][\A w \in Workers : worker[w] = "idle" /\ worker'[w] = "busy"
          => SlotsOf(work'[w]) \cap dispatched = {}]_vars

\* Run returns nil only when every slot of the configured span was processed:
\* no range is skipped at the end of the span, at the end of the type, by a
\* cancellation or behind another worker's error.
NilMeansComplete == result = "nil" => processed = Span

\* Once the context is cancelled the producer sends at most one more range
\* (its select may choose the send); it never goes round the loop again.
AtMostOneAfterCancel == late <= 1

\* Run returns, whoever fails or cancels and however many workers are left to
\* receive: the producer is never stuck in its send.
Terminates == <>(result # "running")

\* The orchestrator implements the abstract backfill.
Coverage == INSTANCE SlotCoverage
    WITH AllSlots <- UInt64, span <- Span, claimed <- dispatched,
         finished <- processed, outcome <- result

ImplementsCoverage == Coverage!Spec
=============================================================================

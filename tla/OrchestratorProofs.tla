------------------------- MODULE OrchestratorProofs -------------------------
(***************************************************************************)
(* The backfill covers its span, for every configuration, word size and    *)
(* number of workers.                                                      *)
(***************************************************************************)
EXTENDS Orchestrator, TLAPS

\* What has been handed out is an initial segment of the span, and the batch
\* in the select continues it.
Frontier ==
    /\ start \in cfg.StartSlot..Limit
    /\ dispatched = cfg.StartSlot..(start - 1)
    /\ producer = "send" =>
          /\ batch.StartSlot = start
          /\ batch.EndSlot \in (start + 1)..Limit
          /\ ~hasLimit /\ batch.overflow => batch.EndSlot = Limit
    /\ producer = "done" /\ firstErr = "nil" => start = Limit

\* What was handed out is processed, being processed, or lost to an error that
\* the group keeps.
Accounted ==
    /\ processed \subseteq dispatched
    /\ \A w \in Workers : worker[w] = "busy" => SlotsOf(work[w]) \subseteq dispatched
    /\ firstErr = "nil" =>
          \A s \in dispatched :
              s \in processed \/ \E w \in Workers : worker[w] = "busy" /\ s \in SlotsOf(work[w])

\* Run returns after its goroutines, with the group's first error.
Returned ==
    result # "running" =>
        /\ producer = "done"
        /\ \A w \in Workers : worker[w] = "done"
        /\ result = firstErr

\* The inductive invariant.
OrchestratorInv == TypeOK /\ Frontier /\ Accounted /\ Returned
-----------------------------------------------------------------------------
\* The facts about a valid configuration that the arithmetic needs.
LEMMA ConfigFacts ==
    ASSUME TypeOK
    PROVE  /\ cfg.StartSlot \in UInt64 /\ cfg.EndSlot \in UInt64 /\ cfg.BatchSize \in UInt64
           /\ cfg.BatchSize # 0
           /\ hasLimit => cfg.StartSlot < cfg.EndSlot
           /\ Limit \in UInt64 /\ cfg.StartSlot <= Limit
           /\ UInt64 \subseteq Int /\ MaxUint64 \in Nat
  BY OrchestratorAssumption DEF TypeOK, ValidConfigs, UInt64, Limit, hasLimit

\* The range cut off at a slot of the span starts there, ends within the span,
\* and is empty only at the end of the type; addWithOverflow saturates, so an
\* overflow without limit ends the span.
LEMMA NextRangeFacts ==
    ASSUME TypeOK, start \in cfg.StartSlot..Limit, ~(hasLimit /\ start >= cfg.EndSlot)
    PROVE  /\ NextRange(start) \in Ranges
           /\ NextRange(start).StartSlot = start
           /\ valid(NextRange(start)) => NextRange(start).EndSlot \in (start + 1)..Limit
           /\ valid(NextRange(start)) /\ ~hasLimit /\ NextRange(start).overflow
                 => NextRange(start).EndSlot = Limit
           /\ ~valid(NextRange(start)) => NextRange(start).overflow /\ start = Limit
  <1> DEFINE next == addWithOverflow(start, cfg.BatchSize)
  <1>1. start \in UInt64
    BY DEF TypeOK
  <1>2. /\ next.sum \in UInt64 /\ next.overflow \in BOOLEAN
        /\ next.overflow => next.sum = MaxUint64
        /\ ~next.overflow => next.sum > start
    BY <1>1, ConfigFacts, OrchestratorAssumption DEF addWithOverflow, UInt64
  <1> HIDE DEF next
  <1> DEFINE end == IF hasLimit /\ next.sum > cfg.EndSlot THEN cfg.EndSlot ELSE next.sum
  <1>3. NextRange(start) = [StartSlot |-> start, EndSlot |-> end, overflow |-> next.overflow]
    BY DEF NextRange, next
  <1>4. end \in UInt64 /\ end <= Limit
    BY <1>2, ConfigFacts DEF Limit, UInt64
  <1>5. ~(end > start) => next.overflow /\ start = Limit
    BY <1>1, <1>2, ConfigFacts DEF Limit, UInt64
  <1>6. next.overflow /\ ~hasLimit => end = Limit
    BY <1>2 DEF Limit
  <1> HIDE DEF end
  <1>7. NextRange(start) \in Ranges
    BY <1>1, <1>2, <1>3, <1>4 DEF Ranges
  <1>8. valid(NextRange(start)) <=> end > start
    BY <1>3 DEF valid
  <1>9. end > start => end \in (start + 1)..Limit
    BY <1>1, <1>4, ConfigFacts DEF UInt64
  <1>10. QED
    BY <1>3, <1>5, <1>6, <1>7, <1>8, <1>9
-----------------------------------------------------------------------------
\* A goroutine that returns changes the group's context and error and nothing
\* else; an error once kept stays.
LEMMA ReportFacts ==
    ASSUME TypeOK, NEW err \in {"nil", "canceled", "error"}, Report(err)
    PROVE  /\ cancelled' \in BOOLEAN
           /\ firstErr' \in {"nil", "canceled", "error"}
           /\ firstErr' = "nil" <=> firstErr = "nil" /\ err = "nil"
  BY DEF Report, TypeOK

\* The producer returns: with nil only at the end of the span.
LEMMA ProducerReturnStep ==
    ASSUME OrchestratorInv, result = "running", NEW err \in {"nil", "canceled", "error"},
           ProducerReturn(err), err = "nil" => start = Limit
    PROVE  OrchestratorInv'
  <1>1. /\ producer' = "done"
        /\ UNCHANGED <<cfg, start, batch, worker, work, processed, result, dispatched, late>>
        /\ cancelled' \in BOOLEAN /\ firstErr' \in {"nil", "canceled", "error"}
        /\ firstErr' = "nil" <=> firstErr = "nil" /\ err = "nil"
    BY ReportFacts DEF ProducerReturn, workerVars, OrchestratorInv
  <1>2. Limit' = Limit /\ hasLimit' = hasLimit
    BY <1>1 DEF Limit, hasLimit
  <1>3. TypeOK'
    BY <1>1 DEF OrchestratorInv, TypeOK
  <1>4. Frontier'
    BY <1>1, <1>2 DEF OrchestratorInv, Frontier
  <1>5. Accounted'
    BY <1>1 DEF OrchestratorInv, Accounted, SlotsOf
  <1>6. Returned'
    BY <1>1 DEF Returned
  <1>7. QED
    BY <1>3, <1>4, <1>5, <1>6 DEF OrchestratorInv

\* While a goroutine runs, Run has not returned.
LEMMA StillRunning ==
    ASSUME OrchestratorInv
    PROVE  /\ producer # "done" => result = "running"
           /\ \A w \in Workers : worker[w] # "done" => result = "running"
  BY DEF OrchestratorInv, Returned

\* From the head of the loop to the select.
LEMMA PrepareStep ==
    ASSUME OrchestratorInv, Prepare
    PROVE  OrchestratorInv'
  <1>1. result = "running" /\ TypeOK /\ start \in cfg.StartSlot..Limit
    BY StillRunning DEF Prepare, OrchestratorInv, Frontier
  <1>2. CASE cancelled /\ ProducerReturn("canceled")
    BY <1>1, <1>2, ProducerReturnStep
  <1>3. CASE hasLimit /\ start >= cfg.EndSlot /\ ProducerReturn("nil")
    <2>1. start = Limit
      BY <1>1, <1>3, ConfigFacts DEF Limit, UInt64
    <2>2. QED
      BY <1>1, <1>3, <2>1, ProducerReturnStep
  <1>4. CASE /\ ~(hasLimit /\ start >= cfg.EndSlot)
             /\ ~valid(NextRange(start))
             /\ ProducerReturn(IF NextRange(start).overflow THEN "nil" ELSE "error")
    BY <1>1, <1>4, NextRangeFacts, ProducerReturnStep
  <1>5. CASE /\ ~(hasLimit /\ start >= cfg.EndSlot)
             /\ valid(NextRange(start))
             /\ producer' = "send"
             /\ batch' = NextRange(start)
             /\ UNCHANGED <<cfg, start, workerVars, cancelled, firstErr, result, dispatched, late>>
    <2>1. UNCHANGED <<cfg, start, worker, work, processed, cancelled, firstErr, result, dispatched, late>>
      BY <1>5 DEF workerVars
    <2>2. Limit' = Limit /\ hasLimit' = hasLimit
      BY <2>1 DEF Limit, hasLimit
    <2>3. /\ batch' \in Ranges /\ batch'.StartSlot = start
          /\ batch'.EndSlot \in (start + 1)..Limit
          /\ ~hasLimit /\ batch'.overflow => batch'.EndSlot = Limit
      BY <1>1, <1>5, NextRangeFacts
    <2>4. TypeOK'
      BY <1>5, <2>1, <2>3 DEF OrchestratorInv, TypeOK
    <2>5. Frontier'
      BY <1>5, <2>1, <2>2, <2>3 DEF OrchestratorInv, Frontier
    <2>6. Accounted'
      BY <2>1 DEF OrchestratorInv, Accounted, SlotsOf
    <2>7. Returned'
      BY <1>1, <2>1 DEF Returned
    <2>8. QED
      BY <2>4, <2>5, <2>6, <2>7 DEF OrchestratorInv
  <1>6. QED
    BY <1>2, <1>3, <1>4, <1>5 DEF Prepare

\* A worker receives the batch, which continues what was handed out.
LEMMA SendStep ==
    ASSUME OrchestratorInv, NEW w \in Workers, Send(w)
    PROVE  OrchestratorInv' /\ SlotsOf(batch) \cap dispatched = {} /\ SlotsOf(batch) \subseteq Span
  <1>1. /\ result = "running" /\ TypeOK
        /\ start \in cfg.StartSlot..Limit /\ dispatched = cfg.StartSlot..(start - 1)
        /\ batch.StartSlot = start /\ batch.EndSlot \in (start + 1)..Limit
        /\ ~hasLimit /\ batch.overflow => batch.EndSlot = Limit
        /\ worker \in [Workers -> {"idle", "busy", "done"}] /\ work \in [Workers -> Ranges]
    BY StillRunning DEF Send, OrchestratorInv, Frontier, TypeOK
  <1>2. /\ worker' = [worker EXCEPT ![w] = "busy"] /\ work' = [work EXCEPT ![w] = batch]
        /\ worker[w] = "idle" /\ start' = batch.EndSlot
        /\ producer' = IF ~hasLimit /\ batch.overflow THEN "done" ELSE "loop"
        /\ dispatched' = dispatched \cup SlotsOf(batch)
        /\ UNCHANGED <<cfg, batch, cancelled, firstErr, result, processed>>
    BY DEF Send
  <1>3. Limit' = Limit /\ hasLimit' = hasLimit
    BY <1>2 DEF Limit, hasLimit
  <1>4. SlotsOf(batch) = start..(batch.EndSlot - 1)
    BY <1>1 DEF SlotsOf
  <1>5. cfg.StartSlot \in Int /\ Limit \in UInt64 /\ UInt64 \subseteq Int /\ start \in Int
    BY <1>1, ConfigFacts
  <1>6. dispatched' = cfg.StartSlot..(start' - 1)
    BY <1>1, <1>2, <1>4, <1>5
  <1>7. TypeOK'
    <2>1. start' \in UInt64 /\ dispatched' \subseteq UInt64
      BY <1>1, <1>2, <1>4, <1>5, ConfigFacts DEF UInt64, TypeOK
    <2>2. late' \in Nat
      BY DEF Send, OrchestratorInv, TypeOK
    <2>3. QED
      BY <1>1, <1>2, <2>1, <2>2 DEF TypeOK
  <1>8. Frontier'
    <2>1. start' \in cfg.StartSlot..Limit
      BY <1>1, <1>2, <1>5
    <2>2. producer' = "done" => start' = Limit
      BY <1>1, <1>2
    <2>3. QED
      BY <1>2, <1>3, <1>6, <2>1, <2>2 DEF Frontier
  <1>9. Accounted'
    <2>1. processed' \subseteq dispatched'
      BY <1>2 DEF OrchestratorInv, Accounted
    <2>2. \A v \in Workers : worker'[v] = "busy" => SlotsOf(work'[v]) \subseteq dispatched'
      BY <1>1, <1>2 DEF OrchestratorInv, Accounted
    <2>3. ASSUME firstErr' = "nil", NEW s \in dispatched'
          PROVE  s \in processed' \/ \E v \in Workers : worker'[v] = "busy" /\ s \in SlotsOf(work'[v])
      <3>1. CASE s \in SlotsOf(batch)
        BY <3>1, <1>1, <1>2
      <3>2. CASE s \in dispatched
        <4>1. \/ s \in processed
              \/ \E v \in Workers : worker[v] = "busy" /\ s \in SlotsOf(work[v])
          BY <3>2, <2>3, <1>2 DEF OrchestratorInv, Accounted
        <4>2. \A v \in Workers : worker[v] = "busy" => worker'[v] = "busy" /\ work'[v] = work[v]
          BY <1>1, <1>2
        <4>3. QED
          BY <4>1, <4>2, <1>2
      <3>3. QED
        BY <3>1, <3>2, <1>2
    <2>4. QED
      BY <2>1, <2>2, <2>3 DEF Accounted, SlotsOf
  <1>10. Returned'
    BY <1>1, <1>2 DEF Returned
  <1>11. SlotsOf(batch) \cap dispatched = {} /\ SlotsOf(batch) \subseteq Span
    BY <1>1, <1>4, <1>5, ConfigFacts DEF Span, UInt64
  <1>12. QED
    BY <1>7, <1>8, <1>9, <1>10, <1>11 DEF OrchestratorInv

\* A worker's processor returns nil.
LEMMA SucceedStep ==
    ASSUME OrchestratorInv, NEW w \in Workers, Succeed(w)
    PROVE  OrchestratorInv'
  <1>1. /\ result = "running" /\ TypeOK /\ worker[w] = "busy"
        /\ worker \in [Workers -> {"idle", "busy", "done"}]
        /\ SlotsOf(work[w]) \subseteq dispatched
    BY StillRunning DEF Succeed, OrchestratorInv, Accounted, TypeOK
  <1>2. /\ worker' = [worker EXCEPT ![w] = "idle"] /\ processed' = processed \cup SlotsOf(work[w])
        /\ UNCHANGED <<cfg, producer, start, batch, work, cancelled, firstErr, result, dispatched, late>>
    BY DEF Succeed, producerVars
  <1>3. Limit' = Limit /\ hasLimit' = hasLimit
    BY <1>2 DEF Limit, hasLimit
  <1>4. TypeOK'
    BY <1>1, <1>2 DEF TypeOK
  <1>5. Frontier'
    BY <1>2, <1>3 DEF OrchestratorInv, Frontier
  <1>6. Accounted'
    <2>1. processed' \subseteq dispatched'
      BY <1>1, <1>2 DEF OrchestratorInv, Accounted
    <2>2. \A v \in Workers : worker'[v] = "busy" => worker[v] = "busy"
      BY <1>1, <1>2
    <2>3. \A v \in Workers : v # w /\ worker[v] = "busy" => worker'[v] = "busy"
      BY <1>1, <1>2
    <2>4. ASSUME firstErr' = "nil", NEW s \in dispatched'
          PROVE  s \in processed' \/ \E v \in Workers : worker'[v] = "busy" /\ s \in SlotsOf(work[v])
      <3>1. s \in processed \/ \E v \in Workers : worker[v] = "busy" /\ s \in SlotsOf(work[v])
        BY <2>4, <1>2 DEF OrchestratorInv, Accounted
      <3>2. QED
        BY <3>1, <2>3, <1>2
    <2>5. QED
      BY <2>1, <2>2, <2>4, <1>2 DEF OrchestratorInv, Accounted, SlotsOf
  <1>7. Returned'
    BY <1>1, <1>2 DEF Returned
  <1>8. QED
    BY <1>4, <1>5, <1>6, <1>7 DEF OrchestratorInv

\* A worker's processor returns an error: its range is lost, and the group
\* knows.
LEMMA FailStep ==
    ASSUME OrchestratorInv, NEW w \in Workers, NEW err \in {"canceled", "error"}, Fail(w, err)
    PROVE  OrchestratorInv'
  <1>1. /\ result = "running" /\ TypeOK
        /\ worker \in [Workers -> {"idle", "busy", "done"}]
    BY StillRunning DEF Fail, OrchestratorInv, TypeOK
  <1>2. /\ worker' = [worker EXCEPT ![w] = "done"]
        /\ UNCHANGED <<cfg, producer, start, batch, work, processed, result, dispatched, late>>
        /\ cancelled' \in BOOLEAN /\ firstErr' \in {"canceled", "error"}
    BY <1>1, ReportFacts DEF Fail, producerVars
  <1>3. Limit' = Limit /\ hasLimit' = hasLimit
    BY <1>2 DEF Limit, hasLimit
  <1>4. TypeOK'
    BY <1>1, <1>2 DEF TypeOK
  <1>5. Frontier'
    BY <1>2, <1>3 DEF OrchestratorInv, Frontier
  <1>6. Accounted'
    <2>1. \A v \in Workers : worker'[v] = "busy" => worker[v] = "busy"
      BY <1>1, <1>2
    <2>2. QED
      BY <2>1, <1>2 DEF OrchestratorInv, Accounted, SlotsOf
  <1>7. Returned'
    BY <1>1, <1>2 DEF Returned
  <1>8. QED
    BY <1>4, <1>5, <1>6, <1>7 DEF OrchestratorInv

\* A worker finds the channel closed.
LEMMA WorkerReturnStep ==
    ASSUME OrchestratorInv, NEW w \in Workers, WorkerReturn(w)
    PROVE  OrchestratorInv'
  <1>1. /\ result = "running" /\ TypeOK /\ worker[w] = "idle"
        /\ worker \in [Workers -> {"idle", "busy", "done"}]
    BY StillRunning DEF WorkerReturn, OrchestratorInv, TypeOK
  <1>2. /\ worker' = [worker EXCEPT ![w] = "done"]
        /\ UNCHANGED <<cfg, producer, start, batch, work, processed, cancelled, firstErr,
                       result, dispatched, late>>
    BY DEF WorkerReturn, producerVars
  <1>3. Limit' = Limit /\ hasLimit' = hasLimit
    BY <1>2 DEF Limit, hasLimit
  <1>4. TypeOK'
    BY <1>1, <1>2 DEF TypeOK
  <1>5. Frontier'
    BY <1>2, <1>3 DEF OrchestratorInv, Frontier
  <1>6. Accounted'
    <2>1. \A v \in Workers : worker'[v] = "busy" <=> worker[v] = "busy"
      BY <1>1, <1>2
    <2>2. QED
      BY <2>1, <1>2 DEF OrchestratorInv, Accounted, SlotsOf
  <1>7. Returned'
    BY <1>1, <1>2 DEF Returned
  <1>8. QED
    BY <1>4, <1>5, <1>6, <1>7 DEF OrchestratorInv

\* The caller cancels, or collects the result.
LEMMA CallerStep ==
    ASSUME OrchestratorInv, Cancel \/ Wait
    PROVE  OrchestratorInv'
  <1>1. /\ UNCHANGED <<cfg, producer, start, batch, worker, work, processed, firstErr, dispatched, late>>
        /\ cancelled' \in BOOLEAN
        /\ \/ result' = result
           \/ result' = firstErr /\ producer = "done" /\ \A w \in Workers : worker[w] = "done"
    BY DEF Cancel, Wait, producerVars, workerVars, OrchestratorInv, TypeOK
  <1>2. Limit' = Limit /\ hasLimit' = hasLimit
    BY <1>1 DEF Limit, hasLimit
  <1>3. TypeOK'
    BY <1>1 DEF OrchestratorInv, TypeOK
  <1>4. Frontier'
    BY <1>1, <1>2 DEF OrchestratorInv, Frontier
  <1>5. Accounted'
    BY <1>1 DEF OrchestratorInv, Accounted, SlotsOf
  <1>6. Returned'
    BY <1>1 DEF OrchestratorInv, Returned
  <1>7. QED
    BY <1>3, <1>4, <1>5, <1>6 DEF OrchestratorInv

\* A step that changes nothing.
LEMMA StutterStep ==
    ASSUME OrchestratorInv, UNCHANGED vars
    PROVE  OrchestratorInv'
  <1>1. /\ TypeOK' /\ Limit' = Limit /\ hasLimit' = hasLimit
    BY DEF vars, OrchestratorInv, TypeOK, Limit, hasLimit
  <1>2. Frontier'
    BY <1>1 DEF vars, OrchestratorInv, Frontier
  <1>3. Accounted' /\ Returned'
    BY DEF vars, OrchestratorInv, Accounted, Returned, SlotsOf
  <1>4. QED
    BY <1>1, <1>2, <1>3 DEF OrchestratorInv

\* Nothing is handed out before the first step.
LEMMA InitInv == Init => OrchestratorInv
  <1> SUFFICES ASSUME Init PROVE OrchestratorInv
    OBVIOUS
  <1>1. TypeOK
    <2>1. cfg \in ValidConfigs /\ cfg.StartSlot \in UInt64
      BY DEF Init, ValidConfigs
    <2>2. batch \in Ranges
      BY OrchestratorAssumption DEF Init, Ranges, UInt64
    <2>3. QED
      BY <2>1, <2>2 DEF Init, TypeOK
  <1>2. start = cfg.StartSlot /\ start \in cfg.StartSlot..Limit /\ start..(start - 1) = {}
    BY <1>1, ConfigFacts DEF Init, UInt64
  <1>3. Frontier
    BY <1>2 DEF Init, Frontier
  <1>4. Accounted /\ Returned
    BY DEF Init, Accounted, Returned
  <1>5. QED
    BY <1>1, <1>3, <1>4 DEF OrchestratorInv

LEMMA NextInv == OrchestratorInv /\ [Next]_vars => OrchestratorInv'
  <1> SUFFICES ASSUME OrchestratorInv, [Next]_vars PROVE OrchestratorInv'
    OBVIOUS
  <1>1. CASE Prepare
    BY <1>1, PrepareStep
  <1>2. CASE SendCancelled
    BY <1>2, StillRunning, ProducerReturnStep DEF SendCancelled
  <1>3. ASSUME NEW w \in Workers, Send(w) PROVE OrchestratorInv'
    BY <1>3, SendStep
  <1>4. ASSUME NEW w \in Workers, Succeed(w) PROVE OrchestratorInv'
    BY <1>4, SucceedStep
  <1>5. ASSUME NEW w \in Workers, WorkerReturn(w) PROVE OrchestratorInv'
    BY <1>5, WorkerReturnStep
  <1>6. ASSUME NEW w \in Workers, NEW err \in {"canceled", "error"}, Fail(w, err)
        PROVE  OrchestratorInv'
    BY <1>6, FailStep
  <1>7. CASE Cancel \/ Wait
    BY <1>7, CallerStep
  <1>8. CASE UNCHANGED vars
    BY <1>8, StutterStep
  <1>9. QED
    BY <1>1, <1>2, <1>3, <1>4, <1>5, <1>6, <1>7, <1>8 DEF Next

\* The invariant holds of every behaviour.
THEOREM OrchestratorCorrect == Spec => []OrchestratorInv
  BY InitInv, NextInv, PTL DEF Spec

\* The slot arithmetic never leaves the slot type.
THEOREM TypeTheorem == Spec => []TypeOK
  <1>1. OrchestratorInv => TypeOK
    BY DEF OrchestratorInv
  <1>2. QED
    BY <1>1, OrchestratorCorrect, PTL

\* When Run has returned nil, its goroutines are done and no error was kept:
\* what was handed out is the whole span, and all of it was processed.
LEMMA ReturnedComplete == OrchestratorInv => NilMeansComplete
  <1> SUFFICES ASSUME OrchestratorInv, result = "nil" PROVE processed = Span
    BY DEF NilMeansComplete
  <1>1. firstErr = "nil" /\ producer = "done" /\ \A w \in Workers : worker[w] # "busy"
    BY DEF OrchestratorInv, Returned
  <1>2. processed = dispatched
    BY <1>1 DEF OrchestratorInv, Accounted
  <1>3. dispatched = Span
    BY <1>1 DEF OrchestratorInv, Frontier, Span
  <1>4. QED
    BY <1>2, <1>3

\* Run returns nil only when the whole span was processed.
THEOREM CompleteTheorem == Spec => []NilMeansComplete
  BY ReturnedComplete, OrchestratorCorrect, PTL

\* No slot is ever handed out twice.
THEOREM DisjointTheorem == Spec => RangesDisjoint
  <1>1. ASSUME OrchestratorInv, [Next]_vars
        PROVE  [\A w \in Workers : worker[w] = "idle" /\ worker'[w] = "busy"
                    => SlotsOf(work'[w]) \cap dispatched = {}]_vars
    <2> SUFFICES ASSUME Next, NEW w \in Workers, worker[w] = "idle", worker'[w] = "busy"
                 PROVE  SlotsOf(work'[w]) \cap dispatched = {}
      BY <1>1
    <2>1. worker \in [Workers -> {"idle", "busy", "done"}] /\ work \in [Workers -> Ranges]
      BY <1>1 DEF OrchestratorInv, TypeOK
    <2>2. Send(w)
      <3>1. CASE Prepare \/ SendCancelled \/ Cancel \/ Wait
        BY <3>1 DEF Prepare, SendCancelled, ProducerReturn, Cancel, Wait, workerVars
      <3>2. ASSUME NEW v \in Workers, Send(v) PROVE v = w
        BY <3>2, <2>1 DEF Send
      <3>3. ASSUME NEW v \in Workers, Succeed(v) \/ WorkerReturn(v) PROVE FALSE
        BY <3>3, <2>1 DEF Succeed, WorkerReturn
      <3>4. ASSUME NEW v \in Workers, NEW err \in {"canceled", "error"}, Fail(v, err) PROVE FALSE
        BY <3>4, <2>1 DEF Fail
      <3>5. QED
        BY <3>1, <3>2, <3>3, <3>4 DEF Next
    <2>3. work'[w] = batch
      BY <2>1, <2>2 DEF Send
    <2>4. QED
      BY <1>1, <2>2, <2>3, SendStep
  <1>2. QED
    BY <1>1, OrchestratorCorrect, PTL DEF Spec, RangesDisjoint
-----------------------------------------------------------------------------
\* A range sent after the cancellation was in the select already, and after it
\* the producer does not come back to the select.
LateOnce ==
    /\ late \in {0, 1}
    /\ late = 1 => cancelled /\ producer # "send"

\* The context stays cancelled, the producer enters the select only before the
\* cancellation, and the send takes it out of it.
LEMMA LateOnceStep ==
    ASSUME LateOnce, [Next]_vars
    PROVE  LateOnce'
  <1>1. ASSUME UNCHANGED <<late, producer>> \/ (UNCHANGED late /\ producer' = "done"),
               cancelled => cancelled'
        PROVE  LateOnce'
    BY <1>1 DEF LateOnce
  <1>2. ASSUME NEW err, ProducerReturn(err) PROVE LateOnce'
    BY <1>1, <1>2 DEF ProducerReturn, Report
  <1>3. CASE Prepare
    <2>1. CASE ~cancelled /\ UNCHANGED <<late, cancelled>>
      BY <2>1 DEF LateOnce
    <2>2. CASE ~(~cancelled /\ UNCHANGED <<late, cancelled>>)
      BY <2>2, <1>2, <1>3 DEF Prepare
    <2>3. QED
      BY <2>1, <2>2
  <1>4. CASE SendCancelled
    BY <1>2, <1>4 DEF SendCancelled
  <1>5. ASSUME NEW w \in Workers, Send(w) PROVE LateOnce'
    BY <1>5 DEF Send, LateOnce
  <1>6. ASSUME NEW w \in Workers, Succeed(w) \/ WorkerReturn(w) PROVE LateOnce'
    BY <1>1, <1>6 DEF Succeed, WorkerReturn, producerVars
  <1>7. ASSUME NEW w \in Workers, NEW err \in {"canceled", "error"}, Fail(w, err)
        PROVE  LateOnce'
    BY <1>1, <1>7 DEF Fail, Report, producerVars
  <1>8. CASE Cancel \/ Wait
    BY <1>1, <1>8 DEF Cancel, Wait, producerVars
  <1>9. CASE UNCHANGED vars
    BY <1>1, <1>9 DEF vars
  <1>10. QED
    BY <1>3, <1>4, <1>5, <1>6, <1>7, <1>8, <1>9 DEF Next

\* After the cancellation at most one more range is handed to a worker.
THEOREM LateTheorem == Spec => []AtMostOneAfterCancel
  <1>1. Init => LateOnce
    BY DEF Init, LateOnce
  <1>2. LateOnce => AtMostOneAfterCancel
    BY DEF LateOnce, AtMostOneAfterCancel
  <1>3. QED
    BY <1>1, <1>2, LateOnceStep, PTL DEF Spec
-----------------------------------------------------------------------------
\* Every step of the orchestrator is a step of the abstract backfill or
\* leaves it alone.
LEMMA StepRefines ==
    ASSUME OrchestratorInv, OrchestratorInv', [Next]_vars
    PROVE  [Coverage!Next]_(Coverage!vars)
  <1>1. ASSUME UNCHANGED <<cfg, dispatched, processed, result>>
        PROVE  UNCHANGED Coverage!vars
    BY <1>1 DEF Coverage!vars, Span, Limit, hasLimit
  <1>2. CASE Prepare \/ SendCancelled \/ Cancel
    BY <1>2, <1>1 DEF Prepare, SendCancelled, ProducerReturn, Cancel, workerVars
  <1>3. ASSUME NEW w \in Workers, Send(w) PROVE Coverage!Claim
    <2>1. /\ result = "running" /\ dispatched' = dispatched \cup SlotsOf(batch)
          /\ UNCHANGED <<cfg, processed, result>>
      BY <1>3, StillRunning DEF Send
    <2>2. Span' = Span
      BY <2>1 DEF Span, Limit, hasLimit
    <2>3. dispatched \subseteq Span
      BY ConfigFacts DEF OrchestratorInv, Frontier, Span, UInt64
    <2>4. SlotsOf(batch) \subseteq Span
      BY <1>3, SendStep
    <2>5. QED
      BY <2>1, <2>2, <2>3, <2>4 DEF Coverage!Claim
  <1>4. ASSUME NEW w \in Workers, Succeed(w) PROVE Coverage!Finish
    <2>1. /\ result = "running" /\ processed' = processed \cup SlotsOf(work[w])
          /\ SlotsOf(work[w]) \subseteq dispatched /\ processed \subseteq dispatched
          /\ UNCHANGED <<cfg, dispatched, result>>
      BY <1>4, StillRunning DEF Succeed, OrchestratorInv, Accounted
    <2>2. Span' = Span
      BY <2>1 DEF Span, Limit, hasLimit
    <2>3. QED
      BY <2>1, <2>2 DEF Coverage!Finish
  <1>5. ASSUME NEW w \in Workers, WorkerReturn(w) PROVE UNCHANGED Coverage!vars
    BY <1>5, <1>1 DEF WorkerReturn
  <1>6. ASSUME NEW w \in Workers, NEW err \in {"canceled", "error"}, Fail(w, err)
        PROVE  UNCHANGED Coverage!vars
    BY <1>6, <1>1 DEF Fail
  <1>7. CASE Wait
    <2>1. result = "running" /\ result' = firstErr /\ UNCHANGED <<cfg, dispatched, processed>>
      BY <1>7 DEF Wait, workerVars
    <2>2. Span' = Span
      BY <2>1 DEF Span, Limit, hasLimit
    <2>3. firstErr \in {"nil", "canceled", "error"}
      BY DEF OrchestratorInv, TypeOK
    <2>4. CASE firstErr = "nil"
      <3>1. processed = Span
        <4>1. NilMeansComplete'
          BY ReturnedComplete, PTL
        <4>2. QED
          BY <4>1, <2>1, <2>2, <2>4 DEF NilMeansComplete
      <3>2. QED
        BY <2>1, <2>2, <2>4, <3>1 DEF Coverage!Next, Coverage!Succeed
    <2>5. CASE firstErr \in {"canceled", "error"}
      BY <2>1, <2>2, <2>5 DEF Coverage!Next, Coverage!Fail
    <2>6. QED
      BY <2>3, <2>4, <2>5
  <1>8. CASE UNCHANGED vars
    BY <1>8, <1>1 DEF vars
  <1>9. QED
    BY <1>2, <1>3, <1>4, <1>5, <1>6, <1>7, <1>8 DEF Next, Coverage!Next

\* Run implements the abstract backfill.
THEOREM RefinementTheorem == Spec => ImplementsCoverage
  <1>1. Init => Coverage!Init
    <2> SUFFICES ASSUME Init PROVE Coverage!Init
      OBVIOUS
    <2>1. TypeOK
      BY InitInv DEF OrchestratorInv
    <2>2. Span \subseteq UInt64
      BY <2>1, ConfigFacts DEF Span, UInt64
    <2>3. QED
      BY <2>2 DEF Init, Coverage!Init
  <1>2. OrchestratorInv /\ OrchestratorInv' /\ [Next]_vars => [Coverage!Next]_(Coverage!vars)
    BY StepRefines
  <1>3. QED
    BY <1>1, <1>2, OrchestratorCorrect, PTL DEF Spec, ImplementsCoverage, Coverage!Spec
=============================================================================

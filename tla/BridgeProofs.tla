---------------------------- MODULE BridgeProofs ----------------------------
(***************************************************************************)
(* The legacy bridge is an at-least-once forwarder whose copies need an    *)
(* expired duplicate window, for every traffic, every set of rules and     *)
(* every number of faults.                                                 *)
(***************************************************************************)
EXTENDS Bridge, WellFoundedInduction, TLAPS

\* A loop holds messages of its own subject, through a durable that exists,
\* and a message it holds is not ready for delivery.
LoopsOwn ==
    \A f \in Filters :
        /\ queue[f] \subseteq Of(f) \ avail
        /\ loop[f] # "off" => f \in durables

\* The loop of a subject that Run has not reached yet is off; and all are off
\* when Run has returned.
NotStarted ==
    /\ run = "subscribing" => \A i \in next..Len(subjects) : loop[subjects[i]] = "off"
    /\ run = "returned" => \A f \in Filters : loop[f] = "off"

\* A position exists only with its durable.
AckedHasDurable == \A m \in acked : Traffic[m].subject \in durables

\* A message that waits to be acknowledged is on the target stream.
AckedIsStored ==
    \A f \in Filters : loop[f] = "ack" => target[Key(Current(f))] > 0

\* A key is stored once for each time it was not in the window, which knows
\* only keys that are stored.
CopiesCounted ==
    /\ \A k \in Keys \ Messages : target[k] <= expired[k] + (IF k \in window THEN 1 ELSE 0)
    /\ \A k \in window : target[k] > 0

\* The inductive invariant.
ForwarderInv ==
    /\ subjects \in Streams
    /\ TypeOK
    /\ LoopsOwn
    /\ NotStarted
    /\ AckedHasDurable
    /\ AckedIsStored
    /\ CopiesCounted
-----------------------------------------------------------------------------
\* A set of naturals that is not empty has a least element.
LEMMA MinIsLeast ==
    ASSUME NEW T, T \subseteq Nat, T # {}
    PROVE  Min(T) \in T /\ \A y \in T : Min(T) <= y
  <1>1. \E x \in T : \A y \in T : ~(<<y, x>> \in OpToRel(<, Nat))
    BY NatLessThanWellFounded, WFMin
  <1>2. \A x \in Nat, y \in Nat : ~(<<y, x>> \in OpToRel(<, Nat)) => x <= y
    BY DEF OpToRel
  <1>3. \E x \in T : \A y \in T : x <= y
    BY <1>1, <1>2
  <1>4. QED
    BY <1>3 DEF Min

\* A message is a natural number and has a key; a subject of the stream is a
\* filter, and only once.
LEMMA BridgeFacts ==
    ASSUME ForwarderInv
    PROVE  /\ Messages \subseteq Nat /\ \A m \in Messages : Key(m) \in Keys
           /\ Len(subjects) \in Nat /\ next \in Nat
           /\ \A i \in 1..Len(subjects) : subjects[i] \in Filters
           /\ \A i, j \in 1..Len(subjects) : subjects[i] = subjects[j] => i = j
  <1>1. subjects \in Seq(Seq(STRING)) /\ IsInjective(subjects)
    BY BridgeAssumption DEF ForwarderInv
  <1>2. Len(subjects) \in Nat /\ DOMAIN subjects = 1..Len(subjects)
    BY <1>1
  <1>3. Messages \subseteq Nat
    BY BridgeAssumption DEF Messages
  <1>4. next \in Nat
    BY <1>2 DEF ForwarderInv, TypeOK
  <1>5. QED
    BY <1>1, <1>2, <1>3, <1>4 DEF Keys, Filters, Range, IsInjective

\* The message a loop handles is one it holds.
LEMMA CurrentIsHeld ==
    ASSUME ForwarderInv, NEW f \in Filters, loop[f] \in {"forward", "ack"}
    PROVE  /\ Current(f) \in queue[f] /\ Current(f) \in Messages /\ Key(Current(f)) \in Keys
           /\ Traffic[Current(f)].subject = f /\ Current(f) \notin avail /\ f \in durables
  <1>1. queue[f] # {} /\ queue[f] \subseteq Messages /\ queue[f] \subseteq Of(f) \ avail /\ f \in durables
    BY DEF ForwarderInv, TypeOK, LoopsOwn
  <1>2. queue[f] \subseteq Nat
    BY <1>1, BridgeFacts
  <1>3. Current(f) \in queue[f]
    BY <1>1, <1>2, MinIsLeast DEF Current
  <1>4. QED
    BY <1>1, <1>3, BridgeFacts DEF Of
-----------------------------------------------------------------------------
\* The target stream takes a message: afterwards it has it, and a copy more
\* only if the window had forgotten the key.
LEMMA StoredEffect ==
    ASSUME ForwarderInv, NEW k \in Keys, Stored(k)
    PROVE  /\ target' \in [Keys -> Nat] /\ window' \subseteq Keys /\ expired' \in [Keys -> Nat]
           /\ \A j \in Keys : target'[j] >= target[j]
           /\ CopiesCounted'
           /\ {j \in Keys : target'[j] > 0} = {j \in Keys : target[j] > 0} \cup {k}
  <1>1. /\ target \in [Keys -> Nat] /\ window \subseteq Keys /\ expired \in [Keys -> Nat]
        /\ expired' = expired
    BY DEF ForwarderInv, TypeOK, Stored
  <1>2. CASE k \in window
    <2>1. target' = target /\ window' = window /\ target[k] > 0
      BY <1>2 DEF Stored, ForwarderInv, CopiesCounted
    <2>2. CopiesCounted'
      BY <1>1, <2>1 DEF ForwarderInv, CopiesCounted
    <2>3. QED
      BY <1>1, <2>1, <2>2
  <1>3. CASE k \notin window
    <2>1. /\ target' = [target EXCEPT ![k] = target[k] + 1]
          /\ window' = window \cup ({k} \ Messages)
      BY <1>3 DEF Stored
    <2>2. /\ target' \in [Keys -> Nat] /\ target'[k] = target[k] + 1
          /\ \A j \in Keys : j # k => target'[j] = target[j]
      BY <1>1, <2>1
    <2>3. \A j \in Keys : target'[j] >= target[j] /\ (target'[j] > 0 <=> target[j] > 0 \/ j = k)
      BY <1>1, <2>2
    <2>4. ASSUME NEW j \in Keys \ Messages
          PROVE  target'[j] <= expired'[j] + (IF j \in window' THEN 1 ELSE 0)
      <3>1. target[j] <= expired[j] + (IF j \in window THEN 1 ELSE 0)
        BY DEF ForwarderInv, CopiesCounted
      <3>2. j = k => j \in window'
        BY <2>1
      <3>3. j # k => (j \in window' <=> j \in window)
        BY <2>1
      <3>4. QED
        BY <1>1, <1>3, <2>2, <3>1, <3>2, <3>3
    <2>5. \A j \in window' : target'[j] > 0
      BY <1>1, <2>1, <2>3 DEF ForwarderInv, CopiesCounted
    <2>6. CopiesCounted'
      BY <2>4, <2>5 DEF CopiesCounted
    <2>7. QED
      BY <1>1, <2>1, <2>2, <2>3, <2>6
  <1>4. QED
    BY <1>2, <1>3

\* A fault is counted within its bound.
LEMMA FaultBound ==
    ASSUME ForwarderInv, Fault
    PROVE  faults' \in 0..MaxFaults
  BY BridgeAssumption DEF ForwarderInv, TypeOK, Fault
-----------------------------------------------------------------------------
\* Run subscribes to the next subject: its loop was off, and a durable that is
\* created starts without a position.
LEMMA SubscribeStep ==
    ASSUME ForwarderInv, Subscribe
    PROVE  ForwarderInv'
  <1> DEFINE f == subjects[next]
  <1>1. /\ run = "subscribing" /\ next <= Len(subjects) /\ next' = next + 1
        /\ loop' = [loop EXCEPT ![f] = "fetch"]
        /\ durables' = durables \cup {f}
        /\ own' = own \cup ({f} \ durables)
        /\ avail' = IF f \in durables THEN avail ELSE avail \cup Of(f)
        /\ UNCHANGED <<subjects, run, cancelled, queue, acked, settled, target, window, expired, faults>>
    BY DEF Subscribe, sink
  <1>2. next \in 1..Len(subjects) /\ f \in Filters
    BY <1>1, BridgeFacts DEF ForwarderInv, TypeOK
  <1>3. loop[f] = "off" /\ queue[f] = {}
    <2>1. next \in next..Len(subjects)
      BY <1>1, <1>2, BridgeFacts
    <2>2. QED
      BY <1>1, <1>2, <2>1 DEF ForwarderInv, NotStarted, TypeOK
  <1>4. Filters' = Filters /\ InStream' = InStream
    BY <1>1 DEF Filters, InStream
  <1> HIDE DEF f
  <1>5. /\ loop \in [Filters -> {"off", "fetch", "forward", "ack"}]
        /\ queue \in [Filters -> SUBSET Messages]
        /\ durables \subseteq Filters /\ own \subseteq durables
        /\ avail \cup acked \cup settled \subseteq InStream /\ avail \cap acked = {}
        /\ loop'[f] = "fetch" /\ \A g \in Filters : g # f => loop'[g] = loop[g]
    BY <1>1, <1>2 DEF ForwarderInv, TypeOK
  <1>6. TypeOK'
    <2>1. next' \in 1..(Len(subjects') + 1)
      BY <1>1, <1>2, BridgeFacts
    <2>2. loop' \in [Filters -> {"off", "fetch", "forward", "ack"}]
      BY <1>1, <1>5
    <2>3. \A g \in Filters : queue[g] # {} <=> loop'[g] \in {"forward", "ack"}
      BY <1>3, <1>5 DEF ForwarderInv, TypeOK
    <2>4. avail' \cup acked' \cup settled' \subseteq InStream
      BY <1>1, <1>2, <1>5 DEF Of, InStream
    <2>5. avail' \cap acked' = {}
      BY <1>1, <1>5 DEF ForwarderInv, AckedHasDurable, Of
    <2>6. durables' \subseteq Filters /\ own' \subseteq durables'
      BY <1>1, <1>2, <1>5
    <2>7. QED
      BY <1>1, <1>4, <1>5, <2>1, <2>2, <2>3, <2>4, <2>5, <2>6 DEF ForwarderInv, TypeOK
  <1>7. LoopsOwn'
    <2> SUFFICES ASSUME NEW g \in Filters
                 PROVE  queue[g] \subseteq Of(g) \ avail' /\ (loop'[g] # "off" => g \in durables')
      BY <1>1, <1>4 DEF LoopsOwn, Of
    <2>1. queue[g] \subseteq Of(g) \ avail /\ (loop[g] # "off" => g \in durables)
      BY DEF ForwarderInv, LoopsOwn
    <2>2. g # f => queue[g] \cap Of(f) = {}
      BY <2>1 DEF Of
    <2>3. QED
      BY <1>1, <1>3, <1>5, <2>1, <2>2
  <1>8. NotStarted'
    <2> SUFFICES ASSUME NEW i \in (next + 1)..Len(subjects) PROVE loop'[subjects[i]] = "off"
      BY <1>1 DEF NotStarted
    <2>1. i \in next..Len(subjects) /\ i \in 1..Len(subjects) /\ i # next
      BY <1>2, BridgeFacts
    <2>2. loop[subjects[i]] = "off" /\ subjects[i] \in Filters /\ subjects[i] # f
      BY <1>1, <1>2, <2>1, BridgeFacts DEF ForwarderInv, NotStarted, f
    <2>3. QED
      BY <1>5, <2>2
  <1>9. AckedHasDurable' /\ CopiesCounted'
    BY <1>1 DEF ForwarderInv, AckedHasDurable, CopiesCounted
  <1>10. AckedIsStored'
    BY <1>1, <1>4, <1>5 DEF ForwarderInv, AckedIsStored, Current
  <1>11. QED
    BY <1>1, <1>6, <1>7, <1>8, <1>9, <1>10 DEF ForwarderInv

\* Run returns, or the process dies: every loop is off.
LEMMA GoneStep ==
    ASSUME ForwarderInv, Gone, UNCHANGED <<subjects, source, sink>>, faults' \in 0..MaxFaults
    PROVE  ForwarderInv'
  <1>1. /\ run' = "returned" /\ loop' = [f \in Filters |-> "off"] /\ queue' = [f \in Filters |-> {}]
        /\ own' = {}
        /\ UNCHANGED <<subjects, next, cancelled, durables, avail, acked, settled, target, window, expired>>
    BY DEF Gone, Off, Empty, source, sink
  <1>2. Filters' = Filters /\ InStream' = InStream
    BY <1>1 DEF Filters, InStream
  <1>3. TypeOK'
    BY <1>1, <1>2 DEF ForwarderInv, TypeOK
  <1>4. LoopsOwn' /\ NotStarted' /\ AckedIsStored'
    BY <1>1, <1>2 DEF LoopsOwn, NotStarted, AckedIsStored
  <1>5. AckedHasDurable' /\ CopiesCounted'
    BY <1>1 DEF ForwarderInv, AckedHasDurable, CopiesCounted
  <1>6. QED
    BY <1>1, <1>3, <1>4, <1>5 DEF ForwarderInv

\* A step of Run or of its caller that leaves the loops, the consumers and the
\* target stream alone.
LEMMA RunStep ==
    ASSUME ForwarderInv,
           Subscribed \/ Return \/ Restart \/ Cancel \/ UNCHANGED vars
    PROVE  ForwarderInv'
  <1>1. /\ UNCHANGED <<subjects, loop, queue, own, durables, avail, acked, settled,
                       target, window, expired>>
        /\ run' \in {"subscribing", "running", "returned"}
        /\ cancelled' \in BOOLEAN
    BY DEF Subscribed, Return, Restart, Cancel, vars, service, source, sink, ForwarderInv, TypeOK
  <1>2. faults' \in 0..MaxFaults
    <2>1. faults' = faults \/ Fault
      BY DEF Subscribed, Return, Restart, Cancel, vars
    <2>2. QED
      BY <2>1, FaultBound DEF ForwarderInv, TypeOK
  <1>3. next' \in 1..(Len(subjects) + 1)
    <2>1. next' = next \/ next' = 1
      BY DEF Subscribed, Return, Restart, Cancel, vars, service
    <2>2. QED
      BY <2>1, BridgeFacts DEF ForwarderInv, TypeOK
  <1>4. Filters' = Filters /\ InStream' = InStream
    BY <1>1 DEF Filters, InStream
  <1>5. TypeOK'
    BY <1>1, <1>2, <1>3, <1>4 DEF ForwarderInv, TypeOK
  <1>6. LoopsOwn' /\ AckedHasDurable' /\ CopiesCounted' /\ AckedIsStored'
    BY <1>1, <1>4 DEF ForwarderInv, LoopsOwn, AckedHasDurable, CopiesCounted, AckedIsStored, Current
  <1>7. NotStarted'
    <2>1. CASE Restart
      <3>1. \A f \in Filters : loop[f] = "off"
        BY <2>1 DEF Restart, ForwarderInv, NotStarted
      <3>2. run' = "subscribing" /\ next' = 1
        BY <2>1 DEF Restart
      <3>3. QED
        BY <1>1, <3>1, <3>2, BridgeFacts DEF NotStarted
    <2>2. CASE Return
      BY <1>1, <1>4, <2>2 DEF Return, Off, NotStarted
    <2>3. CASE Subscribed
      BY <1>1, <2>3 DEF Subscribed, NotStarted
    <2>4. CASE Cancel \/ UNCHANGED vars
      BY <1>1, <1>4, <2>4 DEF Cancel, vars, service, ForwarderInv, NotStarted
    <2>5. QED
      BY <2>1, <2>2, <2>3, <2>4
  <1>8. QED
    BY <1>1, <1>5, <1>6, <1>7 DEF ForwarderInv
-----------------------------------------------------------------------------
\* A loop ends: what it held is given up, and a durable it deletes takes its
\* position with it.
LEMMA LoopEndsStep ==
    ASSUME ForwarderInv, NEW f \in Filters, LoopEnds(f), loop[f] # "off",
           UNCHANGED <<subjects, run, next, settled>>, faults' \in 0..MaxFaults,
           target' \in [Keys -> Nat], window' \subseteq Keys, expired' \in [Keys -> Nat],
           \A k \in Keys : target'[k] >= target[k], CopiesCounted'
    PROVE  ForwarderInv'
  <1>1. PICK deleted \in SUBSET {f} :
            /\ deleted = {f} \cap own
            /\ loop' = [loop EXCEPT ![f] = "off"]
            /\ queue' = [queue EXCEPT ![f] = {}]
            /\ cancelled' = TRUE
            /\ own' = own \ deleted /\ durables' = durables \ deleted
            /\ avail' = avail \ {m \in Messages : Traffic[m].subject \in deleted}
            /\ acked' = acked \ {m \in Messages : Traffic[m].subject \in deleted}
    BY DEF LoopEnds
  <1>2. Filters' = Filters /\ InStream' = InStream
    BY DEF Filters, InStream
  <1>3. /\ loop \in [Filters -> {"off", "fetch", "forward", "ack"}]
        /\ queue \in [Filters -> SUBSET Messages]
        /\ durables \subseteq Filters /\ own \subseteq durables
        /\ loop'[f] = "off" /\ queue'[f] = {}
        /\ \A g \in Filters : g # f => loop'[g] = loop[g] /\ queue'[g] = queue[g]
    BY <1>1 DEF ForwarderInv, TypeOK
  <1>4. TypeOK'
    <2>1. /\ loop' \in [Filters -> {"off", "fetch", "forward", "ack"}]
          /\ queue' \in [Filters -> SUBSET Messages]
      BY <1>1, <1>3
    <2>2. \A g \in Filters : queue'[g] # {} <=> loop'[g] \in {"forward", "ack"}
      BY <1>3 DEF ForwarderInv, TypeOK
    <2>3. /\ durables' \subseteq Filters /\ own' \subseteq durables'
          /\ avail' \cup acked' \cup settled' \subseteq InStream /\ avail' \cap acked' = {}
      BY <1>1, <1>3 DEF ForwarderInv, TypeOK
    <2>4. QED
      BY <1>1, <1>2, <2>1, <2>2, <2>3 DEF ForwarderInv, TypeOK
  <1>5. LoopsOwn'
    <2> SUFFICES ASSUME NEW g \in Filters
                 PROVE  queue'[g] \subseteq Of(g) \ avail' /\ (loop'[g] # "off" => g \in durables')
      BY <1>2 DEF LoopsOwn, Of
    <2>1. queue[g] \subseteq Of(g) \ avail /\ (loop[g] # "off" => g \in durables)
      BY DEF ForwarderInv, LoopsOwn
    <2>2. QED
      BY <1>1, <1>3, <2>1
  <1>6. NotStarted'
    <2>1. \A g \in Filters : loop[g] = "off" => loop'[g] = "off"
      BY <1>3
    <2>2. \A i \in next..Len(subjects) : subjects[i] \in Filters
      BY BridgeFacts DEF ForwarderInv, TypeOK
    <2>3. QED
      BY <1>2, <2>1, <2>2 DEF ForwarderInv, NotStarted
  <1>7. AckedHasDurable'
    <2>1. acked \subseteq Messages
      BY DEF ForwarderInv, TypeOK, InStream
    <2>2. QED
      BY <1>1, <2>1 DEF ForwarderInv, AckedHasDurable
  <1>8. AckedIsStored'
    <2> SUFFICES ASSUME NEW g \in Filters, loop'[g] = "ack" PROVE target'[Key(Current(g)')] > 0
      BY <1>2 DEF AckedIsStored
    <2>1. g # f /\ loop[g] = "ack" /\ Current(g)' = Current(g)
      BY <1>3 DEF Current
    <2>2. target[Key(Current(g))] > 0 /\ Key(Current(g)) \in Keys
      BY <2>1, CurrentIsHeld DEF ForwarderInv, AckedIsStored
    <2>3. target \in [Keys -> Nat]
      BY DEF ForwarderInv, TypeOK
    <2>4. target'[Key(Current(g))] >= target[Key(Current(g))]
      BY <2>2
    <2>5. QED
      BY <2>1, <2>2, <2>3, <2>4
  <1>9. QED
    BY <1>4, <1>5, <1>6, <1>7, <1>8 DEF ForwarderInv

\* The loop fetches messages that are ready.
LEMMA FetchStep ==
    ASSUME ForwarderInv, NEW f \in Filters, Fetch(f)
    PROVE  ForwarderInv'
  <1>1. PICK msgs \in SUBSET (avail \cap Of(f)) :
            msgs # {} /\ queue' = [queue EXCEPT ![f] = msgs] /\ avail' = avail \ msgs
    BY DEF Fetch
  <1>2. /\ loop[f] = "fetch" /\ loop' = [loop EXCEPT ![f] = "forward"]
        /\ UNCHANGED <<subjects, run, next, cancelled, own, durables, acked, settled, target,
                       window, expired, faults>>
    BY DEF Fetch, sink
  <1>3. Filters' = Filters /\ InStream' = InStream
    BY <1>2 DEF Filters, InStream
  <1>4. /\ loop \in [Filters -> {"off", "fetch", "forward", "ack"}]
        /\ queue \in [Filters -> SUBSET Messages]
        /\ loop'[f] = "forward" /\ queue'[f] = msgs
        /\ \A g \in Filters : g # f => loop'[g] = loop[g] /\ queue'[g] = queue[g]
    BY <1>1, <1>2 DEF ForwarderInv, TypeOK
  <1>5. TypeOK'
    <2>1. /\ loop' \in [Filters -> {"off", "fetch", "forward", "ack"}]
          /\ queue' \in [Filters -> SUBSET Messages]
      BY <1>1, <1>2, <1>4 DEF Of
    <2>2. \A g \in Filters : queue'[g] # {} <=> loop'[g] \in {"forward", "ack"}
      BY <1>1, <1>4 DEF ForwarderInv, TypeOK
    <2>3. avail' \cup acked' \cup settled' \subseteq InStream /\ avail' \cap acked' = {}
      BY <1>1, <1>2 DEF ForwarderInv, TypeOK
    <2>4. QED
      BY <1>2, <1>3, <2>1, <2>2, <2>3 DEF ForwarderInv, TypeOK
  <1>6. LoopsOwn'
    <2> SUFFICES ASSUME NEW g \in Filters
                 PROVE  queue'[g] \subseteq Of(g) \ avail' /\ (loop'[g] # "off" => g \in durables')
      BY <1>3 DEF LoopsOwn, Of
    <2>1. queue[g] \subseteq Of(g) \ avail /\ (loop[g] # "off" => g \in durables)
      BY DEF ForwarderInv, LoopsOwn
    <2>2. QED
      BY <1>1, <1>2, <1>4, <2>1
  <1>7. NotStarted'
    <2>1. \A g \in Filters : loop[g] = "off" => loop'[g] = "off"
      BY <1>2, <1>4
    <2>2. \A i \in next..Len(subjects) : subjects[i] \in Filters
      BY BridgeFacts DEF ForwarderInv, TypeOK
    <2>3. QED
      BY <1>2, <1>3, <2>1, <2>2 DEF ForwarderInv, NotStarted
  <1>8. AckedHasDurable' /\ CopiesCounted'
    BY <1>2 DEF ForwarderInv, AckedHasDurable, CopiesCounted
  <1>9. AckedIsStored'
    BY <1>2, <1>3, <1>4 DEF ForwarderInv, AckedIsStored, Current
  <1>10. QED
    BY <1>2, <1>5, <1>6, <1>7, <1>8, <1>9 DEF ForwarderInv

\* The publish succeeds: the message the loop will acknowledge is stored.
LEMMA PublishStep ==
    ASSUME ForwarderInv, NEW f \in Filters, Publish(f)
    PROVE  ForwarderInv'
  <1>1. /\ loop[f] = "forward" /\ loop' = [loop EXCEPT ![f] = "ack"]
        /\ Stored(Key(Current(f)))
        /\ UNCHANGED <<subjects, run, next, cancelled, queue, own, durables, avail, acked,
                       settled, faults>>
    BY DEF Publish, source
  <1>2. Filters' = Filters /\ InStream' = InStream
    BY <1>1 DEF Filters, InStream
  <1>3. Key(Current(f)) \in Keys
    BY <1>1, CurrentIsHeld
  <1>4. /\ target' \in [Keys -> Nat] /\ window' \subseteq Keys /\ expired' \in [Keys -> Nat]
        /\ \A j \in Keys : target'[j] >= target[j]
        /\ CopiesCounted'
        /\ target'[Key(Current(f))] > 0
    BY <1>1, <1>3, StoredEffect
  <1>5. /\ loop \in [Filters -> {"off", "fetch", "forward", "ack"}]
        /\ loop'[f] = "ack" /\ \A g \in Filters : g # f => loop'[g] = loop[g]
    BY <1>1 DEF ForwarderInv, TypeOK
  <1>6. TypeOK'
    <2>1. loop' \in [Filters -> {"off", "fetch", "forward", "ack"}]
      BY <1>1, <1>5
    <2>2. \A g \in Filters : queue[g] # {} <=> loop'[g] \in {"forward", "ack"}
      BY <1>1, <1>5 DEF ForwarderInv, TypeOK
    <2>3. QED
      BY <1>1, <1>2, <1>4, <2>1, <2>2 DEF ForwarderInv, TypeOK
  <1>7. LoopsOwn'
    BY <1>1, <1>2, <1>5 DEF ForwarderInv, LoopsOwn, Of
  <1>8. NotStarted'
    <2>1. \A g \in Filters : loop[g] = "off" => loop'[g] = "off"
      BY <1>1, <1>5
    <2>2. \A i \in next..Len(subjects) : subjects[i] \in Filters
      BY BridgeFacts DEF ForwarderInv, TypeOK
    <2>3. QED
      BY <1>1, <1>2, <2>1, <2>2 DEF ForwarderInv, NotStarted
  <1>9. AckedHasDurable'
    BY <1>1 DEF ForwarderInv, AckedHasDurable
  <1>10. AckedIsStored'
    <2> SUFFICES ASSUME NEW g \in Filters, loop'[g] = "ack" PROVE target'[Key(Current(g))] > 0
      BY <1>1, <1>2 DEF AckedIsStored, Current
    <2>1. CASE g = f
      BY <1>4, <2>1
    <2>2. CASE g # f
      <3>1. loop[g] = "ack"
        BY <1>5, <2>2
      <3>2. target[Key(Current(g))] > 0 /\ Key(Current(g)) \in Keys /\ target \in [Keys -> Nat]
        BY <3>1, CurrentIsHeld DEF ForwarderInv, AckedIsStored, TypeOK
      <3>3. target'[Key(Current(g))] >= target[Key(Current(g))]
        BY <1>4, <3>2
      <3>4. QED
        BY <1>4, <3>2, <3>3
    <2>3. QED
      BY <2>1, <2>2
  <1>11. QED
    BY <1>1, <1>4, <1>6, <1>7, <1>8, <1>9, <1>10 DEF ForwarderInv

\* The message is acknowledged, or its acknowledgement is lost.
LEMMA AckStep ==
    ASSUME ForwarderInv, NEW f \in Filters, Ack(f)
    PROVE  ForwarderInv'
  <1> DEFINE m == Current(f)
  <1>1. loop[f] \in {"forward", "ack"}
    BY DEF Ack, Acking
  <1>2. m \in queue[f] /\ m \in Messages /\ Traffic[m].subject = f /\ m \notin avail /\ f \in durables
    BY <1>1, CurrentIsHeld
  <1>3. /\ acked' \subseteq acked \cup {m} /\ settled' \subseteq settled \cup {m}
        /\ queue' = [queue EXCEPT ![f] = queue[f] \ {m}]
        /\ loop' = [loop EXCEPT ![f] = IF queue'[f] = {} THEN "fetch" ELSE "forward"]
        /\ UNCHANGED <<subjects, run, next, cancelled, own, durables, avail, target, window, expired>>
    BY DEF Ack, sink
  <1>4. faults' \in 0..MaxFaults
    BY FaultBound DEF Ack, ForwarderInv, TypeOK
  <1> HIDE DEF m
  <1>5. Filters' = Filters /\ InStream' = InStream
    BY <1>3 DEF Filters, InStream
  <1>6. /\ loop \in [Filters -> {"off", "fetch", "forward", "ack"}]
        /\ queue \in [Filters -> SUBSET Messages]
        /\ queue'[f] = queue[f] \ {m}
        /\ loop'[f] = (IF queue'[f] = {} THEN "fetch" ELSE "forward")
        /\ \A g \in Filters : g # f => loop'[g] = loop[g] /\ queue'[g] = queue[g]
    BY <1>3 DEF ForwarderInv, TypeOK
  <1>7. TypeOK'
    <2>1. /\ loop' \in [Filters -> {"off", "fetch", "forward", "ack"}]
          /\ queue' \in [Filters -> SUBSET Messages]
      BY <1>3, <1>6
    <2>2. \A g \in Filters : queue'[g] # {} <=> loop'[g] \in {"forward", "ack"}
      BY <1>6 DEF ForwarderInv, TypeOK
    <2>3. m \in InStream
      BY <1>2 DEF InStream
    <2>4. avail' \cup acked' \cup settled' \subseteq InStream /\ avail' \cap acked' = {}
      BY <1>2, <1>3, <2>3 DEF ForwarderInv, TypeOK
    <2>5. QED
      BY <1>3, <1>4, <1>5, <2>1, <2>2, <2>4 DEF ForwarderInv, TypeOK
  <1>8. LoopsOwn'
    <2> SUFFICES ASSUME NEW g \in Filters
                 PROVE  queue'[g] \subseteq Of(g) \ avail' /\ (loop'[g] # "off" => g \in durables')
      BY <1>5 DEF LoopsOwn, Of
    <2>1. queue[g] \subseteq Of(g) \ avail /\ (loop[g] # "off" => g \in durables)
      BY DEF ForwarderInv, LoopsOwn
    <2>2. QED
      BY <1>2, <1>3, <1>6, <2>1
  <1>9. NotStarted'
    <2>1. \A g \in Filters : loop[g] = "off" => loop'[g] = "off"
      BY <1>1, <1>6
    <2>2. \A i \in next..Len(subjects) : subjects[i] \in Filters
      BY BridgeFacts DEF ForwarderInv, TypeOK
    <2>3. QED
      BY <1>3, <1>5, <2>1, <2>2 DEF ForwarderInv, NotStarted
  <1>10. AckedHasDurable' /\ CopiesCounted'
    BY <1>2, <1>3 DEF ForwarderInv, AckedHasDurable, CopiesCounted
  <1>11. AckedIsStored'
    <2> SUFFICES ASSUME NEW g \in Filters, loop'[g] = "ack" PROVE target'[Key(Current(g)')] > 0
      BY <1>5 DEF AckedIsStored
    <2>1. g # f /\ loop[g] = "ack" /\ Current(g)' = Current(g)
      BY <1>6 DEF Current
    <2>2. QED
      BY <1>3, <2>1 DEF ForwarderInv, AckedIsStored
  <1>12. QED
    BY <1>3, <1>7, <1>8, <1>9, <1>10, <1>11 DEF ForwarderInv

\* The loop ends after a failure or the cancellation.
LEMMA LoopFailsStep ==
    ASSUME ForwarderInv, NEW f \in Filters,
           LoopCancelled(f) \/ FetchFails(f) \/ PublishFails(f) \/ AckFails(f)
    PROVE  ForwarderInv'
  <1>1. LoopEnds(f) /\ loop[f] # "off" /\ UNCHANGED <<subjects, run, next, settled>>
    BY DEF LoopCancelled, FetchFails, PublishFails, AckFails, Acking
  <1>2. faults' \in 0..MaxFaults
    BY FaultBound DEF LoopCancelled, FetchFails, PublishFails, AckFails, ForwarderInv, TypeOK
  <1>3. /\ target' \in [Keys -> Nat] /\ window' \subseteq Keys /\ expired' \in [Keys -> Nat]
        /\ \A k \in Keys : target'[k] >= target[k]
        /\ CopiesCounted'
    <2>1. CASE UNCHANGED sink
      BY <2>1 DEF sink, ForwarderInv, TypeOK, CopiesCounted
    <2>2. CASE ~UNCHANGED sink
      <3>1. loop[f] = "forward" /\ Stored(Key(Current(f)))
        BY <2>2 DEF LoopCancelled, FetchFails, PublishFails, AckFails
      <3>2. QED
        BY <3>1, CurrentIsHeld, StoredEffect
    <2>3. QED
      BY <2>1, <2>2
  <1>4. QED
    BY <1>1, <1>2, <1>3, LoopEndsStep

\* The consumer delivers a message again, one that no loop holds.
LEMMA RedeliverStep ==
    ASSUME ForwarderInv, Redeliver
    PROVE  ForwarderInv'
  <1>1. PICK m \in Messages \ (avail \cup acked) :
            /\ Traffic[m].subject \in durables
            /\ \A f \in Filters : m \notin queue[f]
            /\ avail' = avail \cup {m}
    BY DEF Redeliver
  <1>2. UNCHANGED <<subjects, run, next, cancelled, loop, queue, own, durables, acked, settled,
                    target, window, expired, faults>>
    BY DEF Redeliver, service, sink
  <1>3. Filters' = Filters /\ InStream' = InStream
    BY <1>2 DEF Filters, InStream
  <1>4. TypeOK'
    <2>1. m \in InStream
      BY <1>1 DEF InStream, ForwarderInv, TypeOK
    <2>2. QED
      BY <1>1, <1>2, <1>3, <2>1 DEF ForwarderInv, TypeOK
  <1>5. LoopsOwn' /\ NotStarted'
    BY <1>1, <1>2, <1>3 DEF ForwarderInv, LoopsOwn, NotStarted, Of
  <1>6. AckedHasDurable' /\ CopiesCounted' /\ AckedIsStored'
    BY <1>2, <1>3 DEF ForwarderInv, AckedHasDurable, CopiesCounted, AckedIsStored, Current
  <1>7. QED
    BY <1>2, <1>4, <1>5, <1>6 DEF ForwarderInv

\* The duplicate window passes over a key, which may then be stored once more.
LEMMA ExpireStep ==
    ASSUME ForwarderInv, NEW k \in Keys, Expire(k)
    PROVE  ForwarderInv'
  <1>1. /\ k \in window /\ window' = window \ {k} /\ expired' = [expired EXCEPT ![k] = expired[k] + 1]
        /\ UNCHANGED <<subjects, run, next, cancelled, loop, queue, own, durables, avail, acked,
                       settled, target>>
    BY DEF Expire, service, source
  <1>2. faults' \in 0..MaxFaults
    BY FaultBound DEF Expire
  <1>3. Filters' = Filters /\ InStream' = InStream
    BY <1>1 DEF Filters, InStream
  <1>4. /\ expired \in [Keys -> Nat] /\ target \in [Keys -> Nat] /\ expired' \in [Keys -> Nat]
        /\ expired'[k] = expired[k] + 1 /\ \A j \in Keys : j # k => expired'[j] = expired[j]
    BY <1>1 DEF ForwarderInv, TypeOK
  <1>5. TypeOK'
    BY <1>1, <1>2, <1>3, <1>4 DEF ForwarderInv, TypeOK
  <1>6. LoopsOwn' /\ NotStarted' /\ AckedHasDurable' /\ AckedIsStored'
    BY <1>1, <1>3 DEF ForwarderInv, LoopsOwn, NotStarted, AckedHasDurable, AckedIsStored, Current, Of
  <1>7. CopiesCounted'
    <2>1. ASSUME NEW j \in Keys \ Messages
          PROVE  target[j] <= expired'[j] + (IF j \in window' THEN 1 ELSE 0)
      <3>1. target[j] <= expired[j] + (IF j \in window THEN 1 ELSE 0)
        BY DEF ForwarderInv, CopiesCounted
      <3>2. j # k => (j \in window' <=> j \in window)
        BY <1>1
      <3>3. j = k => j \in window /\ j \notin window'
        BY <1>1
      <3>4. QED
        BY <1>4, <3>1, <3>2, <3>3
    <2>2. QED
      BY <1>1, <2>1 DEF ForwarderInv, CopiesCounted
  <1>8. QED
    BY <1>1, <1>5, <1>6, <1>7 DEF ForwarderInv

\* A process that was just started has no loop, and the streams are empty.
LEMMA InitInv == Init => ForwarderInv
  <1> SUFFICES ASSUME Init PROVE ForwarderInv
    OBVIOUS
  <1>1. subjects \in Seq(Seq(STRING)) /\ DOMAIN subjects = 1..Len(subjects) /\ Len(subjects) \in Nat
    BY BridgeAssumption DEF Init
  <1>2. loop = [f \in Filters |-> "off"] /\ queue = [f \in Filters |-> {}]
    BY DEF Init, Off, Empty
  <1>3. TypeOK
    <2>1. next \in 1..(Len(subjects) + 1) /\ faults \in 0..MaxFaults
      BY <1>1, BridgeAssumption DEF Init
    <2>2. target \in [Keys -> Nat] /\ expired \in [Keys -> Nat]
      BY DEF Init
    <2>3. QED
      BY <1>2, <2>1, <2>2 DEF Init, TypeOK
  <1>4. LoopsOwn /\ AckedHasDurable /\ AckedIsStored /\ CopiesCounted
    BY <1>2 DEF Init, LoopsOwn, AckedHasDurable, AckedIsStored, CopiesCounted
  <1>5. NotStarted
    <2>1. \A i \in 1..Len(subjects) : subjects[i] \in Filters
      BY <1>1 DEF Filters, Range
    <2>2. QED
      BY <1>2, <2>1 DEF Init, NotStarted
  <1>6. QED
    BY <1>3, <1>4, <1>5 DEF Init, ForwarderInv

\* The invariant holds of every behaviour.
THEOREM BridgeCorrect == Spec => []ForwarderInv
  <1>1. ForwarderInv /\ [Next]_vars => ForwarderInv'
    <2> SUFFICES ASSUME ForwarderInv, [Next]_vars PROVE ForwarderInv'
      OBVIOUS
    <2>1. CASE SubscribeCollides \/ SubscribeFails \/ Crash
      <3>1. Gone /\ UNCHANGED <<subjects, source, sink>>
        BY <2>1 DEF SubscribeCollides, SubscribeFails, Crash
      <3>2. faults' \in 0..MaxFaults
        BY <2>1, FaultBound DEF SubscribeCollides, SubscribeFails, Crash, ForwarderInv, TypeOK
      <3>3. QED
        BY <3>1, <3>2, GoneStep
    <2>2. ASSUME NEW f \in Filters,
                 LoopStep(f) \/ FetchFails(f) \/ PublishFails(f) \/ AckFails(f)
          PROVE  ForwarderInv'
      BY <2>2, FetchStep, PublishStep, AckStep, LoopFailsStep DEF LoopStep
    <2>3. QED
      BY <2>1, <2>2, SubscribeStep, RunStep, RedeliverStep, ExpireStep DEF Next
  <1>2. QED
    BY <1>1, InitInv, PTL DEF Spec
-----------------------------------------------------------------------------
\* The mapping.

\* An order of n rules with sources of length len: all of them, the longest
\* first.
IsOrder(p, n, len) ==
    /\ \A k \in 1..n : \E i \in 1..n : p[i] = k
    /\ \A i, j \in 1..n : i < j => len[p[i]] >= len[p[j]]

\* The numbers of rules that can be ordered, whatever their lengths.
Sortable ==
    {n \in Nat : \A len \in [1..n -> Nat] : \E p \in [1..n -> 1..n] : IsOrder(p, n, len)}

\* One rule more can be ordered too: a shortest one goes last.
LEMMA SortOneMore ==
    ASSUME NEW n \in Sortable, NEW len \in [1..(n + 1) -> Nat]
    PROVE  \E p \in [1..(n + 1) -> 1..(n + 1)] : IsOrder(p, n + 1, len)
  <1>1. n \in Nat
    BY DEF Sortable
  <1>2. PICK a \in 1..(n + 1) : \A i \in 1..(n + 1) : len[a] <= len[i]
    <2> DEFINE lens == {len[i] : i \in 1..(n + 1)}
    <2>1. lens \subseteq Nat /\ 1 \in 1..(n + 1)
      BY <1>1
    <2>2. lens # {}
      BY <2>1
    <2>3. Min(lens) \in lens /\ \A x \in lens : Min(lens) <= x
      BY <2>1, <2>2, MinIsLeast
    <2>4. QED
      BY <2>3
  <1> DEFINE skip == [i \in 1..n |-> IF i < a THEN i ELSE i + 1]
             rest == [i \in 1..n |-> len[skip[i]]]
  <1>3. skip \in [1..n -> 1..(n + 1)]
    BY <1>1
  <1>4. \A k \in 1..(n + 1) : k # a => \E i \in 1..n : skip[i] = k
    <2> SUFFICES ASSUME NEW k \in 1..(n + 1), k # a PROVE \E i \in 1..n : skip[i] = k
      OBVIOUS
    <2>1. CASE k < a
      <3>1. k \in 1..n /\ skip[k] = k
        BY <1>1, <2>1
      <3>2. QED
        BY <3>1
    <2>2. CASE ~(k < a)
      <3>1. k - 1 \in 1..n /\ skip[k - 1] = k
        BY <1>1, <2>2
      <3>2. QED
        BY <3>1
    <2>3. QED
      BY <2>1, <2>2
  <1>5. rest \in [1..n -> Nat] /\ \A i \in 1..n : rest[i] = len[skip[i]]
    BY <1>3
  <1> HIDE DEF skip, rest
  <1>6. PICK q \in [1..n -> 1..n] : IsOrder(q, n, rest)
    BY <1>5 DEF Sortable
  <1> DEFINE p == [i \in 1..(n + 1) |-> IF i = n + 1 THEN a ELSE skip[q[i]]]
  <1>7. /\ \A i \in 1..n : i \in 1..(n + 1) /\ i # n + 1 /\ i < n + 1
        /\ \A i \in 1..(n + 1) : i \in 1..n \/ i = n + 1
        /\ n + 1 \in 1..(n + 1)
    BY <1>1
  <1>8. p[n + 1] = a /\ \A i \in 1..n : p[i] = skip[q[i]]
    BY <1>7
  <1>9. p \in [1..(n + 1) -> 1..(n + 1)]
    BY <1>3, <1>7
  <1> HIDE DEF p
  <1>10. \A k \in 1..(n + 1) : \E i \in 1..(n + 1) : p[i] = k
    <2> SUFFICES ASSUME NEW k \in 1..(n + 1), k # a PROVE \E i \in 1..(n + 1) : p[i] = k
      BY <1>7, <1>8
    <2>1. PICK h \in 1..n : skip[h] = k
      BY <1>4
    <2>2. PICK i \in 1..n : q[i] = h
      BY <1>6 DEF IsOrder
    <2>3. QED
      BY <1>7, <1>8, <2>1, <2>2
  <1>11. ASSUME NEW i \in 1..(n + 1), NEW j \in 1..(n + 1), i < j PROVE len[p[i]] >= len[p[j]]
    <2>1. CASE j = n + 1
      <3>1. p[i] \in 1..(n + 1)
        BY <1>9
      <3>2. len[p[i]] \in Nat /\ len[a] \in Nat /\ len[a] <= len[p[i]]
        BY <1>2, <3>1
      <3>3. QED
        BY <1>8, <2>1, <3>2
    <2>2. CASE j # n + 1
      <3>1. i \in 1..n /\ j \in 1..n
        BY <1>1, <1>11, <2>2
      <3>2. rest[q[i]] >= rest[q[j]]
        BY <1>6, <1>11, <3>1 DEF IsOrder
      <3>3. q[i] \in 1..n /\ q[j] \in 1..n
        BY <3>1
      <3>4. QED
        BY <1>5, <1>8, <3>1, <3>2, <3>3
    <2>3. QED
      BY <2>1, <2>2
  <1>12. QED
    BY <1>9, <1>10, <1>11 DEF IsOrder

\* Any number of rules can be ordered: there is no least number that cannot.
LEMMA AllSortable == Sortable = Nat
  <1> DEFINE Bad == Nat \ Sortable
  <1>1. 0 \in Sortable
    <2> SUFFICES ASSUME NEW len \in [1..0 -> Nat] PROVE \E p \in [1..0 -> 1..0] : IsOrder(p, 0, len)
      BY DEF Sortable
    <2>1. [i \in 1..0 |-> i] \in [1..0 -> 1..0]
      OBVIOUS
    <2>2. IsOrder([i \in 1..0 |-> i], 0, len)
      BY DEF IsOrder
    <2>3. QED
      BY <2>1, <2>2
  <1>2. ASSUME Bad # {} PROVE FALSE
    <2>1. Bad \subseteq Nat
      OBVIOUS
    <2>2. PICK m \in Bad : \A k \in Bad : m <= k
      BY <1>2, <2>1, MinIsLeast
    <2>3. m \in Nat /\ m # 0
      BY <1>1
    <2>4. m - 1 \in Nat /\ ~(m <= m - 1) /\ (m - 1) + 1 = m
      BY <2>3
    <2>5. m - 1 \in Sortable
      BY <2>2, <2>4
    <2>6. \A len \in [1..m -> Nat] : \E p \in [1..m -> 1..m] : IsOrder(p, m, len)
      BY <2>4, <2>5, SortOneMore
    <2>7. QED
      BY <2>3, <2>6 DEF Sortable
  <1>3. Sortable \subseteq Nat
    BY DEF Sortable
  <1>4. QED
    BY <1>2, <1>3

\* mapperFromMappings sorts: what it compiles is all the rules, a longer source
\* before a shorter one.
LEMMA CompiledRules ==
    /\ Len(compiled) = Len(Mappings) /\ Len(Mappings) \in Nat
    /\ \A i \in Rules : compiled[i] \in Range(Mappings)
    /\ \A r \in Range(Mappings) : \E i \in Rules : compiled[i] = r
    /\ \A i, j \in Rules : i < j => Len(compiled[i].source) >= Len(compiled[j].source)
    /\ \A r \in Range(Mappings) : Len(r.source) \in Nat
  <1> DEFINE n == Len(Mappings)
             len == [i \in Rules |-> Len(Mappings[i].source)]
             Good(p) == \A i, j \in Rules :
                            i < j => Len(Mappings[p[i]].source) >= Len(Mappings[p[j]].source)
             order == CHOOSE p \in Orders : Good(p)
  <1>1. /\ n \in Nat /\ Range(Mappings) = {Mappings[i] : i \in Rules}
        /\ \A i \in Rules : Len(Mappings[i].source) \in Nat
    <2> DEFINE Rule == [source : Seq(STRING), target : Seq(STRING), drop : BOOLEAN]
    <2>0. Mappings \in Seq(Rule)
      BY BridgeAssumption
    <2> HIDE DEF Rule
    <2>1. n \in Nat /\ DOMAIN Mappings = 1..n /\ \A i \in 1..n : Mappings[i] \in Rule
      BY <2>0
    <2>2. \A i \in 1..n : Mappings[i].source \in Seq(STRING)
      BY <2>1 DEF Rule
    <2>3. \A i \in 1..n : Len(Mappings[i].source) \in Nat
      BY <2>2
    <2>4. QED
      BY <2>1, <2>3 DEF Rules, Range
  <1>2. PICK p \in [Rules -> Rules] : IsOrder(p, n, len)
    <2>1. n \in Sortable /\ len \in [1..n -> Nat]
      BY <1>1, AllSortable DEF Rules
    <2> HIDE DEF len
    <2>2. QED
      BY <2>1 DEF Sortable, Rules
  <1>3. p \in Orders
    <2>1. \A k \in Rules : \E i \in Rules : p[i] = k
      BY <1>2 DEF IsOrder, Rules
    <2>2. QED
      BY <2>1 DEF Orders, Range
  <1>4. Good(p)
    <2>1. \A i, j \in Rules : i < j => len[p[i]] >= len[p[j]]
      BY <1>2 DEF IsOrder, Rules
    <2>2. \A i \in Rules : p[i] \in Rules
      OBVIOUS
    <2>3. QED
      BY <2>1, <2>2
  <1>5. order \in Orders /\ Good(order)
    BY <1>3, <1>4
  <1>6. compiled = [i \in Rules |-> Mappings[order[i]]]
    BY DEF compiled
  <1> HIDE DEF order
  <1>7. (\A i \in Rules : order[i] \in Rules) /\ \A k \in Rules : \E i \in Rules : order[i] = k
    BY <1>5 DEF Orders, Range
  <1>8. \A i \in Rules : compiled[i] = Mappings[order[i]]
    BY <1>6
  <1>9. Len(compiled) = n
    <2>1. compiled \in [1..n -> Range(Mappings)]
      BY <1>1, <1>6, <1>7 DEF Rules
    <2>2. QED
      BY <1>1, <2>1
  <1>10. \A i \in Rules : compiled[i] \in Range(Mappings)
    BY <1>1, <1>7, <1>8
  <1>11. \A r \in Range(Mappings) : \E i \in Rules : compiled[i] = r
    BY <1>1, <1>7, <1>8
  <1>12. \A i, j \in Rules : i < j => Len(compiled[i].source) >= Len(compiled[j].source)
    BY <1>5, <1>8
  <1>13. \A r \in Range(Mappings) : Len(r.source) \in Nat
    BY <1>1
  <1>14. QED
    BY <1>1, <1>9, <1>10, <1>11, <1>12, <1>13

\* The first compiled rule that matches is a most specific one.
LEMMA FirstIsMostSpecific == MostSpecificRule
  <1> SUFFICES ASSUME NEW m \in InStream
               PROVE  LET s    == Traffic[m].subject
                          hits == {r \in Range(Mappings) : IsPrefix(r.source, s)}
                      IN  \/ hits = {} /\ mapper(s) = s
                          \/ \E r \in hits :
                                /\ \A q \in hits : Len(q.source) <= Len(r.source)
                                /\ mapper(s) = IF r.drop THEN <<>>
                                               ELSE r.target \o SubSeq(s, Len(r.source) + 1, Len(s))
    BY DEF MostSpecificRule
  <1> DEFINE s    == Traffic[m].subject
             hits == {r \in Range(Mappings) : IsPrefix(r.source, s)}
             at   == {i \in Rules : IsPrefix(compiled[i].source, s)}
             rule == compiled[Min(at)]
  <1>1. mapper(s) = IF at = {} THEN s
                    ELSE IF rule.drop THEN <<>>
                    ELSE rule.target \o SubSeq(s, Len(rule.source) + 1, Len(s))
    BY CompiledRules DEF mapper, Rules
  <1>2. \A r \in hits : \E i \in at : compiled[i] = r
    BY CompiledRules
  <1>3. \A i \in at : compiled[i] \in hits
    BY CompiledRules
  <1>4. CASE at = {}
    <2>1. hits = {}
      BY <1>2, <1>4
    <2>2. QED
      BY <1>1, <1>4, <2>1
  <1>5. CASE at # {}
    <2>1. at \subseteq Nat
      BY CompiledRules DEF Rules
    <2> DEFINE first == Min(at)
    <2>2. first \in at /\ \A i \in at : first <= i
      BY <1>5, <2>1, MinIsLeast
    <2> HIDE DEF first
    <2>3. ASSUME NEW q \in hits PROVE Len(q.source) <= Len(compiled[first].source)
      <3>1. PICK i \in at : compiled[i] = q
        BY <1>2
      <3>2. i \in Rules /\ first \in Rules /\ i \in Nat /\ first \in Nat /\ first <= i
        BY <2>1, <2>2
      <3>3. Len(compiled[i].source) \in Nat /\ Len(compiled[first].source) \in Nat
        BY <3>2, CompiledRules
      <3>4. first = i \/ Len(compiled[first].source) >= Len(compiled[i].source)
        BY <3>2, CompiledRules
      <3>5. QED
        BY <3>1, <3>3, <3>4
    <2>4. rule \in hits /\ \A q \in hits : Len(q.source) <= Len(rule.source)
      BY <1>3, <2>2, <2>3 DEF first
    <2>5. mapper(s) = IF rule.drop THEN <<>>
                      ELSE rule.target \o SubSeq(s, Len(rule.source) + 1, Len(s))
      BY <1>1, <1>5
    <2> HIDE DEF rule
    <2>6. QED
      BY <2>4, <2>5
  <1>6. QED
    BY <1>4, <1>5

\* The state has its type, a subject is mapped by a most specific rule, and
\* forward leaves a second copy of a message with an id on the target stream
\* only after the duplicate window has passed.
THEOREM BridgeTheorem == Spec => []BridgeInv
  <1>1. ASSUME ForwarderInv PROVE BridgeInv
    <2>1. target \in [Keys -> Nat] /\ expired \in [Keys -> Nat]
      BY <1>1 DEF ForwarderInv, TypeOK
    <2>2. ASSUME NEW k \in Keys \ Messages PROVE target[k] <= 1 + expired[k]
      <3>1. target[k] <= expired[k] + (IF k \in window THEN 1 ELSE 0)
        BY <1>1 DEF ForwarderInv, CopiesCounted
      <3>2. QED
        BY <2>1, <3>1
    <2>3. QED
      BY <1>1, <2>2, FirstIsMostSpecific DEF ForwarderInv, DuplicatesOnlyAfterExpiry, BridgeInv
  <1>2. QED
    BY <1>1, BridgeCorrect, PTL
-----------------------------------------------------------------------------
\* A publish, whatever the bridge is told of it, stores the message or finds
\* it stored.
LEMMA PublishRefines ==
    ASSUME ForwarderInv, NEW f \in Filters, loop[f] = "forward", Current(f) \notin Dropped,
           Stored(Key(Current(f))) \/ UNCHANGED sink, settled' = settled
    PROVE  [Promise!Next]_<<{k \in Keys : target[k] > 0}, settled>>
  <1>1. CASE UNCHANGED sink
    BY <1>1 DEF sink
  <1>2. CASE Stored(Key(Current(f)))
    <2>1. Current(f) \in Messages \ Dropped /\ Key(Current(f)) \in Keys
      BY CurrentIsHeld
    <2>2. {k \in Keys : target'[k] > 0} = {k \in Keys : target[k] > 0} \cup {Key(Current(f))}
      BY <1>2, <2>1, StoredEffect
    <2>3. Promise!Store
      BY <2>1, <2>2 DEF Promise!Store
    <2>4. QED
      BY <2>3 DEF Promise!Next
  <1>3. QED
    BY <1>1, <1>2

\* Every step of the bridge is a step of the forwarder or leaves it alone: only
\* a message that is dropped or stored is acknowledged.
LEMMA StepRefines ==
    ASSUME ForwarderInv, [Next]_vars
    PROVE  [Promise!Next]_<<{k \in Keys : target[k] > 0}, settled>>
  <1>1. ASSUME UNCHANGED <<target, settled>>
        PROVE  [Promise!Next]_<<{k \in Keys : target[k] > 0}, settled>>
    BY <1>1
  <1>2. CASE Subscribe \/ SubscribeCollides \/ SubscribeFails \/ Subscribed \/ Return
             \/ Redeliver \/ Cancel \/ Crash \/ Restart \/ UNCHANGED vars
    BY <1>1, <1>2 DEF Subscribe, SubscribeCollides, SubscribeFails, Subscribed, Return,
           Redeliver, Cancel, Crash, Restart, vars, source, sink
  <1>3. ASSUME NEW k \in Keys, Expire(k) PROVE UNCHANGED <<target, settled>>
    BY <1>3 DEF Expire, source
  <1>4. ASSUME NEW f \in Filters, LoopCancelled(f) \/ Fetch(f) \/ FetchFails(f) \/ AckFails(f)
        PROVE  UNCHANGED <<target, settled>>
    BY <1>4 DEF LoopCancelled, Fetch, FetchFails, AckFails, sink
  <1>5. ASSUME NEW f \in Filters, Publish(f) \/ PublishFails(f)
        PROVE  [Promise!Next]_<<{k \in Keys : target[k] > 0}, settled>>
    BY <1>5, PublishRefines DEF Publish, PublishFails, source
  <1>6. ASSUME NEW f \in Filters, Ack(f)
        PROVE  [Promise!Next]_<<{k \in Keys : target[k] > 0}, settled>>
    <2>1. target' = target /\ (settled' = settled \/ settled' = settled \cup {Current(f)})
      BY <1>6 DEF Ack, sink
    <2>2. loop[f] \in {"forward", "ack"} /\ (loop[f] = "ack" \/ Current(f) \in Dropped)
      BY <1>6 DEF Ack, Acking
    <2>3. Current(f) \in Messages /\ Key(Current(f)) \in Keys
      BY <2>2, CurrentIsHeld
    <2>4. Current(f) \in Dropped \/ Key(Current(f)) \in {k \in Keys : target[k] > 0}
      BY <2>2, <2>3 DEF ForwarderInv, AckedIsStored
    <2>5. CASE settled' = settled
      BY <1>1, <2>1, <2>5
    <2>6. CASE settled' = settled \cup {Current(f)}
      <3>1. Promise!Settle
        BY <2>1, <2>3, <2>4, <2>6 DEF Promise!Settle
      <3>2. QED
        BY <3>1 DEF Promise!Next
    <2>7. QED
      BY <2>1, <2>5, <2>6
  <1>7. QED
    BY <1>1, <1>2, <1>3, <1>4, <1>5, <1>6 DEF Next, LoopStep

\* The bridge implements the at-least-once forwarder.
THEOREM ForwarderTheorem == Spec => ImplementsForwarder
  <1>1. Init => Promise!Init
    <2>1. Init => {k \in Keys : target[k] > 0} = {}
      BY DEF Init
    <2>2. QED
      BY <2>1 DEF Init, Promise!Init
  <1>2. ForwarderInv /\ [Next]_vars => [Promise!Next]_<<{k \in Keys : target[k] > 0}, settled>>
    BY StepRefines
  <1>3. QED
    BY <1>1, <1>2, BridgeCorrect, PTL DEF Spec, ImplementsForwarder, Promise!Spec
=============================================================================

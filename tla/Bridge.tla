------------------------------- MODULE Bridge -------------------------------
(***************************************************************************)
(* The legacy bridge: Service.Run, consumeLoop and forward                 *)
(* (bridge/service.go) with the prefix mapping of bridge/mapping.go,       *)
(* between a source stream with one durable consumer per subject and a     *)
(* target stream that drops a message whose Nats-Msg-Id it has seen lately.*)
(*                                                                         *)
(* A message is named by its sequence number in the source stream, a       *)
(* subject is a sequence of characters.  Faults (a request that fails, an  *)
(* acknowledgement that is lost, a crash, a cancelled context) are bounded.*)
(***************************************************************************)
EXTENDS Integers, Sequences, FiniteSets, SequencesExt

CONSTANTS
    Streams,    \* the subjects a source stream may have: a set of sequences
    Traffic,    \* the messages: a sequence of [subject, id]
    NoId,       \* the id of a message without a Nats-Msg-Id
    Mappings,   \* cfg.SubjectMappings: a sequence of [source, target, drop]
    NameLength, \* the most characters of a durable's name (64)
    FetchBatch, \* Service.fetchBatch
    MaxFaults   \* bound: how many faults there are

\* A stream has a subject once (the server refuses overlapping subjects).
ASSUME BridgeAssumption ==
    /\ \A s \in Streams : s \in Seq(Seq(STRING)) /\ IsInjective(s)
    /\ Traffic \in Seq(Range(Traffic))
    /\ Mappings \in Seq([source : Seq(STRING), target : Seq(STRING), drop : BOOLEAN])
    /\ FetchBatch \in Nat \ {0}
    /\ NameLength \in Nat \ {0}
    /\ MaxFaults \in Nat

Messages == 1..Len(Traffic)

\* What the target stream tells messages apart by.
Key(m) == IF Traffic[m].id = NoId THEN m ELSE Traffic[m].id

Keys == {Key(m) : m \in Messages}
-----------------------------------------------------------------------------
\* Subjects.

\* durableName: punctuation becomes "_", which is then trimmed at both ends.
Cleaned(subject) ==
    [i \in 1..Len(subject) |->
        IF subject[i] \in {".", "*", ">", " ", ":"} THEN "_" ELSE subject[i]]

Trimmed(name) ==
    LET kept == {i \in 1..Len(name) : name[i] # "_"}
    IN  IF kept = {} THEN <<>> ELSE SubSeq(name, Min(kept), Max(kept))

durableName(subject) ==
    LET name == Trimmed(Cleaned(subject))
    IN  IF name = <<>> THEN <<"a", "l", "l">>
        ELSE SubSeq(name, 1, IF Len(name) > NameLength THEN NameLength ELSE Len(name))

Rules == 1..Len(Mappings)

\* The permutations of the rules: sort.Slice leaves them in one of these orders.
Orders == {p \in [Rules -> Rules] : Range(p) = Rules}

MutantShortestFirst ==
    LET order == CHOOSE p \in Orders :
                    \A i, j \in Rules :
                        i < j => Len(Mappings[p[i]].source) <= Len(Mappings[p[j]].source)
    IN  [i \in Rules |-> Mappings[order[i]]]

\* mapperFromMappings: the rules by falling length of their source.  Different
\* sources of one length are never prefixes of the same subject, so the order
\* among those is left open.
compiled ==
    LET order == CHOOSE p \in Orders :
                    \A i, j \in Rules :
                        i < j => Len(Mappings[p[i]].source) >= Len(Mappings[p[j]].source)
    IN  [i \in Rules |-> Mappings[order[i]]]

\* The subject the mapper gives, or <<>> when a rule drops the message.
mapper(subject) ==
    LET hits == {i \in 1..Len(compiled) : IsPrefix(compiled[i].source, subject)}
        rule == compiled[Min(hits)]
    IN  IF hits = {} THEN subject
        ELSE IF rule.drop THEN <<>>
        ELSE rule.target \o SubSeq(subject, Len(rule.source) + 1, Len(subject))

Dropped == {m \in Messages : mapper(Traffic[m].subject) = <<>>}
-----------------------------------------------------------------------------
VARIABLES
    subjects,   \* the subjects of the source stream, in order
    run,        \* Run: "subscribing", "running" or "returned"
    next,       \* Run: the subject it subscribes to next
    cancelled,  \* runCtx
    loop,       \* consumeLoop of a subject: "off", "fetch", "forward", "ack"
    queue,      \* consumeLoop: the messages fetched and not handled yet
    durables,   \* server: the subjects that have a durable consumer
    own,        \* the ones whose durable this process created
    avail,      \* consumers: the messages ready for delivery
    acked,      \* consumers: the messages acknowledged
    settled,    \* the messages that were acknowledged at some time
    target,     \* how often the target stream stored a key
    window,     \* the keys in the target's duplicate window
    expired,    \* how often a key left the window
    faults      \* how many faults there were

service == <<run, next, cancelled, loop, queue, own>>
source  == <<durables, avail, acked, settled>>
sink    == <<target, window, expired>>
vars    == <<subjects, service, source, sink, faults>>

Fault ==
    /\ faults < MaxFaults
    /\ faults' = faults + 1

Of(f) == {m \in Messages : Traffic[m].subject = f}

Filters == Range(subjects)

Off == [f \in Filters |-> "off"]

Empty == [f \in Filters |-> {}]
-----------------------------------------------------------------------------
\* Run.

\* The connections are closed: every loop fails at its next call.  No consumer
\* is deleted.  Also what a crash leaves.
Gone ==
    /\ run' = "returned"
    /\ loop' = Off
    /\ queue' = Empty
    /\ own' = {}
    /\ UNCHANGED <<next, cancelled>>

\* PullSubscribe creates the durable (which then delivers from the beginning)
\* or binds to it, and a loop is started ...
Taken(f) == \E g \in durables \ {f} : durableName(g) = durableName(f)

Subscribe ==
    LET f == subjects[next]
    IN  /\ run = "subscribing"
        /\ next <= Len(subjects)
        /\ ~Taken(f)
        /\ next' = next + 1
        /\ loop' = [loop EXCEPT ![f] = "fetch"]
        /\ durables' = durables \cup {f}
        /\ own' = own \cup ({f} \ durables)
        /\ avail' = IF f \in durables THEN avail ELSE avail \cup Of(f)
        /\ UNCHANGED <<subjects, run, cancelled, queue, acked, settled, sink, faults>>

\* ... unless the name belongs to the durable of another subject, or the call
\* fails: Run returns without waiting for the loops it started.
SubscribeCollides ==
    /\ run = "subscribing"
    /\ next <= Len(subjects)
    /\ Taken(subjects[next])
    /\ Gone
    /\ UNCHANGED <<subjects, source, sink, faults>>

SubscribeFails ==
    /\ run = "subscribing"
    /\ next <= Len(subjects)
    /\ Fault
    /\ Gone
    /\ UNCHANGED <<subjects, source, sink>>

Subscribed ==
    /\ run = "subscribing"
    /\ next > Len(subjects)
    /\ run' = "running"
    /\ UNCHANGED <<subjects, next, cancelled, loop, queue, own, source, sink, faults>>

\* g.Wait returns.
Return ==
    /\ run = "running"
    /\ loop = Off
    /\ run' = "returned"
    /\ UNCHANGED <<subjects, next, cancelled, loop, queue, own, source, sink, faults>>
-----------------------------------------------------------------------------
\* consumeLoop and forward.

MutantKeepGroup(f) ==
    /\ loop' = [loop EXCEPT ![f] = "off"]
    /\ queue' = [queue EXCEPT ![f] = {}]
    /\ UNCHANGED <<cancelled, own, durables, avail, acked>>

\* The loop returns an error, which cancels the others.  The deferred
\* Unsubscribe deletes a durable that PullSubscribe created, with its position.
LoopEnds(f) ==
    LET deleted == {f} \cap own
        lost    == {m \in Messages : Traffic[m].subject \in deleted}
    IN  /\ loop' = [loop EXCEPT ![f] = "off"]
        /\ queue' = [queue EXCEPT ![f] = {}]
        /\ cancelled' = TRUE
        /\ own' = own \ deleted
        /\ durables' = durables \ deleted
        /\ avail' = avail \ lost
        /\ acked' = acked \ lost

\* ctx.Err at the head of the loop.
LoopCancelled(f) ==
    /\ loop[f] = "fetch"
    /\ cancelled
    /\ LoopEnds(f)
    /\ UNCHANGED <<subjects, run, next, settled, sink, faults>>

MutantFetchNothing(f) ==
    /\ loop[f] = "fetch"
    /\ ~cancelled
    /\ \E msgs \in SUBSET (avail \cap Of(f)) :
          /\ Cardinality(msgs) <= FetchBatch
          /\ queue' = [queue EXCEPT ![f] = msgs]
          /\ avail' = avail \ msgs
    /\ loop' = [loop EXCEPT ![f] = "forward"]
    /\ UNCHANGED <<subjects, run, next, cancelled, own, durables, acked, settled, sink, faults>>

\* A timeout with no message is a step that changes nothing.
Fetch(f) ==
    /\ loop[f] = "fetch"
    /\ ~cancelled
    /\ \E msgs \in SUBSET (avail \cap Of(f)) :
          /\ msgs # {}
          /\ Cardinality(msgs) <= FetchBatch
          /\ \A m \in msgs, k \in (avail \cap Of(f)) \ msgs : m < k
          /\ queue' = [queue EXCEPT ![f] = msgs]
          /\ avail' = avail \ msgs
    /\ loop' = [loop EXCEPT ![f] = "forward"]
    /\ UNCHANGED <<subjects, run, next, cancelled, own, durables, acked, settled, sink, faults>>

\* Fetch returns an error other than a timeout.
FetchFails(f) ==
    /\ loop[f] = "fetch"
    /\ Fault
    /\ LoopEnds(f)
    /\ UNCHANGED <<subjects, run, next, settled, sink>>

Current(f) == Min(queue[f])

MutantNoHeader(k) ==
    /\ target' = [target EXCEPT ![k] = @ + 1]
    /\ UNCHANGED <<window, expired>>

\* The target stream takes a message: a key in the window is not stored again.
\* The header with the id is copied by cloneHeader.
Stored(k) ==
    /\ IF k \in window
       THEN UNCHANGED <<target, window>>
       ELSE /\ target' = [target EXCEPT ![k] = @ + 1]
            /\ window' = window \cup ({k} \ Messages)
    /\ UNCHANGED expired

\* PublishMsg succeeds.
Publish(f) ==
    /\ loop[f] = "forward"
    /\ Current(f) \notin Dropped
    /\ Stored(Key(Current(f)))
    /\ loop' = [loop EXCEPT ![f] = "ack"]
    /\ UNCHANGED <<subjects, run, next, cancelled, queue, own, source, faults>>

\* PublishMsg fails, or its context is cancelled; the message may be stored.
PublishFails(f) ==
    /\ loop[f] = "forward"
    /\ Current(f) \notin Dropped
    /\ Fault \/ (cancelled /\ UNCHANGED faults)
    /\ Stored(Key(Current(f))) \/ UNCHANGED sink
    /\ LoopEnds(f)
    /\ UNCHANGED <<subjects, run, next, settled>>

\* msg.Ack, of a message that was published or that the mapper drops.  It is
\* sent and not waited for, so it may be lost.
MutantAckUnsent(f) == loop[f] \in {"forward", "ack"}

Acking(f) == loop[f] = "ack" \/ (loop[f] = "forward" /\ Current(f) \in Dropped)

Ack(f) ==
    /\ Acking(f)
    /\ \/ /\ acked' = acked \cup {Current(f)}
          /\ settled' = settled \cup {Current(f)}
          /\ UNCHANGED faults
       \/ /\ Fault
          /\ UNCHANGED <<acked, settled>>
    /\ queue' = [queue EXCEPT ![f] = @ \ {Current(f)}]
    /\ loop' = [loop EXCEPT ![f] = IF queue'[f] = {} THEN "fetch" ELSE "forward"]
    /\ UNCHANGED <<subjects, run, next, cancelled, own, durables, avail, sink>>

AckFails(f) ==
    /\ Acking(f)
    /\ Fault
    /\ LoopEnds(f)
    /\ UNCHANGED <<subjects, run, next, settled, sink>>
-----------------------------------------------------------------------------
\* The surroundings.

\* The consumer delivers again what was not acknowledged in time.
Redeliver ==
    /\ \E m \in Messages \ (avail \cup acked) :
          /\ Traffic[m].subject \in durables
          /\ \A f \in Filters : m \notin queue[f]
          /\ avail' = avail \cup {m}
    /\ UNCHANGED <<subjects, service, durables, acked, settled, sink, faults>>

Cancel ==
    /\ run # "returned"
    /\ ~cancelled
    /\ Fault
    /\ cancelled' = TRUE
    /\ UNCHANGED <<subjects, run, next, loop, queue, own, source, sink>>

Crash ==
    /\ run # "returned"
    /\ Fault
    /\ Gone
    /\ UNCHANGED <<subjects, source, sink>>

\* The supervisor starts a process that ended.
Restart ==
    /\ run = "returned"
    /\ run' = "subscribing"
    /\ next' = 1
    /\ cancelled' = FALSE
    /\ UNCHANGED <<subjects, loop, queue, own, source, sink, faults>>

\* The duplicate window of the target stream passes; bounded with the faults.
Expire(k) ==
    /\ k \in window
    /\ Fault
    /\ window' = window \ {k}
    /\ expired' = [expired EXCEPT ![k] = @ + 1]
    /\ UNCHANGED <<subjects, service, source, target>>
-----------------------------------------------------------------------------
Init ==
    /\ subjects \in Streams
    /\ run = "subscribing"
    /\ next = 1
    /\ cancelled = FALSE
    /\ loop = Off
    /\ queue = Empty
    /\ durables = {}
    /\ own = {}
    /\ avail = {}
    /\ acked = {}
    /\ settled = {}
    /\ target = [k \in Keys |-> 0]
    /\ window = {}
    /\ expired = [k \in Keys |-> 0]
    /\ faults = 0

\* What a loop does when it has something to do.
LoopStep(f) == LoopCancelled(f) \/ Fetch(f) \/ Publish(f) \/ Ack(f)

Next ==
    \/ Subscribe
    \/ SubscribeCollides
    \/ SubscribeFails
    \/ Subscribed
    \/ Return
    \/ \E f \in Filters : LoopStep(f) \/ FetchFails(f) \/ PublishFails(f) \/ AckFails(f)
    \/ Redeliver
    \/ Cancel
    \/ Crash
    \/ Restart
    \/ \E k \in Keys : Expire(k)

Spec == Init /\ [][Next]_vars

\* Run and its loops go on, an ended process is started again, and what was
\* not acknowledged comes again.  No fault has to happen.
FairSpec ==
    /\ Spec
    /\ WF_vars(Subscribe) /\ WF_vars(SubscribeCollides) /\ WF_vars(Subscribed)
    /\ WF_vars(Return) /\ WF_vars(Restart) /\ WF_vars(Redeliver)
    /\ \A f \in UNION {Range(s) : s \in Streams} :
          WF_vars(f \in Filters /\ LoopStep(f))
-----------------------------------------------------------------------------
InStream == {m \in Messages : Traffic[m].subject \in Filters}

\* Types, and that a loop has messages exactly when it is handling one.
TypeOK ==
    /\ run \in {"subscribing", "running", "returned"}
    /\ next \in 1..(Len(subjects) + 1)
    /\ cancelled \in BOOLEAN
    /\ loop \in [Filters -> {"off", "fetch", "forward", "ack"}]
    /\ queue \in [Filters -> SUBSET Messages]
    /\ \A f \in Filters : queue[f] # {} <=> loop[f] \in {"forward", "ack"}
    /\ durables \subseteq Filters
    /\ own \subseteq durables
    /\ avail \cup acked \cup settled \subseteq InStream
    /\ avail \cap acked = {}
    /\ target \in [Keys -> Nat]
    /\ window \subseteq Keys
    /\ expired \in [Keys -> Nat]
    /\ faults \in 0..MaxFaults

\* The rule that maps a subject is a most specific one of those that match it,
\* in whatever order the file of mapperFromMappings lists them.
MostSpecificRule ==
    \A m \in InStream :
        LET s    == Traffic[m].subject
            hits == {r \in Range(Mappings) : IsPrefix(r.source, s)}
        IN  \/ hits = {} /\ mapper(s) = s
            \/ \E r \in hits :
                  /\ \A q \in hits : Len(q.source) <= Len(r.source)
                  /\ mapper(s) = IF r.drop THEN <<>>
                                 ELSE r.target \o SubSeq(s, Len(r.source) + 1, Len(s))

\* forward sends a message again after a failed acknowledgement, a crash or a
\* deleted durable; the target stream then has a second copy only when its
\* duplicate window has passed in between, as the id travels with the message.
DuplicatesOnlyAfterExpiry ==
    \A k \in Keys \ Messages : target[k] <= 1 + expired[k]

\* The bridge's state: its type, subjects mapped by the most specific rule, and
\* copies on the target stream only where a duplicate window has passed.
BridgeInv ==
    /\ TypeOK
    /\ MostSpecificRule
    /\ DuplicatesOnlyAfterExpiry

\* forward acknowledges nothing that is neither published nor dropped by a
\* rule: the bridge is an at-least-once forwarder.
Promise == INSTANCE Forwarder WITH
               stored <- {k \in Keys : target[k] > 0}

ImplementsForwarder == Promise!Spec

\* A cancelled context, or one loop that fails, ends Run, whatever the other
\* loops are doing.
RunReturns ==
    cancelled \/ (run = "running" /\ \E f \in Filters : loop[f] = "off")
        ~> run = "returned"

\* Every message is settled in the end, through failed publishes, lost
\* acknowledgements, crashes and restarts, unless two subjects have durables
\* of one name: then Run fails each time it starts.
EventuallySettled ==
    (\A f, g \in Filters : durableName(f) = durableName(g) => f = g)
        => <>[](settled = InStream)
=============================================================================

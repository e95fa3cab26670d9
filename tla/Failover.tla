------------------------------ MODULE Failover ------------------------------
(***************************************************************************)
(* The failover service (ingestor/geyser/failover_service.go) and the      *)
(* stream clients it alternates between (ingestor/geyser/client.go,        *)
(* ingestor/helius/stream_client.go), whose subscribeLoop goroutines hand  *)
(* updates and errors over two channels.  The clients have the same        *)
(* control flow; what an update contains is left out (SwapProcessor).      *)
(*                                                                         *)
(* Each Subscribe makes new channels and a new goroutine.  A goroutine     *)
(* whose client was closed settles (exits, or blocks) within the seconds   *)
(* the service sleeps before it comes back to that client.                 *)
(***************************************************************************)
EXTENDS Integers

CONSTANTS
    NumClients,   \* 1 without a fallback, 2 with one
    ChannelCap,   \* capacity of the update channel (100 and 128 in the code)
    MaxFailures   \* bound: how many times an endpoint or a handler fails

ASSUME FailoverAssumption ==
    /\ NumClients \in Nat \ {0}
    /\ ChannelCap \in Nat \ {0}
    /\ MaxFailures \in Nat

Clients == 0..(NumClients - 1)

VARIABLES
    svc,        \* Run: "connect", "recv" in runClient's select, "sleep", "returned"
    current,    \* index of the client in use
    ctxDone,    \* the context given to Run is cancelled
    closed,     \* per client: its context is cancelled (Close was called once)
    loops,      \* per client: where the latest subscribeLoop is
    errBuf,     \* per client: errors in errCh (capacity 1)
    updBuf,     \* per client: updates in updateCh
    up,         \* per client: its endpoint accepts and feeds streams
    failures,   \* how many failures there were
    late        \* history, per client: updates put in updateCh while the service
                \* was not receiving from the client

failoverVars == <<svc, current, ctxDone, closed, loops, errBuf, updBuf, up, failures, late>>

clientVars == <<closed, loops, errBuf, updBuf, late>>
-----------------------------------------------------------------------------
\* subscribeLoop.

Goto(c, pc) == loops' = [loops EXCEPT ![c] = pc]

\* The head of the loop: return (and close both channels) once the client is
\* closed, otherwise open a stream.
LoopCheck(c) ==
    /\ loops[c] = "check"
    /\ Goto(c, IF closed[c] THEN "exited" ELSE "open")
    /\ UNCHANGED <<svc, current, ctxDone, closed, errBuf, updBuf, up, failures, late>>

\* Subscribe and Send: they fail when the endpoint is down or the context is
\* cancelled.
LoopOpen(c) ==
    /\ loops[c] = "open"
    /\ Goto(c, IF up[c] /\ ~closed[c] THEN "stream" ELSE "report")
    /\ UNCHANGED <<svc, current, ctxDone, closed, errBuf, updBuf, up, failures, late>>

\* The head of processStream's loop: it returns once the client is closed.
LoopStream(c) ==
    /\ loops[c] = "stream"
    /\ Goto(c, IF closed[c] THEN "backoff" ELSE "recv")
    /\ UNCHANGED <<svc, current, ctxDone, closed, errBuf, updBuf, up, failures, late>>

\* stream.Recv: an update, which may have arrived before Close was called, or
\* the end of the stream: an error is reported, an EOF is not.
LoopRecv(c) ==
    /\ loops[c] = "recv"
    /\ \/ up[c] /\ Goto(c, "forward")
       \/ /\ ~up[c] \/ closed[c]
          /\ Goto(c, "report") \/ Goto(c, "backoff")
    /\ UNCHANGED <<svc, current, ctxDone, closed, errBuf, updBuf, up, failures, late>>

Receiving(c) == svc = "recv" /\ current = c

MutantForwardStays(c) ==
    /\ loops[c] = "forward"
    /\ updBuf[c] < ChannelCap
    /\ updBuf' = [updBuf EXCEPT ![c] = @ + 1]
    /\ late' = [late EXCEPT ![c] = IF Receiving(c) THEN @ ELSE @ + 1]
    /\ Goto(c, "recv")
    /\ UNCHANGED <<svc, current, ctxDone, closed, errBuf, up, failures>>

\* The select of processStream: the send when the channel has room, whether or
\* not the client is closed by now ...
LoopForward(c) ==
    /\ loops[c] = "forward"
    /\ updBuf[c] < ChannelCap
    /\ updBuf' = [updBuf EXCEPT ![c] = @ + 1]
    /\ late' = [late EXCEPT ![c] = IF Receiving(c) THEN @ ELSE @ + 1]
    /\ Goto(c, "stream")
    /\ UNCHANGED <<svc, current, ctxDone, closed, errBuf, up, failures>>

\* ... or the cancelled context.
LoopForwardDone(c) ==
    /\ loops[c] = "forward"
    /\ closed[c]
    /\ Goto(c, "backoff")
    /\ UNCHANGED <<svc, current, ctxDone, closed, errBuf, updBuf, up, failures, late>>

MutantReportUnbounded(c) ==
    /\ loops[c] = "report"
    /\ errBuf' = [errBuf EXCEPT ![c] = @ + 1]
    /\ Goto(c, "backoff")
    /\ UNCHANGED <<svc, current, ctxDone, closed, updBuf, up, failures, late>>

\* The send on errCh, which is in no select: it waits for room and for nothing else.
LoopReport(c) ==
    /\ loops[c] = "report"
    /\ errBuf[c] = 0
    /\ errBuf' = [errBuf EXCEPT ![c] = 1]
    /\ Goto(c, "backoff")
    /\ UNCHANGED <<svc, current, ctxDone, closed, updBuf, up, failures, late>>

\* The wait before the next attempt, cut short by the cancelled context.
LoopBackoff(c) ==
    /\ loops[c] = "backoff"
    /\ Goto(c, IF closed[c] THEN "exited" ELSE "check")
    /\ UNCHANGED <<svc, current, ctxDone, closed, errBuf, updBuf, up, failures, late>>
-----------------------------------------------------------------------------
\* The service.

\* Where the goroutine of an earlier subscription is by the time the service
\* comes back to its client.
Blocked(c) == loops[c] = "report" /\ errBuf[c] = 1

Settled(c) == loops[c] \in {"none", "exited"} \/ Blocked(c)

\* runClient up to its loop: Connect, which does not wait for the endpoint and
\* does not mind a cancelled context, and Subscribe.
ConnectAndSubscribe ==
    /\ svc = "connect"
    /\ Settled(current)
    /\ svc' = "recv"
    /\ Goto(current, "check")
    /\ errBuf' = [errBuf EXCEPT ![current] = 0]
    /\ updBuf' = [updBuf EXCEPT ![current] = 0]
    /\ UNCHANGED <<current, ctxDone, closed, up, failures, late>>

MutantStayOpen ==
    /\ svc' = "sleep"
    /\ current' = (current + 1) % NumClients
    /\ UNCHANGED closed

MutantNoToggle ==
    /\ svc' = "sleep"
    /\ closed' = [closed EXCEPT ![current] = TRUE]
    /\ UNCHANGED current

\* runClient returns an error: the deferred Close, then the toggle.
LeaveClient ==
    /\ svc' = "sleep"
    /\ closed' = [closed EXCEPT ![current] = TRUE]
    /\ current' = (current + 1) % NumClients

\* The select's error case: an error ends the session.
RecvError ==
    /\ svc = "recv"
    /\ errBuf[current] = 1
    /\ errBuf' = [errBuf EXCEPT ![current] = 0]
    /\ LeaveClient
    /\ UNCHANGED <<ctxDone, loops, updBuf, up, failures, late>>

\* The select's update case: the processor handles the update.
RecvUpdate ==
    /\ svc = "recv"
    /\ updBuf[current] > 0
    /\ updBuf' = [updBuf EXCEPT ![current] = @ - 1]
    /\ UNCHANGED <<svc, current, ctxDone, closed, loops, errBuf, up, failures, late>>

\* The same, but the processor returns an error (an undecodable transaction,
\* a failed publish).
RecvUpdateFails ==
    /\ svc = "recv"
    /\ updBuf[current] > 0
    /\ failures < MaxFailures
    /\ updBuf' = [updBuf EXCEPT ![current] = @ - 1]
    /\ failures' = failures + 1
    /\ LeaveClient
    /\ UNCHANGED <<ctxDone, loops, errBuf, up, late>>

\* The same, but the publish fails because the service's context is cancelled:
\* Run returns.
RecvUpdateCancelled ==
    /\ svc = "recv"
    /\ updBuf[current] > 0
    /\ ctxDone
    /\ updBuf' = [updBuf EXCEPT ![current] = @ - 1]
    /\ svc' = "returned"
    /\ closed' = [closed EXCEPT ![current] = TRUE]
    /\ UNCHANGED <<current, ctxDone, loops, errBuf, up, failures, late>>

\* The update channel is closed and drained.
RecvClosed ==
    /\ svc = "recv"
    /\ loops[current] = "exited" /\ updBuf[current] = 0
    /\ LeaveClient
    /\ UNCHANGED <<ctxDone, loops, errBuf, updBuf, up, failures, late>>

MutantRecvIgnoresCtx == FALSE /\ UNCHANGED failoverVars

\* The select's ctx.Done() case: Close, and Run returns.
RecvDone ==
    /\ svc = "recv"
    /\ ctxDone
    /\ svc' = "returned"
    /\ closed' = [closed EXCEPT ![current] = TRUE]
    /\ UNCHANGED <<current, ctxDone, loops, errBuf, updBuf, up, failures, late>>

\* time.Sleep(primaryRetryDelay) or time.Sleep(fallbackRetryDelay).
Wake ==
    /\ svc = "sleep"
    /\ svc' = "connect"
    /\ UNCHANGED <<current, ctxDone, clientVars, up, failures>>
-----------------------------------------------------------------------------
\* The world.

Cancel ==
    /\ ~ctxDone
    /\ ctxDone' = TRUE
    /\ UNCHANGED <<svc, current, clientVars, up, failures>>

EndpointFails(c) ==
    /\ up[c]
    /\ failures < MaxFailures
    /\ up' = [up EXCEPT ![c] = FALSE]
    /\ failures' = failures + 1
    /\ UNCHANGED <<svc, current, ctxDone, clientVars>>

EndpointRecovers(c) ==
    /\ ~up[c]
    /\ up' = [up EXCEPT ![c] = TRUE]
    /\ UNCHANGED <<svc, current, ctxDone, clientVars, failures>>

FailoverInit ==
    /\ svc = "connect"
    /\ current = 0
    /\ ctxDone = FALSE
    /\ closed = [c \in Clients |-> FALSE]
    /\ loops = [c \in Clients |-> "none"]
    /\ errBuf = [c \in Clients |-> 0]
    /\ updBuf = [c \in Clients |-> 0]
    /\ up = [c \in Clients |-> TRUE]
    /\ failures = 0
    /\ late = [c \in Clients |-> 0]

Loop(c) ==
    \/ LoopCheck(c)
    \/ LoopOpen(c)
    \/ LoopStream(c)
    \/ LoopRecv(c)
    \/ LoopForward(c)
    \/ LoopForwardDone(c)
    \/ LoopReport(c)
    \/ LoopBackoff(c)

Service ==
    \/ ConnectAndSubscribe
    \/ RecvError
    \/ RecvUpdate
    \/ RecvUpdateFails
    \/ RecvUpdateCancelled
    \/ RecvClosed
    \/ RecvDone
    \/ Wake

FailoverNext ==
    \/ \E c \in Clients : Loop(c) \/ EndpointFails(c) \/ EndpointRecovers(c)
    \/ Service
    \/ Cancel

\* The Go scheduler runs every goroutine that can run, a select that is entered
\* again and again takes every case that stays ready (it chooses at random),
\* and a failed endpoint comes back.
Fairness ==
    /\ \A c \in Clients : WF_failoverVars(Loop(c)) /\ WF_failoverVars(EndpointRecovers(c))
    /\ WF_failoverVars(ConnectAndSubscribe) /\ WF_failoverVars(Wake)
    /\ WF_failoverVars(RecvUpdate) /\ WF_failoverVars(RecvError) /\ WF_failoverVars(RecvClosed)
    /\ SF_failoverVars(RecvDone)

FailoverSpec == FailoverInit /\ [][FailoverNext]_failoverVars /\ Fairness
-----------------------------------------------------------------------------
\* Properties.

LoopStates == {"none", "check", "open", "stream", "recv", "forward", "report", "backoff", "exited"}

\* The state has its type: neither channel ever holds more than its capacity.
FailoverTypeOK ==
    /\ svc \in {"connect", "recv", "sleep", "returned"}
    /\ current \in Clients
    /\ ctxDone \in BOOLEAN
    /\ closed \in [Clients -> BOOLEAN]
    /\ loops \in [Clients -> LoopStates]
    /\ errBuf \in [Clients -> 0..1]
    /\ updBuf \in [Clients -> 0..ChannelCap]
    /\ up \in [Clients -> BOOLEAN]
    /\ failures \in 0..MaxFailures
    /\ late \in [Clients -> Nat]

\* The service reads one client at a time, and a client it has left, for good
\* or for now, puts at most one more update in its channel in its whole life:
\* the one that processStream held when Close was called, since its select may
\* choose the send over ctx.Done().  Whatever subscribeLoops the client has
\* later, no second source goes on streaming behind the service's back.
SingleFeed == \A c \in Clients : late[c] <= 1

\* When the service's context is cancelled, Run returns, whatever the clients do.
ShutdownReturns == ctxDone ~> svc = "returned"

Ingesting ==
    /\ svc = "recv"
    /\ loops[current] \in {"stream", "recv", "forward"}
    /\ up[current]

\* Ingestion goes on for ever, whatever failed before: after a failure a client
\* takes over and streams again (failover_service.go: "When the primary stream
\* exits with an error, the service attempts the fallback and periodically
\* retries the primary").
KeepsIngesting == []<>(Ingesting \/ ctxDone)

\* With at most one failure of an endpoint or a handler ingestion goes on: the
\* other client takes over.
SurvivesOneFailure == []<>(Ingesting \/ ctxDone \/ failures > 1)
=============================================================================

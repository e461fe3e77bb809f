---------------------------- MODULE LiveSessions ----------------------------
(***************************************************************************)
(* The live sessions of the pi session server (LiveSessionManager in       *)
(* packages/server/src/sessions.ts).  A durable session has at most one    *)
(* runtime, shared by all the connections attached to it and disposed of   *)
(* when it is idle and nobody is attached to it.                           *)
(*                                                                         *)
(* Requests run concurrently on one event loop: what a request does        *)
(* between two awaits is one action.  The service that opens runtimes, the *)
(* runtimes and the transports are the environment.  A "create" is an      *)
(* "attach" to a session nobody has opened before.                         *)
(***************************************************************************)
EXTENDS Naturals, FiniteSets

CONSTANTS
  Conns,         \* connections that have completed their handshake
  Sessions,      \* ids of durable sessions
  MaxRuntimes,   \* bound on the runtimes ever acquired
  MaxRequests    \* bound on the requests ever received

ASSUME LiveAssumption ==
  /\ MaxRuntimes \in Nat /\ MaxRequests \in Nat
  /\ Conns # {} /\ Sessions # {}

Runtimes == 1..MaxRuntimes
Requests == 1..MaxRequests

VARIABLES
  conn,        \* state of each connection; "failing" is closed, with its
               \* disconnect() still to come
  sessionIds,  \* sessionIds of each connection
  liveSessions,    \* liveSessions: the runtime of each session, 0 for none
  openingSessions, \* openingSessions: the runtime being opened, 0 for none
  runtime,     \* the runtimes, each with the fields of its LiveSession
  request,     \* the requests, each with where its handler is
  server,      \* how far close() of the server has come
  closeWaits   \* the runtimes close() waits for

vars == <<conn, sessionIds, liveSessions, openingSessions, runtime, request,
          server, closeWaits>>

NoRuntime ==
  [stage |-> "none", of |-> CHOOSE s \in Sessions : TRUE, connections |-> {},
   operations |-> 0, terminal |-> FALSE, busy |-> FALSE]
NoRequest ==
  [pc |-> "none", from |-> CHOOSE c \in Conns : TRUE,
   of |-> CHOOSE s \in Sessions : TRUE, live |-> 0]

TypeOK ==
  /\ conn \in [Conns -> {"ready", "failing", "gone"}]
  /\ sessionIds \in [Conns -> SUBSET Sessions]
  /\ liveSessions \in [Sessions -> 0..MaxRuntimes]
  /\ openingSessions \in [Sessions -> 0..MaxRuntimes]
  /\ runtime \in [Runtimes ->
       [stage : {"none", "acquiring", "reading", "live", "abandoned",
                 "disposing", "over"},
        of : Sessions, connections : SUBSET Conns,
        operations : 0..MaxRequests, terminal : BOOLEAN, busy : BOOLEAN]]
  /\ request \in [Requests ->
       [pc : {"none", "opening", "wait", "acquired", "answer",
              "operating", "detached", "done"},
        from : Conns, of : Sessions, live : 0..MaxRuntimes]]
  /\ server \in {"open", "closing", "draining", "disposing", "closed"}
  /\ closeWaits \subseteq Runtimes

Init ==
  /\ conn = [c \in Conns |-> "ready"]
  /\ sessionIds = [c \in Conns |-> {}]
  /\ liveSessions = [s \in Sessions |-> 0]
  /\ openingSessions = [s \in Sessions |-> 0]
  /\ runtime = [r \in Runtimes |-> NoRuntime]
  /\ request = [q \in Requests |-> NoRequest]
  /\ server = "open"
  /\ closeWaits = {}

isClosing == server # "open"

(* The runtime after maybeDispose: disposal begins if nothing needs it.     *)
Disposable(x) ==
  /\ ~isClosing /\ x.stage = "live"
  /\ x.connections = {} /\ x.operations = 0
  /\ x.terminal \/ ~x.busy
MaybeDisposeUnused(x) ==
  IF ~isClosing /\ x.stage = "live" /\ x.connections = {}
     /\ (x.terminal \/ ~x.busy)
  THEN [x EXCEPT !.stage = "disposing"] ELSE x
MaybeDispose(x) == IF Disposable(x) THEN [x EXCEPT !.stage = "disposing"] ELSE x

Move(q, pc) == request' = [request EXCEPT ![q].pc = pc]
Finish(q) == Move(q, "done")

-----------------------------------------------------------------------------
(* Requests: executeCommand.                                                *)

Receive(q, c, s) ==
  /\ request[q].pc = "none" /\ \A p \in Requests : p < q => request[p].pc # "none"
  /\ conn[c] = "ready" /\ server \in {"open", "closing"}

(* acquire: share the runtime that is live or being opened, wait for one    *)
(* that is being disposed of, or open one.                                  *)
At(pc, c, s, r) == [pc |-> pc, from |-> c, of |-> s, live |-> r]

(* The next runtime, acquired from the service for session s.               *)
Unused == {r \in Runtimes : runtime[r].stage = "none"}
Open(s, r) ==
  /\ r \in Unused /\ \A o \in Unused : r <= o
  /\ openingSessions' = [openingSessions EXCEPT ![s] = r]

AttachUnshared(q, c, s) ==
  /\ Receive(q, c, s)
  /\ \E r \in Runtimes :
       /\ Open(s, r)
       /\ runtime' = [runtime EXCEPT ![r].stage = "acquiring", ![r].of = s]
       /\ request' = [request EXCEPT ![q] = At("opening", c, s, r)]
  /\ UNCHANGED <<conn, sessionIds, liveSessions, server, closeWaits>>

Attach(q, c, s) ==
  /\ Receive(q, c, s)
  /\ LET r == liveSessions[s]  o == openingSessions[s] IN
     \/ /\ r # 0 /\ runtime[r].terminal
        /\ request' = [request EXCEPT ![q] = At("done", c, s, r)]
        /\ UNCHANGED <<openingSessions, runtime>>
     \/ /\ r # 0 /\ ~runtime[r].terminal /\ runtime[r].stage # "live"
        /\ request' = [request EXCEPT ![q] = At("wait", c, s, r)]
        /\ UNCHANGED <<openingSessions, runtime>>
     \/ /\ r # 0 /\ ~runtime[r].terminal /\ runtime[r].stage = "live"
        /\ request' = [request EXCEPT ![q] = At("acquired", c, s, r)]
        /\ UNCHANGED <<openingSessions, runtime>>
     \/ /\ r = 0 /\ o # 0
        /\ request' = [request EXCEPT ![q] = At("opening", c, s, o)]
        /\ UNCHANGED <<openingSessions, runtime>>
     \/ /\ r = 0 /\ o = 0
        /\ \E n \in Runtimes :
             /\ Open(s, n)
             /\ runtime' = [runtime EXCEPT ![n].stage = "acquiring", ![n].of = s]
             /\ request' = [request EXCEPT ![q] = At("opening", c, s, n)]
  /\ UNCHANGED <<conn, sessionIds, liveSessions, server, closeWaits>>

(* attach: only the connection is looked at.  An attachment that comes too  *)
(* late leaves the runtime to nobody.                                       *)
RecordAttachment(q) ==
  /\ request[q].pc = "acquired"
  /\ LET c == request[q].from  r == request[q].live IN
     \/ /\ conn[c] # "ready"
        /\ runtime' = [runtime EXCEPT ![r] = MaybeDispose(@)]
        /\ Finish(q)
        /\ UNCHANGED sessionIds
     \/ /\ conn[c] = "ready"
        /\ sessionIds' = [sessionIds EXCEPT ![c] = @ \cup {request[q].of}]
        /\ runtime' = [runtime EXCEPT ![r].connections = @ \cup {c}]
        /\ Move(q, "answer")
  /\ UNCHANGED <<conn, liveSessions, openingSessions, server, closeWaits>>

(* broadcastSnapshot and the response.                                      *)
Answer(q) ==
  /\ request[q].pc = "answer"
  /\ Finish(q)
  /\ UNCHANGED <<conn, sessionIds, liveSessions, openingSessions, runtime,
                 server, closeWaits>>

(* detach: the other connections are told before the runtime is let go.     *)
Detach(q, c, s) ==
  /\ Receive(q, c, s)
  /\ LET r == liveSessions[s]
         left == [runtime[r] EXCEPT !.connections = @ \ {c}]
         tells == left.connections # {} /\ left.stage = "live" /\ ~left.terminal
     IN \/ /\ s \notin sessionIds[c] \/ r = 0
           /\ request' = [request EXCEPT ![q] = At("done", c, s, r)]
           /\ UNCHANGED runtime
        \/ /\ s \in sessionIds[c] /\ r # 0 /\ tells
           /\ runtime' = [runtime EXCEPT ![r] = left]
           /\ request' = [request EXCEPT ![q] = At("detached", c, s, r)]
        \/ /\ s \in sessionIds[c] /\ r # 0 /\ ~tells
           /\ runtime' = [runtime EXCEPT ![r] = MaybeDispose(left)]
           /\ request' = [request EXCEPT ![q] = At("done", c, s, r)]
  /\ sessionIds' = [sessionIds EXCEPT ![c] = @ \ {s}]
  /\ UNCHANGED <<conn, liveSessions, openingSessions, server, closeWaits>>

AfterDetach(q) ==
  /\ request[q].pc = "detached"
  /\ runtime' = [runtime EXCEPT ![request[q].live] = MaybeDispose(@)]
  /\ Finish(q)
  /\ UNCHANGED <<conn, sessionIds, liveSessions, openingSessions, server, closeWaits>>

(* requireAttached, and the first half of runOperation: prompt, steer,      *)
(* abort, set_model and set_thinking.                                       *)
requireAttached(c, s) ==
  /\ s \in sessionIds[c] /\ liveSessions[s] # 0
  /\ LET x == runtime[liveSessions[s]] IN ~x.terminal /\ x.stage = "live"

RunOperation(q, c, s) ==
  /\ Receive(q, c, s)
  /\ LET r == liveSessions[s]
     IN \/ /\ requireAttached(c, s)
           /\ runtime' = [runtime EXCEPT ![r].operations = @ + 1]
           /\ request' = [request EXCEPT ![q] = At("operating", c, s, r)]
        \/ /\ ~requireAttached(c, s)
           /\ request' = [request EXCEPT ![q] = At("done", c, s, r)]
           /\ UNCHANGED runtime
  /\ UNCHANGED <<conn, sessionIds, liveSessions, openingSessions, server, closeWaits>>

(* Its finally clause, after the operation and the snapshot or their        *)
(* failure.                                                                 *)
EndOperation(q) ==
  /\ request[q].pc = "operating"
  /\ LET r == request[q].live IN
       runtime' = [runtime EXCEPT ![r] =
                     MaybeDispose([runtime[r] EXCEPT !.operations = @ - 1])]
  /\ Finish(q)
  /\ UNCHANGED <<conn, sessionIds, liveSessions, openingSessions, server, closeWaits>>

-----------------------------------------------------------------------------
(* create, from the first await on: the service, then the first snapshot.   *)

(* The requests that share an opening go on when it ends.                   *)
Settle(r, pc) ==
  /\ request' = [q \in Requests |->
                   IF request[q].pc = "opening" /\ request[q].live = r
                   THEN [request[q] EXCEPT !.pc = pc] ELSE request[q]]
  /\ openingSessions' = [openingSessions EXCEPT ![runtime[r].of] = 0]

AcquireFails(r) ==
  /\ runtime[r].stage = "acquiring"
  /\ runtime' = [runtime EXCEPT ![r].stage = "over"]
  /\ Settle(r, "done")
  /\ UNCHANGED <<conn, sessionIds, liveSessions, server, closeWaits>>

AcquireSucceeds(r) ==
  /\ runtime[r].stage = "acquiring"
  /\ runtime' = [runtime EXCEPT ![r].stage =
                   IF isClosing THEN "abandoned" ELSE "reading"]
  /\ UNCHANGED <<conn, sessionIds, liveSessions, openingSessions, request,
                 server, closeWaits>>

(* A runtime whose snapshot fails or names another session is disposed of.  *)
SnapshotFails(r) ==
  /\ runtime[r].stage = "reading"
  /\ runtime' = [runtime EXCEPT ![r].stage = "abandoned"]
  /\ UNCHANGED <<conn, sessionIds, liveSessions, openingSessions, request,
                 server, closeWaits>>

BecomeLive(r) ==
  /\ runtime[r].stage = "reading"
  /\ runtime' = [runtime EXCEPT ![r].stage = "live"]
  /\ liveSessions' = [liveSessions EXCEPT ![runtime[r].of] = r]
  /\ Settle(r, "acquired")
  /\ UNCHANGED <<conn, sessionIds, server, closeWaits>>

Abandon(r) ==
  /\ runtime[r].stage = "abandoned"
  /\ runtime' = [runtime EXCEPT ![r].stage = "over"]
  /\ Settle(r, "done")
  /\ UNCHANGED <<conn, sessionIds, liveSessions, server, closeWaits>>

-----------------------------------------------------------------------------
(* Runtimes: their events, their end and their disposal.                    *)

Subscribed(r) == runtime[r].stage = "live" /\ ~runtime[r].terminal

(* A prompt makes its runtime busy, which is idle again some time later,    *)
(* with an event on which handleRuntimeEvent calls maybeDispose.            *)
Work(q) ==
  /\ request[q].pc = "operating"
  /\ LET r == request[q].live IN
     /\ ~runtime[r].busy
     /\ runtime' = [runtime EXCEPT ![r].busy = TRUE]
  /\ UNCHANGED <<conn, sessionIds, liveSessions, openingSessions, request,
                 server, closeWaits>>

BecomeIdle(r) ==
  /\ runtime[r].busy
  /\ runtime' = [runtime EXCEPT ![r] =
                   IF Subscribed(r) THEN MaybeDispose([@ EXCEPT !.busy = FALSE])
                   ELSE [@ EXCEPT !.busy = FALSE]]
  /\ UNCHANGED <<conn, sessionIds, liveSessions, openingSessions, request,
                 server, closeWaits>>

(* terminate: an error event closes the connections; their disconnect() is  *)
(* what lets the runtime go, or the end of an operation, or this.           *)
Terminate(r) ==
  /\ Subscribed(r)
  /\ runtime' = [runtime EXCEPT ![r] = MaybeDispose([@ EXCEPT !.terminal = TRUE])]
  /\ conn' = [c \in Conns |->
                IF c \in runtime[r].connections /\ conn[c] = "ready"
                THEN "failing" ELSE conn[c]]
  /\ UNCHANGED <<sessionIds, liveSessions, openingSessions, request, server, closeWaits>>

(* The disposal that maybeDispose has begun ends.  Those who have waited    *)
(* for it fail with it, or go round the loop of acquire once more, where    *)
(* the first of them opens a runtime that the others share.                 *)
Waiting(r) == {q \in Requests : request[q].pc = "wait" /\ request[q].live = r}

EndDisposalUnheard(r) ==
  /\ runtime[r].stage = "disposing"
  /\ runtime' = [runtime EXCEPT ![r].stage = "over"]
  /\ liveSessions' = [s \in Sessions |-> IF liveSessions[s] = r THEN 0
                                         ELSE liveSessions[s]]
  /\ UNCHANGED <<conn, sessionIds, openingSessions, request, server, closeWaits>>

EndDisposal(r) ==
  /\ runtime[r].stage = "disposing"
  /\ liveSessions' = [s \in Sessions |-> IF liveSessions[s] = r THEN 0
                                         ELSE liveSessions[s]]
  /\ \/ /\ runtime' = [runtime EXCEPT ![r].stage = "over"]
        /\ request' = [q \in Requests |-> IF q \in Waiting(r)
                         THEN [request[q] EXCEPT !.pc = "done"] ELSE request[q]]
        /\ UNCHANGED openingSessions
     \/ \E n \in Runtimes :
          /\ Waiting(r) # {} /\ Open(runtime[r].of, n)
          /\ runtime' = [runtime EXCEPT ![r].stage = "over",
               ![n].stage = "acquiring", ![n].of = runtime[r].of]
          /\ request' = [q \in Requests |-> IF q \in Waiting(r)
                           THEN [request[q] EXCEPT !.pc = "opening", !.live = n]
                           ELSE request[q]]
  /\ UNCHANGED <<conn, sessionIds, server, closeWaits>>

-----------------------------------------------------------------------------
(* Connections and the server's close().                                    *)

(* A send fails: the connection is closed, and then disconnected.           *)
Fail(c) ==
  /\ conn[c] = "ready"
  /\ conn' = [conn EXCEPT ![c] = "failing"]
  /\ UNCHANGED <<sessionIds, liveSessions, openingSessions, runtime, request,
                 server, closeWaits>>

(* disconnect: by a failure, by close(), or because the client has left.    *)
DisconnectForgets(c) ==
  /\ conn[c] # "gone"
  /\ conn' = [conn EXCEPT ![c] = "gone"]
  /\ sessionIds' = [sessionIds EXCEPT ![c] = {}]
  /\ UNCHANGED <<liveSessions, openingSessions, runtime, request, server, closeWaits>>

Disconnect(c) ==
  /\ conn[c] # "gone"
  /\ conn' = [conn EXCEPT ![c] = "gone"]
  /\ sessionIds' = [sessionIds EXCEPT ![c] = {}]
  /\ LET of == {liveSessions[s] : s \in sessionIds[c]} IN
       runtime' = [r \in Runtimes |->
                     IF r \in of
                     THEN MaybeDispose([runtime[r] EXCEPT !.connections = @ \ {c}])
                     ELSE runtime[r]]
  /\ UNCHANGED <<liveSessions, openingSessions, request, server, closeWaits>>

(* close() marks the server, closes the listeners, and then the connections *)
(* (closeServerState).                                                      *)
Close ==
  /\ server = "open" /\ server' = "closing"
  /\ UNCHANGED <<conn, sessionIds, liveSessions, openingSessions, runtime,
                 request, closeWaits>>

CloseConnections ==
  /\ server = "closing" /\ server' = "draining"
  /\ conn' = [c \in Conns |-> IF conn[c] = "ready" THEN "failing" ELSE conn[c]]
  /\ UNCHANGED <<sessionIds, liveSessions, openingSessions, runtime, request, closeWaits>>

DisposeAllAtOnce ==
  /\ server = "draining" /\ \A c \in Conns : conn[c] = "gone"
  /\ LET all == {liveSessions[s] : s \in Sessions} \ {0} IN
     /\ runtime' = [r \in Runtimes |-> IF r \in all
                      THEN [runtime[r] EXCEPT !.stage = "disposing"] ELSE runtime[r]]
     /\ closeWaits' = all
  /\ liveSessions' = [s \in Sessions |-> 0]
  /\ server' = "closed"
  /\ UNCHANGED <<conn, sessionIds, openingSessions, request>>

Openings == {openingSessions[s] : s \in Sessions} \ {0}

(* LiveSessionManager.close: wait for the openings there are ...            *)
WaitForOpenings ==
  /\ server = "draining" /\ \A c \in Conns : conn[c] = "gone"
  /\ server' = "disposing"
  /\ closeWaits' = Openings
  /\ UNCHANGED <<conn, sessionIds, liveSessions, openingSessions, runtime, request>>

Opening(r) == runtime[r].stage \in {"acquiring", "reading", "abandoned"}

(* ... then dispose of the runtimes in the map ...                          *)
DisposeAll ==
  /\ server = "disposing" /\ \A r \in closeWaits : ~Opening(r)
  /\ LET all == {liveSessions[s] : s \in Sessions} \ {0} IN
     /\ runtime' = [r \in Runtimes |-> IF r \in all
                      THEN [runtime[r] EXCEPT !.stage = "disposing"] ELSE runtime[r]]
     /\ closeWaits' = all
  /\ liveSessions' = [s \in Sessions |-> 0]
  /\ server' = "closed"
  /\ UNCHANGED <<conn, sessionIds, openingSessions, request>>

(* ... and return when that is done.                                        *)
Closed == server = "closed" /\ \A r \in closeWaits : runtime[r].stage = "over"

-----------------------------------------------------------------------------

Command(q) ==
  \E c \in Conns, s \in Sessions : Attach(q, c, s) \/ Detach(q, c, s) \/ RunOperation(q, c, s)
Continue(q) ==
  RecordAttachment(q) \/ Answer(q)
    \/ AfterDetach(q) \/ EndOperation(q)
Serve(r) ==
  AcquireFails(r) \/ AcquireSucceeds(r) \/ SnapshotFails(r) \/ BecomeLive(r)
    \/ Abandon(r) \/ EndDisposal(r)
Shutdown == CloseConnections \/ WaitForOpenings \/ DisposeAll

Next ==
  \/ \E q \in Requests : Command(q) \/ Continue(q) \/ Work(q)
  \/ \E r \in Runtimes : Serve(r) \/ BecomeIdle(r) \/ Terminate(r)
  \/ \E c \in Conns : Fail(c) \/ Disconnect(c)
  \/ Close \/ Shutdown

(* The event loop runs what can go on, the service and the runtimes answer, *)
(* work comes to an end, and a closed transport reports that it is.         *)
Spec ==
  /\ Init /\ [][Next]_vars
  /\ \A q \in Requests : WF_vars(Continue(q))
  /\ \A r \in Runtimes : WF_vars(Serve(r)) /\ WF_vars(BecomeIdle(r))
  /\ \A c \in Conns : WF_vars(conn[c] = "failing" /\ Disconnect(c))
  /\ WF_vars(Shutdown)
-----------------------------------------------------------------------------
(* Properties.                                                              *)

(* A durable session is never opened while a runtime of it exists, be it    *)
(* that the runtime is still being opened, is being disposed of, or that    *)
(* the server is closing.                                                   *)
OneRuntimePerSession ==
  \A s \in Sessions :
    Cardinality({r \in Runtimes :
                   runtime[r].of = s /\ runtime[r].stage \notin {"none", "over"}}) <= 1

(* Until the server closes, no runtime is disposed of under an operation,   *)
(* whatever disconnects or fails meanwhile.                                 *)
NotTooEarly ==
  \A q \in Requests :
    request[q].pc = "operating" /\ server # "closed"
      => runtime[request[q].live].stage = "live"

(* A runtime nothing needs is on its way to its disposal, or some handler   *)
(* still has to call maybeDispose for it: no order of detaching, leaving,   *)
(* finishing and failing leaves a session locked for ever.                  *)
NotTooLate ==
  \A r \in Runtimes :
    Disposable(runtime[r])
      => \E q \in Requests : /\ request[q].pc \in {"acquired", "detached"}
                            /\ request[q].live = r

(* A runtime is disposed of when it is unused: by whoever turns out to be   *)
(* the last to need it (sessions.ts 324-345).                               *)
DisposedWhenUnused == NotTooEarly /\ NotTooLate

(* The events of a live session go only to connections that are attached to *)
(* it.                                                                      *)
ToldOnlyIfAttached ==
  \A r \in Runtimes : runtime[r].stage = "live" =>
    \A c \in runtime[r].connections : runtime[r].of \in sessionIds[c]

(* The state is typed, and the attachments of runtimes and connections      *)
(* agree (sessions.ts 300-322).                                             *)
Consistent == TypeOK /\ ToldOnlyIfAttached

(* Every request is answered, also one that waits for a disposal or for an  *)
(* opening that fails.                                                      *)
EveryRequestAnswered ==
  \A q \in Requests : request[q].pc # "none" ~> request[q].pc = "done"

(* close() returns, no session is live then, and none becomes live any more *)
(* (sessions.ts 152-169).                                                   *)
NothingHeld ==
  \A r \in Runtimes : runtime[r].stage \notin {"live", "reading", "disposing"}
CloseReturns == server = "closing" ~> [](Closed /\ NothingHeld)
=============================================================================

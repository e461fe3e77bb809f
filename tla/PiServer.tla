------------------------------ MODULE PiServer ------------------------------
(***************************************************************************)
(* The pi session server around its live sessions: start and close         *)
(* (packages/server/src/server.ts), the handshake of a connection, and the *)
(* publication of server snapshots (snapshots.ts), together with what a    *)
(* client makes of them (client/src/state.ts).                             *)
(*                                                                         *)
(* The list of sessions is the number of changes it has gone through;      *)
(* LiveSessions models how it changes.  A message counts as received when  *)
(* it is sent: connections are ordered, and nothing depends on the delay.  *)
(***************************************************************************)
EXTENDS Naturals

CONSTANTS
  Conns,         \* connections
  Listeners,     \* number of listeners
  MaxChanges,    \* bound on the changes of the list of sessions
  MaxRequests    \* bound on the requests a connection sends

ASSUME ServerAssumption ==
  Listeners \in Nat /\ MaxChanges \in Nat /\ MaxRequests \in Nat

VARIABLES
  server,     \* where startInternal or closeServerState is
  closing,    \* closing
  closed,     \* closePromise: nothing, close() has been called, or returned
  listening,  \* number of listeners started and not closed
  stage,      \* stage of each connection, "none" before it is accepted
  hand,       \* what finishHandshake of each connection awaits
  read,       \* the revision and the list its get() has read
  early,      \* number of requests that wait for the handshake
  sent,       \* number of requests each client has sent
  handled,    \* number of its requests given to executeCommand
  changes,    \* the list of sessions, as the number of its changes
  queue,      \* number of broadcasts queued, the one performed included
  pub,        \* what performBroadcast awaits
  revision,   \* revision
  draft,      \* the snapshot being broadcast
  readers,    \* the connections it still has to be sent to
  shown,      \* what each client shows: revision and list, <<0, 0>> for none
  greeted,    \* clients that have got the server's hello
  missed      \* history: clients that were handshaking while a change was
              \* announced to nobody

startVars == <<server, closing, closed, listening>>
handVars == <<hand, read, early, greeted>>
pubVars == <<changes, queue, pub, revision, draft, readers, missed>>
serverVars == <<startVars, stage, handVars, sent, handled, pubVars, shown>>

Snapshots == Nat \X (0..MaxChanges)

ServerTypeOK ==
  /\ server \in {"new", "starting", "open", "failing", "draining", "failed", "closed"}
  /\ closing \in BOOLEAN /\ closed \in {"no", "called", "yes"}
  /\ listening \in 0..Listeners
  /\ stage \in [Conns -> {"none", "awaitingHello", "handshaking", "ready",
                          "closing", "closed"}]
  /\ hand \in [Conns -> {"no", "list", "send", "again", "done", "over"}]
  /\ read \in [Conns -> Snapshots] /\ shown \in [Conns -> Snapshots]
  /\ early \in [Conns -> 0..MaxRequests]
  /\ sent \in [Conns -> 0..MaxRequests]
  /\ handled \in [Conns -> 0..MaxRequests]
  /\ changes \in 0..MaxChanges /\ queue \in Nat
  /\ pub \in {"idle", "list", "send"}
  /\ revision \in Nat /\ draft \in Snapshots
  /\ readers \subseteq Conns /\ greeted \subseteq Conns /\ missed \subseteq Conns

Nothing == <<0, 0>>

ServerInit ==
  /\ server = "new" /\ closing = FALSE /\ closed = "no" /\ listening = 0
  /\ stage = [c \in Conns |-> "none"]
  /\ hand = [c \in Conns |-> "no"]
  /\ read = [c \in Conns |-> Nothing]
  /\ early = [c \in Conns |-> 0]
  /\ sent = [c \in Conns |-> 0] /\ handled = [c \in Conns |-> 0]
  /\ changes = 0 /\ queue = 0 /\ pub = "idle" /\ revision = 0
  /\ draft = Nothing /\ readers = {}
  /\ shown = [c \in Conns |-> Nothing]
  /\ greeted = {} /\ missed = {}

-----------------------------------------------------------------------------
(* start() and close().                                                     *)

Start ==
  /\ server = "new" /\ ~closing
  /\ server' = "starting"
  /\ UNCHANGED <<closing, closed, listening, stage, handVars, sent, handled,
                 pubVars, shown>>

StartListener ==
  /\ server = "starting"
  /\ \/ /\ listening < Listeners
        /\ listening' = listening + 1
        /\ UNCHANGED server
     \/ /\ listening = Listeners
        /\ server' = "open"
        /\ UNCHANGED listening
  /\ UNCHANGED <<closing, closed, stage, handVars, sent, handled, pubVars, shown>>

(* One listener fails: the others are closed, and the server with them.     *)
FailToListen ==
  /\ server = "starting" /\ listening < Listeners
  /\ server' = "failing" /\ closing' = TRUE
  /\ UNCHANGED <<closed, listening, stage, handVars, sent, handled, pubVars, shown>>

Close ==
  /\ closed = "no"
  /\ closed' = "called" /\ closing' = TRUE
  /\ UNCHANGED <<server, listening, stage, handVars, sent, handled, pubVars, shown>>

(* The listeners are closed; close() first waits for a start in progress.   *)
CloseListeners ==
  /\ \/ server = "failing"
     \/ closed = "called" /\ server \in {"new", "open", "failed"}
  /\ listening' = 0 /\ server' = "draining"
  /\ UNCHANGED <<closing, closed, stage, handVars, sent, handled, pubVars, shown>>

(* closeServerState: every connection is marked and closed; each of them    *)
(* is then disconnected.                                                    *)
MarkedGreeted == {"ready"}
Marked == {"awaitingHello", "handshaking", "ready"}
CloseConnections ==
  /\ server = "draining" /\ \E c \in Conns : stage[c] \in Marked
  /\ stage' = [c \in Conns |-> IF stage[c] \in Marked THEN "closing" ELSE stage[c]]
  /\ UNCHANGED <<startVars, handVars, sent, handled, pubVars, shown>>

Closed ==
  /\ server = "draining" /\ \A c \in Conns : stage[c] \in {"none", "closed"}
  /\ IF closed = "called" THEN server' = "closed" /\ closed' = "yes"
     ELSE server' = "failed" /\ UNCHANGED closed
  /\ UNCHANGED <<closing, listening, stage, handVars, sent, handled, pubVars, shown>>

-----------------------------------------------------------------------------
(* Connections: accept, receive and dispatchMessage, disconnect.            *)

(* A connection accepted while the server closes is closed at once.         *)
Accept(c) ==
  /\ stage[c] = "none" /\ listening > 0
  /\ stage' = [stage EXCEPT ![c] = IF closing THEN "closed" ELSE "awaitingHello"]
  /\ UNCHANGED <<startVars, handVars, sent, handled, pubVars, shown>>

(* The first message is a hello of the right version, and finishHandshake   *)
(* goes to read the snapshot: the revision first, the list when it is told. *)
Hello(c) ==
  /\ stage[c] = "awaitingHello"
  /\ stage' = [stage EXCEPT ![c] = "handshaking"]
  /\ hand' = [hand EXCEPT ![c] = "list"]
  /\ read' = [read EXCEPT ![c] = <<revision, 0>>]
  /\ UNCHANGED <<startVars, early, greeted, sent, handled, pubVars, shown>>

(* failProtocol: the timer of the handshake, a message out of place or a    *)
(* frame that cannot be decoded.                                            *)
Refuse(c) ==
  /\ stage[c] \in Marked
  /\ stage' = [stage EXCEPT ![c] = "closing"]
  /\ UNCHANGED <<startVars, handVars, sent, handled, pubVars, shown>>

(* disconnect: of what is left of the connection nothing happens any more.  *)
(* It is announced if the handshake had been completed.                     *)
TransportClosed(c) ==
  /\ stage[c] \in Marked \cup {"closing"}
  /\ stage' = [stage EXCEPT ![c] = "closed"]
  /\ queue' = IF ~closing /\ hand[c] \in {"again", "done"} THEN queue + 1 ELSE queue
  /\ UNCHANGED <<startVars, handVars, sent, handled, changes, pub, revision,
                 draft, readers, missed, shown>>

(* A request that comes during the handshake waits for its end, the catch-  *)
(* up included; one that comes after it does not.                           *)
Request(c) ==
  /\ sent[c] < MaxRequests /\ stage[c] \in {"handshaking", "ready"}
  /\ sent' = [sent EXCEPT ![c] = @ + 1]
  /\ IF stage[c] = "ready"
     THEN handled' = [handled EXCEPT ![c] = @ + 1] /\ UNCHANGED early
     ELSE early' = [early EXCEPT ![c] = @ + 1] /\ UNCHANGED handled
  /\ UNCHANGED <<startVars, stage, hand, read, greeted, pubVars, shown>>

-----------------------------------------------------------------------------
(* finishHandshake.                                                         *)

ReadList(c) ==
  /\ hand[c] = "list"
  /\ read' = [read EXCEPT ![c] = <<@[1], changes>>]
  /\ hand' = [hand EXCEPT ![c] =
                IF closing \/ stage[c] # "handshaking" THEN "over" ELSE "send"]
  /\ UNCHANGED <<startVars, stage, early, greeted, sent, handled, pubVars, shown>>

(* What applyServerSnapshot of the client does with a snapshot.             *)
ShowAnyway(c, snapshot) == snapshot
ApplyServerSnapshot(c, snapshot) ==
  IF c \in greeted /\ snapshot[1] < shown[c][1] THEN shown[c] ELSE snapshot

(* The early requests are handled when the promise of the handshake is.     *)
SettleNothing(c) ==
  /\ early' = [early EXCEPT ![c] = 0]
  /\ UNCHANGED handled

Settle(c) ==
  /\ handled' = [handled EXCEPT ![c] = IF stage'[c] = "ready" THEN @ + early[c] ELSE @]
  /\ early' = [early EXCEPT ![c] = 0]

NeverStale(c) == FALSE
Stale(c) == read[c][1] # revision

(* The hello has been sent, and the connection is ready, unless it has been *)
(* closed meanwhile or the send has failed.                                 *)
SendHello(c) ==
  /\ hand[c] = "send"
  /\ IF stage[c] # "handshaking"
     THEN /\ hand' = [hand EXCEPT ![c] = "over"]
          /\ UNCHANGED <<stage, read, greeted, shown>>
          /\ Settle(c)
     ELSE /\ greeted' = greeted \cup {c}
          /\ shown' = [shown EXCEPT ![c] = ApplyServerSnapshot(c, read[c])]
          /\ stage' = [stage EXCEPT ![c] = "ready"]
          /\ IF Stale(c)
             THEN /\ hand' = [hand EXCEPT ![c] = "again"]
                  /\ read' = [read EXCEPT ![c] = <<revision, 0>>]
                  /\ UNCHANGED <<early, handled>>
             ELSE hand' = [hand EXCEPT ![c] = "done"] /\ UNCHANGED read /\ Settle(c)
  /\ UNCHANGED <<startVars, sent, pubVars>>

CatchUp(c) ==
  /\ hand[c] = "again"
  /\ hand' = [hand EXCEPT ![c] = "done"]
  /\ read' = [read EXCEPT ![c] = <<@[1], changes>>]
  /\ shown' = IF stage[c] \in {"closing", "closed"} THEN shown
              ELSE [shown EXCEPT ![c] = ApplyServerSnapshot(c, read'[c])]
  /\ UNCHANGED stage /\ Settle(c)
  /\ UNCHANGED <<startVars, greeted, sent, pubVars>>

-----------------------------------------------------------------------------
(* The list of sessions and its broadcasts.                                 *)

(* A session is opened, attached to, left or disposed of.                   *)
Change ==
  /\ changes < MaxChanges /\ server # "new"
  /\ changes' = changes + 1
  /\ queue' = queue + 1
  /\ UNCHANGED <<startVars, stage, handVars, sent, handled, pub, revision, draft,
                 readers, missed, shown>>

(* performBroadcast: one at a time.  Nobody is told, and the revision stays,*)
(* while no connection is ready.                                            *)
ReadyOrNot == {c \in Conns : stage[c] \in {"handshaking", "ready"}}
Ready == {c \in Conns : stage[c] = "ready"}
Begin ==
  /\ pub = "idle" /\ queue > 0
  /\ IF Ready = {} \/ closing
     THEN /\ queue' = queue - 1
          /\ missed' = missed \cup {c \in Conns : stage[c] = "handshaking"}
          /\ UNCHANGED <<pub, revision, draft, readers>>
     ELSE /\ revision' = revision + 1
          /\ pub' = "list" /\ readers' = Ready
          /\ draft' = <<revision', 0>>
          /\ UNCHANGED <<queue, missed>>
  /\ UNCHANGED <<startVars, stage, handVars, sent, handled, changes, shown>>

List ==
  /\ pub = "list"
  /\ draft' = <<draft[1], changes>> /\ pub' = "send"
  /\ UNCHANGED <<startVars, stage, handVars, sent, handled, changes, queue,
                 revision, readers, missed, shown>>

SendSnapshot ==
  /\ pub = "send"
  /\ \/ /\ readers = {}
        /\ pub' = "idle" /\ queue' = queue - 1
        /\ UNCHANGED <<readers, shown>>
     \/ \E c \in readers :
          /\ readers' = readers \ {c}
          /\ shown' = IF stage[c] \in {"closing", "closed"} THEN shown
                      ELSE [shown EXCEPT ![c] = ApplyServerSnapshot(c, draft)]
          /\ UNCHANGED <<pub, queue>>
  /\ UNCHANGED <<startVars, stage, handVars, sent, handled, changes, revision,
                 draft, missed>>

-----------------------------------------------------------------------------

Shutdown == CloseListeners \/ CloseConnections \/ Closed
Handshake(c) == ReadList(c) \/ SendHello(c) \/ CatchUp(c)
Publish == Begin \/ List \/ SendSnapshot

ServerNext ==
  \/ Start \/ StartListener \/ FailToListen \/ Close \/ Shutdown
  \/ \E c \in Conns :
       Accept(c) \/ Hello(c) \/ Refuse(c) \/ TransportClosed(c) \/ Request(c) \/ Handshake(c)
  \/ Change \/ Publish

(* Awaited calls come back, and a connection that is being closed ends; a   *)
(* client that says nothing is refused by the timer of the handshake.       *)
ServerSpec ==
  /\ ServerInit /\ [][ServerNext]_serverVars
  /\ WF_serverVars(StartListener) /\ WF_serverVars(Shutdown) /\ WF_serverVars(Publish)
  /\ \A c \in Conns :
       /\ WF_serverVars(Handshake(c))
       /\ WF_serverVars(stage[c] = "closing" /\ TransportClosed(c))
       /\ WF_serverVars(stage[c] = "awaitingHello" /\ Refuse(c))
-----------------------------------------------------------------------------
(* Properties.                                                              *)

(* When all broadcasts are done, every client shows the list as it is, also *)
(* one whose handshake and catch-up have raced with them.  The exception is *)
(* a client that was handshaking while a change was announced to nobody.    *)
Current(c) ==
  queue = 0 /\ ~closing /\ stage[c] = "ready" /\ hand[c] = "done"
    => shown[c][2] = changes
UpToDate == \A c \in Conns : c \notin missed => Current(c)

(* A client gets nothing before the server's hello, which carries the first *)
(* list; a broadcast may begin at any time of its handshake.                *)
HelloFirst ==
  \A c \in Conns : c \notin greeted => stage[c] # "ready" /\ shown[c] = Nothing

(* The state is typed, and what a client shows agrees with its stage        *)
(* (server.ts 230-250, snapshots.ts 50-62).                                 *)
ServerConsistent == ServerTypeOK /\ HelloFirst

(* A snapshot never takes the client back to an earlier revision, although  *)
(* those of the catch-up and of a broadcast may cross.                      *)
NeverBack ==
  [][\A c \in Conns : shown'[c][1] >= shown[c][1]]_serverVars

(* Each request of a client that stays is handled, whether it came during   *)
(* the handshake, the catch-up or after both.                               *)
EveryRequestHandled ==
  \A c \in Conns :
    \A n \in 1..MaxRequests :
      sent[c] = n ~> handled[c] >= n \/ closing \/ stage[c] \in {"closing", "closed"}

(* close() returns, with a start in progress, with listeners that fail and  *)
(* with connections in every stage, and leaves none of them.                *)
CloseReturns ==
  closed = "called"
    ~> /\ closed = "yes" /\ listening = 0
       /\ \A c \in Conns : stage[c] \in {"none", "closed"}
=============================================================================

------------------------ MODULE SessionProtocolProofs ------------------------
(***************************************************************************)
(* Proofs about the two ends of the pi session protocol.                   *)
(*                                                                         *)
(* PiServer, for any set of connections and any bounds: what clients show  *)
(* is never ahead of the server's hello, never goes back, and is up to date*)
(* once all broadcasts are done.                                           *)
(*                                                                         *)
(* SessionLeases, for any number of leases: the count of the leases is     *)
(* right, an exclusive lease is alone, no requests cross, and what the     *)
(* client believes attached is attached on the server.                     *)
(***************************************************************************)
EXTENDS PiServer, SessionLeases, FiniteSetTheorems, TLAPS

-----------------------------------------------------------------------------
(* The server: the inductive invariant.                                     *)

(* A request is handled or waits for the handshake, and never both.         *)
RequestsInv == \A c \in Conns : early[c] + handled[c] <= sent[c]

(* How far finishHandshake has come, seen from the stage; only clients that *)
(* have been greeted are sent broadcasts or caught up.                      *)
GreetInv ==
  /\ \A c \in Conns :
       /\ stage[c] = "ready" => hand[c] \in {"again", "done"}
       /\ stage[c] = "ready" => c \in greeted
       /\ hand[c] = "again" => c \in greeted
       /\ c \in greeted => stage[c] \in {"ready", "closing", "closed"}
  /\ readers \subseteq greeted

(* A broadcast that is performed is still counted in the queue.             *)
QueueInv == pub # "idle" => queue > 0

(* Revisions only grow, and the snapshot that is being sent is as good as   *)
(* the list, or another broadcast follows.                                  *)
RevisionInv ==
  /\ \A c \in Conns : read[c][1] <= revision /\ shown[c][1] <= revision
  /\ pub # "idle" => draft[1] = revision
  /\ pub = "send" => draft[2] = changes \/ queue > 1

(* The list x is the current one, or client c will be sent a later one.     *)
Fresh(c, x) ==
  \/ x = changes
  \/ pub = "idle" /\ queue > 0
  \/ queue > 1
  \/ pub # "idle" /\ c \in readers

(* What a handshake has read, and what a ready client shows, is fresh; the  *)
(* catch-up is dropped by the client only if it shows something fresh.      *)
ReadIsFresh(c) ==
  stage[c] = "handshaking" /\ hand[c] = "send" /\ read[c][1] = revision
    => c \in missed \/ Fresh(c, read[c][2])
CatchUpIsFresh(c) ==
  stage[c] = "ready" /\ hand[c] = "again" /\ shown[c][1] > read[c][1]
    => Fresh(c, shown[c][2])
ShownIsFresh(c) ==
  stage[c] = "ready" /\ hand[c] = "done" => c \in missed \/ Fresh(c, shown[c][2])
FreshInv ==
  ~closing =>
    \A c \in Conns : ReadIsFresh(c) /\ CatchUpIsFresh(c) /\ ShownIsFresh(c)

Handshaken == ServerTypeOK /\ RequestsInv /\ QueueInv /\ HelloFirst /\ GreetInv
Published == RevisionInv /\ FreshInv

-----------------------------------------------------------------------------
(* Handshaken is inductive.                                                 *)

(* Of snapshots only this is used.                                          *)
LEMMA Pairs ==
  /\ \A s \in Snapshots : s[1] \in Nat /\ s[2] \in 0..MaxChanges
  /\ \A r \in Nat, x \in 0..MaxChanges :
       <<r, x>> \in Snapshots /\ <<r, x>>[1] = r /\ <<r, x>>[2] = x
  /\ Nothing \in Snapshots /\ Nothing[1] = 0 /\ Nothing[2] = 0
  BY ServerAssumption DEF Snapshots, Nothing

(* The type invariant in parts.                                             *)
ServerTypes ==
  /\ server \in {"new", "starting", "open", "failing", "draining", "failed", "closed"}
  /\ closing \in BOOLEAN /\ closed \in {"no", "called", "yes"}
  /\ listening \in 0..Listeners

StageTypes ==
  /\ stage \in [Conns -> {"none", "awaitingHello", "handshaking", "ready",
                          "closing", "closed"}]
  /\ hand \in [Conns -> {"no", "list", "send", "again", "done", "over"}]
  /\ greeted \subseteq Conns

ShownTypes == read \in [Conns -> Snapshots] /\ shown \in [Conns -> Snapshots]

MessageTypes ==
  /\ early \in [Conns -> 0..MaxRequests]
  /\ sent \in [Conns -> 0..MaxRequests]
  /\ handled \in [Conns -> 0..MaxRequests]

PublishTypes ==
  /\ changes \in 0..MaxChanges /\ queue \in Nat
  /\ pub \in {"idle", "list", "send"}
  /\ revision \in Nat /\ draft \in Snapshots
  /\ readers \subseteq Conns /\ missed \subseteq Conns

ServerStateTypes == ServerTypes /\ StageTypes /\ ShownTypes /\ MessageTypes /\ PublishTypes

(* The type invariant, in groups.                                           *)
LEMMA ServerTypesSplit ==
  (ServerTypeOK <=> ServerStateTypes) /\ (ServerTypeOK' <=> ServerStateTypes')
  BY DEF ServerTypeOK, ServerStateTypes, ServerTypes, StageTypes, ShownTypes, MessageTypes,
         PublishTypes

(* The initial state satisfies Handshaken.                                  *)
LEMMA InitHandshaken == ServerInit => Handshaken
<1> SUFFICES ASSUME ServerInit PROVE Handshaken
  OBVIOUS
<1>1. ServerStateTypes
  <2>1. ServerTypes
    <3>1. listening \in 0..Listeners
      BY ServerAssumption, SMT DEF ServerInit
    <3> QED BY <3>1, Zenon DEF ServerInit, ServerTypes
  <2>2. MessageTypes /\ PublishTypes
    BY Pairs, ServerAssumption, SMT DEF ServerInit, MessageTypes, PublishTypes
  <2>3. StageTypes /\ ShownTypes
    BY Pairs DEF ServerInit, StageTypes, ShownTypes
  <2> QED BY <2>1, <2>2, <2>3 DEF ServerStateTypes
<1>2. RequestsInv /\ QueueInv /\ HelloFirst /\ GreetInv
  BY SMT DEF ServerInit, RequestsInv, QueueInv, HelloFirst, GreetInv
<1> QED BY <1>1, <1>2, ServerTypesSplit DEF Handshaken

(* start() and close() leave the connections alone, but for marking them.   *)
LEMMA ServerHandshaken ==
  ASSUME Handshaken,
         Start \/ StartListener \/ FailToListen \/ Close \/ Shutdown
  PROVE  Handshaken'
<1> USE ServerAssumption
<1>1. ServerStateTypes /\ RequestsInv /\ QueueInv /\ HelloFirst /\ GreetInv
  BY ServerTypesSplit DEF Handshaken
<1>2. CASE CloseConnections
  <2>1. ServerStateTypes'
    BY <1>1, <1>2, SMT
    DEF ServerStateTypes, ServerTypes, StageTypes, ShownTypes, MessageTypes, PublishTypes,
        CloseConnections, startVars, handVars, pubVars
  <2>2. RequestsInv' /\ QueueInv'
    BY <1>1, <1>2
    DEF RequestsInv, QueueInv, CloseConnections, handVars, pubVars
  <2>3. HelloFirst' /\ GreetInv'
    BY <1>1, <1>2, SMT
    DEF HelloFirst, GreetInv, ServerStateTypes, StageTypes, CloseConnections, Marked,
        handVars, pubVars
  <2> QED BY <2>1, <2>2, <2>3, ServerTypesSplit DEF Handshaken
<1>3. CASE Start \/ StartListener \/ FailToListen \/ Close \/ CloseListeners \/ Closed
  <2>1. UNCHANGED <<stage, handVars, sent, handled, pubVars, shown>>
    BY <1>3 DEF Start, StartListener, FailToListen, Close, CloseListeners, Closed
  <2>2. ServerTypes'
    <3>1. listening' \in 0..Listeners
      BY <1>1, <1>3, SMT
      DEF ServerStateTypes, ServerTypes, Start, StartListener, FailToListen, Close,
          CloseListeners, Closed
    <3> QED
      BY <1>1, <1>3, <3>1, Zenon
      DEF ServerStateTypes, ServerTypes, Start, StartListener, FailToListen, Close,
          CloseListeners, Closed
  <2>3. ServerStateTypes'
    BY <1>1, <2>1, <2>2
    DEF ServerStateTypes, StageTypes, ShownTypes, MessageTypes, PublishTypes, handVars, pubVars
  <2>4. RequestsInv' /\ QueueInv' /\ HelloFirst' /\ GreetInv'
    BY <1>1, <2>1
    DEF RequestsInv, QueueInv, HelloFirst, GreetInv, handVars, pubVars
  <2> QED BY <2>3, <2>4, ServerTypesSplit DEF Handshaken
<1> QED BY <1>2, <1>3 DEF Shutdown

(* What a client shows after a snapshot is a snapshot.                      *)
LEMMA Applied ==
  ASSUME ShownTypes, NEW c \in Conns, NEW s \in Snapshots
  PROVE  /\ ApplyServerSnapshot(c, s) \in Snapshots
         /\ [shown EXCEPT ![c] = ApplyServerSnapshot(c, s)] \in [Conns -> Snapshots]
<1>1. shown[c] \in Snapshots
  BY DEF ShownTypes
<1>2. ApplyServerSnapshot(c, s) \in Snapshots
  BY <1>1 DEF ApplyServerSnapshot
<1> QED BY <1>2 DEF ShownTypes

(* A connection comes, says hello, asks and goes.                           *)
LEMMA ConnectionHandshaken ==
  ASSUME Handshaken, NEW c \in Conns,
         Accept(c) \/ Hello(c) \/ Refuse(c) \/ TransportClosed(c) \/ Request(c)
  PROVE  Handshaken'
<1> USE ServerAssumption
<1>1. ServerStateTypes /\ RequestsInv /\ QueueInv /\ HelloFirst /\ GreetInv
  BY ServerTypesSplit DEF Handshaken
<1>2. CASE Accept(c) \/ Refuse(c)
  <2>1. ServerStateTypes'
    BY <1>1, <1>2, SMT
    DEF ServerStateTypes, ServerTypes, StageTypes, ShownTypes, MessageTypes, PublishTypes,
        Accept, Refuse, startVars, handVars, pubVars
  <2>2. RequestsInv' /\ QueueInv'
    BY <1>1, <1>2
    DEF RequestsInv, QueueInv, Accept, Refuse, handVars, pubVars
  <2>3. HelloFirst' /\ GreetInv'
    BY <1>1, <1>2, SMT
    DEF HelloFirst, GreetInv, ServerStateTypes, StageTypes, Accept, Refuse, Marked,
        handVars, pubVars
  <2> QED BY <2>1, <2>2, <2>3, ServerTypesSplit DEF Handshaken
<1>3. CASE Hello(c)
  <2>1. ServerStateTypes'
    BY <1>1, <1>3, Pairs, SMT
    DEF ServerStateTypes, ServerTypes, StageTypes, ShownTypes, MessageTypes, PublishTypes,
        Hello, startVars, pubVars
  <2>2. RequestsInv' /\ QueueInv'
    BY <1>1, <1>3 DEF RequestsInv, QueueInv, Hello, pubVars
  <2>3. HelloFirst' /\ GreetInv'
    BY <1>1, <1>3, SMT
    DEF HelloFirst, GreetInv, ServerStateTypes, StageTypes, Hello, pubVars
  <2> QED BY <2>1, <2>2, <2>3, ServerTypesSplit DEF Handshaken
<1>4. CASE TransportClosed(c)
  <2>1. ServerStateTypes' /\ QueueInv'
    BY <1>1, <1>4, SMT
    DEF ServerStateTypes, ServerTypes, StageTypes, ShownTypes, MessageTypes, PublishTypes,
        QueueInv, TransportClosed, startVars, handVars
  <2>2. RequestsInv'
    BY <1>1, <1>4 DEF RequestsInv, TransportClosed, handVars
  <2>3. HelloFirst' /\ GreetInv'
    BY <1>1, <1>4, SMT
    DEF HelloFirst, GreetInv, ServerStateTypes, StageTypes, TransportClosed, handVars
  <2> QED BY <2>1, <2>2, <2>3, ServerTypesSplit DEF Handshaken
<1>5. CASE Request(c)
  <2>1. MessageTypes' /\ RequestsInv'
    BY <1>1, <1>5, SMT DEF ServerStateTypes, MessageTypes, RequestsInv, Request
  <2>2. ServerTypes' /\ StageTypes' /\ ShownTypes' /\ PublishTypes'
    BY <1>1, <1>5
    DEF ServerStateTypes, ServerTypes, StageTypes, ShownTypes, PublishTypes, Request,
        startVars, pubVars
  <2>3. QueueInv' /\ HelloFirst' /\ GreetInv'
    BY <1>1, <1>5 DEF QueueInv, HelloFirst, GreetInv, Request, pubVars
  <2> QED BY <2>1, <2>2, <2>3, ServerTypesSplit DEF ServerStateTypes, Handshaken
<1> QED BY <1>2, <1>3, <1>4, <1>5

(* The end of a handshake hands over the requests that waited for it.       *)
LEMMA Settled ==
  ASSUME MessageTypes, RequestsInv, NEW c \in Conns, Settle(c), sent' = sent
  PROVE  MessageTypes' /\ RequestsInv'
  BY ServerAssumption, SMT DEF MessageTypes, RequestsInv, Settle

(* A handshake goes on.                                                     *)
LEMMA HandshakeHandshaken ==
  ASSUME Handshaken, NEW c \in Conns, Handshake(c)
  PROVE  Handshaken'
<1> USE ServerAssumption
<1>1. ServerStateTypes /\ RequestsInv /\ QueueInv /\ HelloFirst /\ GreetInv
  BY ServerTypesSplit DEF Handshaken
<1>2. /\ ServerTypes' /\ PublishTypes' /\ QueueInv'
      /\ readers' = readers
  BY <1>1
  DEF ServerStateTypes, ServerTypes, PublishTypes, QueueInv, Handshake, ReadList,
      SendHello, CatchUp, startVars, pubVars
<1>3. /\ read[c] \in Snapshots /\ read[c][1] \in Nat
      /\ <<read[c][1], changes>> \in Snapshots /\ <<revision, 0>> \in Snapshots
  BY <1>1, Pairs, SMT DEF ServerStateTypes, ShownTypes, PublishTypes
<1>4. CASE ReadList(c)
  <2>1. MessageTypes' /\ RequestsInv'
    BY <1>1, <1>4 DEF ServerStateTypes, MessageTypes, RequestsInv, ReadList
  <2>2. StageTypes' /\ ShownTypes'
    BY <1>1, <1>3, <1>4, SMT DEF ServerStateTypes, StageTypes, ShownTypes, ReadList
  <2>3. HelloFirst' /\ GreetInv'
    BY <1>1, <1>2, <1>4, SMT
    DEF HelloFirst, GreetInv, ServerStateTypes, StageTypes, ReadList
  <2> QED BY <1>2, <2>1, <2>2, <2>3, ServerTypesSplit DEF ServerStateTypes, Handshaken
<1>5. CASE SendHello(c)
  <2>1. MessageTypes' /\ RequestsInv'
    BY <1>1, <1>5, Settled DEF ServerStateTypes, MessageTypes, RequestsInv, SendHello
  <2>2. StageTypes' /\ ShownTypes'
    BY <1>1, <1>3, <1>5, Applied, SMT DEF ServerStateTypes, StageTypes, ShownTypes, SendHello
  <2>3. HelloFirst' /\ GreetInv'
    BY <1>1, <1>2, <1>5, SMT
    DEF HelloFirst, GreetInv, ServerStateTypes, StageTypes, ShownTypes, SendHello
  <2> QED BY <1>2, <2>1, <2>2, <2>3, ServerTypesSplit DEF ServerStateTypes, Handshaken
<1>6. CASE CatchUp(c)
  <2>1. MessageTypes' /\ RequestsInv'
    BY <1>1, <1>6, Settled DEF ServerStateTypes, CatchUp
  <2>2. read'[c] \in Snapshots
    BY <1>1, <1>3, <1>6 DEF ServerStateTypes, ShownTypes, CatchUp
  <2>3. StageTypes' /\ ShownTypes'
    BY <1>1, <1>3, <1>6, <2>2, Applied, SMT
    DEF ServerStateTypes, StageTypes, ShownTypes, CatchUp
  <2>4. HelloFirst' /\ GreetInv'
    BY <1>1, <1>2, <1>6, SMT
    DEF HelloFirst, GreetInv, ServerStateTypes, StageTypes, ShownTypes, CatchUp
  <2> QED BY <1>2, <2>1, <2>3, <2>4, ServerTypesSplit DEF ServerStateTypes, Handshaken
<1> QED BY <1>4, <1>5, <1>6 DEF Handshake

(* The list changes, and broadcasts are performed.                          *)
LEMMA PublishHandshaken ==
  ASSUME Handshaken, Change \/ Publish
  PROVE  Handshaken'
<1> USE ServerAssumption
<1>1. ServerStateTypes /\ RequestsInv /\ QueueInv /\ HelloFirst /\ GreetInv
  BY ServerTypesSplit DEF Handshaken
<1>2. ServerTypes' /\ StageTypes' /\ MessageTypes' /\ RequestsInv'
  BY <1>1
  DEF ServerStateTypes, ServerTypes, StageTypes, MessageTypes, RequestsInv, Change,
      Publish, Begin, List, SendSnapshot, startVars, handVars
<1>3. CASE Change \/ Begin \/ List
  <2>1. PublishTypes' /\ QueueInv'
    BY <1>1, <1>3, Pairs, SMT
    DEF ServerStateTypes, PublishTypes, QueueInv, Change, Begin, List, Ready
  <2>2. ShownTypes' /\ HelloFirst'
    BY <1>1, <1>3
    DEF ServerStateTypes, ShownTypes, HelloFirst, Change, Begin, List, handVars
  <2>3. GreetInv'
    BY <1>1, <1>3 DEF GreetInv, Change, Begin, List, Ready, handVars
  <2> QED BY <1>2, <2>1, <2>2, <2>3, ServerTypesSplit DEF ServerStateTypes, Handshaken
<1>4. CASE SendSnapshot
  <2>1. PublishTypes' /\ QueueInv'
    BY <1>1, <1>4, SMT DEF ServerStateTypes, PublishTypes, QueueInv, SendSnapshot
  <2>2. ShownTypes'
    BY <1>1, <1>4, Applied DEF ServerStateTypes, ShownTypes, PublishTypes, SendSnapshot, handVars
  <2>3. HelloFirst' /\ GreetInv'
    BY <1>1, <1>4
    DEF ServerStateTypes, StageTypes, ShownTypes, HelloFirst, GreetInv, SendSnapshot, handVars
  <2> QED BY <1>2, <2>1, <2>2, <2>3, ServerTypesSplit DEF ServerStateTypes, Handshaken
<1> QED BY <1>3, <1>4 DEF Publish

(* Every step, and stuttering, keeps Handshaken.                            *)
LEMMA NextHandshaken == Handshaken /\ [ServerNext]_serverVars => Handshaken'
<1> SUFFICES ASSUME Handshaken, [ServerNext]_serverVars PROVE Handshaken'
  OBVIOUS
<1>1. CASE UNCHANGED serverVars
  BY <1>1
  DEF serverVars, startVars, handVars, pubVars, Handshaken, ServerTypeOK, RequestsInv,
      QueueInv, HelloFirst, GreetInv
<1> QED
  BY <1>1, ServerHandshaken, ConnectionHandshaken, HandshakeHandshaken,
     PublishHandshaken
  DEF ServerNext

(* The state is typed and the handshakes are in order in every reachable    *)
(* state.                                                                   *)
THEOREM AlwaysHandshaken == ServerSpec => []Handshaken
  BY InitHandshaken, NextHandshaken, PTL DEF ServerSpec

(* With any number of connections nothing is shown to a client before the   *)
(* hello of the server, and the state is typed.                             *)
THEOREM StageAgrees == ServerSpec => []ServerConsistent
<1>1. Handshaken => ServerConsistent
  BY DEF Handshaken, ServerConsistent
<1> QED BY <1>1, AlwaysHandshaken, PTL

-----------------------------------------------------------------------------
(* Revisions go forward only.                                               *)

(* A snapshot that is applied does not take the client back.                *)
LEMMA AppliedForward ==
  ASSUME ServerStateTypes, HelloFirst, NEW c \in Conns, NEW s \in Snapshots
  PROVE  ApplyServerSnapshot(c, s)[1] >= shown[c][1]
<1>1. s[1] \in Nat /\ shown[c] \in Snapshots /\ shown[c][1] \in Nat
  BY Pairs DEF ServerStateTypes, ShownTypes
<1>2. CASE c \in greeted
  BY <1>1, <1>2, SMT DEF ApplyServerSnapshot
<1>3. CASE c \notin greeted
  BY <1>1, <1>3, Pairs, SMT DEF ApplyServerSnapshot, HelloFirst
<1> QED BY <1>2, <1>3

(* However the snapshots of the handshake, of the catch-up and of the       *)
(* broadcasts cross, a client never goes back to an earlier revision.       *)
THEOREM ClientsGoForward == ServerSpec => NeverBack
<1> DEFINE Forward == \A c \in Conns : shown'[c][1] >= shown[c][1]
<1>1. Handshaken /\ [ServerNext]_serverVars => [Forward]_serverVars
  <2> SUFFICES ASSUME Handshaken, ServerNext PROVE Forward
    OBVIOUS
  <2>1. ServerStateTypes /\ HelloFirst
    BY ServerTypesSplit DEF Handshaken
  <2>2. \A c \in Conns : shown[c][1] \in Nat
    BY <2>1, Pairs DEF ServerStateTypes, ShownTypes
  <2>3. CASE shown' = shown
    BY <2>2, <2>3, SMT
  <2>4. ASSUME NEW c \in Conns, NEW s \in Snapshots,
               shown' = [shown EXCEPT ![c] = ApplyServerSnapshot(c, s)]
        PROVE  Forward
    <3>1. shown'[c] = ApplyServerSnapshot(c, s)
          /\ \A d \in Conns \ {c} : shown'[d] = shown[d]
      BY <2>1, <2>4 DEF ServerStateTypes, ShownTypes
    <3> QED BY <2>1, <2>2, <3>1, AppliedForward, SMT
  <2>5. \/ shown' = shown
        \/ \E c \in Conns, s \in Snapshots :
             shown' = [shown EXCEPT ![c] = ApplyServerSnapshot(c, s)]
    <3>1. CASE \E c \in Conns : SendHello(c)
      BY <2>1, <3>1 DEF SendHello, ServerStateTypes, ShownTypes
    <3>2. CASE \E c \in Conns : CatchUp(c)
      <4>1. PICK c \in Conns : CatchUp(c)
        BY <3>2
      <4>2. read'[c] \in Snapshots
        BY <2>1, <4>1, Pairs, SMT DEF CatchUp, ServerStateTypes, ShownTypes, PublishTypes
      <4> QED BY <4>1, <4>2 DEF CatchUp
    <3>3. CASE SendSnapshot
      BY <2>1, <3>3 DEF SendSnapshot, ServerStateTypes, StageTypes, PublishTypes
    <3>4. CASE \E c \in Conns : Accept(c) \/ Hello(c) \/ Refuse(c)
                                 \/ TransportClosed(c) \/ Request(c) \/ ReadList(c)
      BY <3>4
      DEF Accept, Hello, Refuse, TransportClosed, Request, ReadList, pubVars
    <3>5. CASE Start \/ StartListener \/ FailToListen \/ Close \/ Shutdown
               \/ Change \/ Begin \/ List
      BY <3>5
      DEF Start, StartListener, FailToListen, Close, Shutdown, CloseListeners,
          CloseConnections, Closed, Change, Begin, List
    <3> QED
      BY <3>1, <3>2, <3>3, <3>4, <3>5 DEF ServerNext, Handshake, Publish
  <2> QED BY <2>3, <2>4, <2>5
<1> QED BY <1>1, AlwaysHandshaken, PTL DEF ServerSpec, NeverBack

-----------------------------------------------------------------------------
(* Published is inductive.                                                  *)

(* The initial state satisfies Published.                                   *)
LEMMA InitPublished == ServerInit => Published
  BY Pairs, SMT
  DEF ServerInit, Published, RevisionInv, FreshInv, ReadIsFresh, CatchUpIsFresh,
      ShownIsFresh

(* Nothing here depends on more than the following types.                   *)
LEMMA PublishedTypes ==
  ASSUME Handshaken
  PROVE  /\ changes \in Nat /\ queue \in Nat /\ revision \in Nat
         /\ pub \in {"idle", "list", "send"}
         /\ stage \in [Conns -> {"none", "awaitingHello", "handshaking",
                                 "ready", "closing", "closed"}]
         /\ hand \in [Conns -> {"no", "list", "send", "again", "done", "over"}]
         /\ read \in [Conns -> Snapshots] /\ shown \in [Conns -> Snapshots]
         /\ draft \in Snapshots /\ draft[1] \in Nat
         /\ <<revision, 0>> \in Snapshots
         /\ \A c \in Conns : /\ read[c][1] \in Nat /\ shown[c][1] \in Nat
                             /\ <<read[c][1], changes>> \in Snapshots
<1>1. ShownTypes /\ PublishTypes /\ StageTypes
  BY ServerTypesSplit DEF Handshaken, ServerStateTypes
<1>2. changes \in 0..MaxChanges /\ changes \in Nat /\ 0 \in 0..MaxChanges
  BY <1>1, ServerAssumption, SMT DEF PublishTypes
<1>3. \A c \in Conns : read[c] \in Snapshots /\ shown[c] \in Snapshots
  BY <1>1 DEF ShownTypes
<1> QED BY <1>1, <1>2, <1>3, Pairs DEF ShownTypes, PublishTypes, StageTypes

(* Steps that move no list and no snapshot: a connection may only leave the *)
(* stages in which it counts, and more broadcasts may be queued.            *)
LEMMA QuietPublished ==
  ASSUME Handshaken, Published, closing => closing',
         UNCHANGED <<changes, pub, revision, draft, readers, missed, read, shown>>,
         queue' \in Nat, queue' >= queue,
         \A c \in Conns :
           stage'[c] \in {"handshaking", "ready"} =>
             hand'[c] = "list" \/ (stage'[c] = stage[c] /\ hand'[c] = hand[c])
  PROVE  Published'
<1> USE PublishedTypes
<1>1. RevisionInv'
  BY SMT DEF Published, RevisionInv
<1>2. FreshInv'
  <2> SUFFICES ASSUME ~closing', NEW c \in Conns
               PROVE  (ReadIsFresh(c) /\ CatchUpIsFresh(c) /\ ShownIsFresh(c))'
    BY DEF FreshInv
  <2>1. ReadIsFresh(c) /\ CatchUpIsFresh(c) /\ ShownIsFresh(c)
    BY DEF Published, FreshInv
  <2>2. \A x : Fresh(c, x) => Fresh(c, x)'
    BY SMT DEF Fresh
  <2> QED BY <2>1, <2>2 DEF ReadIsFresh, CatchUpIsFresh, ShownIsFresh
<1> QED BY <1>1, <1>2 DEF Published

(* start(), close() and the connections outside the handshake.              *)
LEMMA ServerPublished ==
  ASSUME Handshaken, Published,
         Start \/ StartListener \/ FailToListen \/ Close \/ Shutdown
  PROVE  Published'
<1>1. closing => closing'
  BY DEF Start, StartListener, FailToListen, Close, Shutdown, CloseListeners,
         CloseConnections, Closed, startVars
<1>2. UNCHANGED <<hand, changes, queue, pub, revision, draft, readers, missed,
                  read, shown>>
  BY DEF Start, StartListener, FailToListen, Close, Shutdown, CloseListeners,
         CloseConnections, Closed, handVars, pubVars
<1>3. \A c \in Conns :
        stage'[c] \in {"handshaking", "ready"} => stage'[c] = stage[c]
  BY PublishedTypes
  DEF Start, StartListener, FailToListen, Close, Shutdown, CloseListeners,
      CloseConnections, Closed, Marked
<1>4. queue' \in Nat /\ queue' >= queue
  BY <1>2, PublishedTypes, SMT
<1> QED BY <1>1, <1>2, <1>3, <1>4, QuietPublished

(* Connections that come, go or send requests have no part in what is       *)
(* published.                                                               *)
LEMMA ConnectionPublished ==
  ASSUME Handshaken, Published, NEW c \in Conns,
         Accept(c) \/ Refuse(c) \/ TransportClosed(c) \/ Request(c)
  PROVE  Published'
<1>1. /\ UNCHANGED <<hand, changes, pub, revision, draft, readers, missed, read, shown>>
      /\ closing' = closing
  BY DEF Accept, Refuse, TransportClosed, Request, startVars, handVars, pubVars
<1>2. \A d \in Conns :
        stage'[d] \in {"handshaking", "ready"} => stage'[d] = stage[d]
  BY PublishedTypes DEF Accept, Refuse, TransportClosed, Request
<1>3. queue' \in Nat /\ queue' >= queue
  BY PublishedTypes, SMT DEF Accept, Refuse, TransportClosed, Request, pubVars
<1> QED BY <1>1, <1>2, <1>3, QuietPublished

(* A handshake reads the revision, then the list, then sends both.          *)
LEMMA HandshakePublished ==
  ASSUME Handshaken, Published, NEW c \in Conns, Hello(c) \/ Handshake(c)
  PROVE  Published'
<1> USE PublishedTypes, Pairs
<1> DEFINE Goal(d) == ReadIsFresh(d) /\ CatchUpIsFresh(d) /\ ShownIsFresh(d)
<1>1. /\ UNCHANGED <<changes, queue, pub, revision, draft, readers, missed>>
      /\ closing' = closing
  BY DEF Hello, Handshake, ReadList, SendHello, CatchUp, startVars, pubVars
<1>2. \A d \in Conns : \A x : Fresh(d, x)' <=> Fresh(d, x)
  BY <1>1 DEF Fresh
<1>3. \A d \in Conns : Fresh(d, changes)
  BY DEF Fresh
<1>4. RevisionInv
  BY DEF Published
<1>5. ASSUME ~closing', NEW d \in Conns, d # c PROVE Goal(d)'
  <2>1. Goal(d)
    BY <1>1, <1>5 DEF Published, FreshInv
  <2>2. /\ stage'[d] = stage[d] /\ hand'[d] = hand[d]
        /\ read'[d] = read[d] /\ shown'[d] = shown[d]
    BY <1>5 DEF Hello, Handshake, ReadList, SendHello, CatchUp
  <2> QED BY <1>1, <1>2, <2>1, <2>2 DEF ReadIsFresh, CatchUpIsFresh, ShownIsFresh
<1>6. \A d \in Conns \ {c} : read'[d] = read[d] /\ shown'[d] = shown[d]
  BY DEF Hello, Handshake, ReadList, SendHello, CatchUp
<1>7. ASSUME read'[c][1] <= revision, shown'[c][1] <= revision,
             ~closing' => Goal(c)'
      PROVE  Published'
  <2>1. RevisionInv'
    BY <1>1, <1>4, <1>6, <1>7 DEF RevisionInv
  <2>2. FreshInv'
    BY <1>5, <1>7 DEF FreshInv
  <2> QED BY <2>1, <2>2 DEF Published
<1>8. ~closing => Goal(c)
  BY DEF Published, FreshInv
<1>9. CASE Hello(c)
  <2>1. /\ read'[c][1] = revision /\ shown'[c] = shown[c] /\ hand'[c] = "list"
        /\ stage'[c] = "handshaking"
    BY <1>9 DEF Hello
  <2> QED
    BY <1>4, <1>7, <2>1, SMT
    DEF RevisionInv, ReadIsFresh, CatchUpIsFresh, ShownIsFresh
<1>10. CASE ReadList(c)
  <2>1. /\ read'[c][1] = read[c][1] /\ read'[c][2] = changes
        /\ shown'[c] = shown[c] /\ stage'[c] = stage[c]
        /\ hand'[c] \in {"over", "send"}
    BY <1>10, SMT DEF ReadList
  <2> QED
    BY <1>2, <1>3, <1>4, <1>7, <2>1
    DEF RevisionInv, ReadIsFresh, CatchUpIsFresh, ShownIsFresh
<1>11. CASE SendHello(c)
  <2>1. CASE stage[c] # "handshaking"
    <3>1. /\ hand'[c] = "over" /\ stage'[c] = stage[c] /\ read' = read
          /\ shown' = shown
      BY <1>11, <2>1 DEF SendHello
    <3> QED
      BY <1>4, <1>7, <3>1, <2>1
      DEF RevisionInv, ReadIsFresh, CatchUpIsFresh, ShownIsFresh
  <2>2. CASE stage[c] = "handshaking"
    <3>1. c \notin greeted
      BY <2>2 DEF Handshaken, GreetInv
    <3>2. shown'[c] = read[c] /\ stage'[c] = "ready"
      BY <1>11, <2>2, <3>1 DEF SendHello, ApplyServerSnapshot
    <3>3. CASE Stale(c)
      <4>1. hand'[c] = "again" /\ read'[c][1] = revision
        BY <1>11, <2>2, <3>3, SMT DEF SendHello
      <4> QED
        BY <1>1, <1>4, <1>7, <3>2, <4>1, SMT
        DEF RevisionInv, ReadIsFresh, CatchUpIsFresh, ShownIsFresh
    <3>4. CASE ~Stale(c)
      <4>1. hand'[c] = "done" /\ read' = read /\ read[c][1] = revision
        BY <1>11, <2>2, <3>4 DEF SendHello, Stale
      <4>2. ~closing => c \in missed \/ Fresh(c, read[c][2])
        BY <1>8, <1>11, <2>2, <4>1 DEF ReadIsFresh, SendHello
      <4> QED
        BY <1>1, <1>2, <1>4, <1>7, <3>2, <4>1, <4>2
        DEF RevisionInv, ReadIsFresh, CatchUpIsFresh, ShownIsFresh
    <3> QED BY <3>3, <3>4
  <2> QED BY <2>1, <2>2
<1>12. CASE CatchUp(c)
  <2>1. /\ read'[c][1] = read[c][1] /\ read'[c][2] = changes
        /\ stage'[c] = stage[c] /\ hand[c] = "again" /\ hand'[c] = "done"
    BY <1>12, SMT DEF CatchUp
  <2>2. shown'[c] = shown[c] \/ shown'[c] = read'[c]
    BY <1>12 DEF CatchUp, ApplyServerSnapshot
  <2>3. read'[c][1] <= revision /\ shown'[c][1] <= revision
    BY <1>4, <2>1, <2>2 DEF RevisionInv
  <2>4. ASSUME ~closing, stage[c] = "ready" PROVE Fresh(c, shown'[c][2])
    <3>1. shown'[c] = ApplyServerSnapshot(c, read'[c])
      BY <1>12, <2>4 DEF CatchUp
    <3>2. CASE read[c][1] < shown[c][1]
      <4>1. shown'[c] = shown[c] \/ shown'[c][2] = changes
        BY <2>1, <2>2
      <4>2. Fresh(c, shown[c][2])
        BY <1>8, <2>1, <2>4, <3>2, SMT DEF CatchUpIsFresh
      <4> QED BY <1>3, <4>1, <4>2
    <3>3. CASE ~(read[c][1] < shown[c][1])
      BY <1>3, <2>1, <3>1, <3>3 DEF ApplyServerSnapshot
    <3> QED BY <3>2, <3>3
  <2> QED
    BY <1>1, <1>2, <1>7, <2>1, <2>3, <2>4
    DEF ReadIsFresh, CatchUpIsFresh, ShownIsFresh
<1> QED BY <1>9, <1>10, <1>11, <1>12 DEF Handshake

(* The list changes and is broadcast.                                       *)
LEMMA PublishPublished ==
  ASSUME Handshaken, Published, Change \/ Publish
  PROVE  Published'
<1> USE PublishedTypes, Pairs
<1> DEFINE Goal(d) == ReadIsFresh(d) /\ CatchUpIsFresh(d) /\ ShownIsFresh(d)
<1>1. UNCHANGED <<stage, hand, read, greeted, closing>>
  BY DEF Change, Publish, Begin, List, SendSnapshot, startVars, handVars
<1>2. RevisionInv /\ QueueInv /\ GreetInv
  BY DEF Handshaken, Published
<1>3. \A d \in Conns : ~closing => Goal(d)
  BY DEF Published, FreshInv
<1>4. CASE Change
  <2>1. /\ UNCHANGED <<pub, revision, draft, readers, missed, shown>>
        /\ queue' = queue + 1
    BY <1>4 DEF Change
  <2>2. RevisionInv'
    BY <1>1, <1>2, <2>1, SMT DEF RevisionInv, QueueInv
  <2>3. \A d \in Conns : \A x : Fresh(d, x)'
    BY <1>2, <2>1, SMT DEF Fresh, QueueInv
  <2> QED
    BY <2>2, <2>3
    DEF Published, FreshInv, ReadIsFresh, CatchUpIsFresh, ShownIsFresh
<1>5. CASE Begin
  <2>1. pub = "idle" /\ queue > 0 /\ changes' = changes /\ shown' = shown
    BY <1>5 DEF Begin
  <2>2. CASE Ready = {} \/ closing
    <3>1. /\ UNCHANGED <<pub, revision, draft>>
          /\ \A d \in Conns : stage[d] = "handshaking" => d \in missed'
      BY <1>5, <2>2 DEF Begin
    <3>2. RevisionInv'
      BY <1>1, <1>2, <2>1, <3>1 DEF RevisionInv
    <3>3. ~closing => \A d \in Conns : stage[d] # "ready"
      BY <2>2 DEF Ready
    <3> QED
      BY <1>1, <3>1, <3>2, <3>3
      DEF Published, FreshInv, ReadIsFresh, CatchUpIsFresh, ShownIsFresh
  <2>3. CASE ~(Ready = {} \/ closing)
    <3>1. /\ revision' = revision + 1 /\ pub' = "list" /\ readers' = Ready
          /\ draft'[1] = revision'
      BY <1>5, <2>3, SMT DEF Begin
    <3>2. RevisionInv'
      BY <1>1, <1>2, <2>1, <3>1, SMT DEF RevisionInv
    <3>3. \A d \in Conns : stage[d] = "ready" => \A x : Fresh(d, x)'
      BY <3>1 DEF Fresh, Ready
    <3>4. \A d \in Conns : read'[d][1] # revision'
      BY <1>1, <1>2, <3>1, SMT DEF RevisionInv
    <3> QED
      BY <1>1, <3>2, <3>3, <3>4
      DEF Published, FreshInv, ReadIsFresh, CatchUpIsFresh, ShownIsFresh
  <2> QED BY <2>2, <2>3
<1>6. CASE List
  <2>1. /\ UNCHANGED <<changes, queue, revision, readers, missed, shown>>
        /\ pub = "list" /\ pub' = "send"
        /\ draft'[1] = draft[1] /\ draft'[2] = changes
    BY <1>6, SMT DEF List
  <2>2. RevisionInv'
    BY <1>1, <1>2, <2>1 DEF RevisionInv
  <2>3. \A d \in Conns : \A x : Fresh(d, x)' <=> Fresh(d, x)
    BY <2>1 DEF Fresh
  <2> QED
    BY <1>1, <1>3, <2>1, <2>2, <2>3
    DEF Published, FreshInv, ReadIsFresh, CatchUpIsFresh, ShownIsFresh
<1>7. CASE SendSnapshot
  <2>1. /\ pub = "send" /\ draft[1] = revision
        /\ draft[2] = changes \/ queue > 1
        /\ UNCHANGED <<changes, revision, draft, missed>>
    BY <1>2, <1>7 DEF SendSnapshot, RevisionInv
  <2>2. CASE readers = {} /\ pub' = "idle" /\ queue' = queue - 1
             /\ UNCHANGED <<readers, shown>>
    <3>1. RevisionInv'
      BY <1>1, <1>2, <2>1, <2>2 DEF RevisionInv
    <3>2. \A d \in Conns : \A x : Fresh(d, x) => Fresh(d, x)'
      BY <2>1, <2>2, SMT DEF Fresh
    <3> QED
      BY <1>1, <1>3, <2>1, <2>2, <3>1, <3>2
      DEF Published, FreshInv, ReadIsFresh, CatchUpIsFresh, ShownIsFresh
  <2>3. ASSUME NEW c \in readers,
               /\ readers' = readers \ {c}
               /\ shown' = IF stage[c] \in {"closing", "closed"} THEN shown
                           ELSE [shown EXCEPT ![c] = ApplyServerSnapshot(c, draft)]
               /\ UNCHANGED <<pub, queue>>
        PROVE  Published'
    <3>1. c \in Conns /\ stage[c] \in {"ready", "closing", "closed"}
      BY <1>2, ServerTypesSplit DEF GreetInv, Handshaken, ServerStateTypes, StageTypes
    <3>2. stage[c] = "ready" => shown'[c] = draft
      BY <1>2, <2>1, <2>3, <3>1, SMT DEF ApplyServerSnapshot, RevisionInv
    <3>3. stage[c] # "ready" => shown' = shown
      BY <2>3, <3>1
    <3>4. \A d \in Conns \ {c} : shown'[d] = shown[d]
      BY <2>3
    <3>5. RevisionInv'
      <4>1. \A d \in Conns : shown'[d][1] <= revision
        BY <1>2, <2>1, <3>2, <3>3, <3>4, SMT DEF RevisionInv
      <4> QED BY <1>1, <1>2, <2>1, <2>3, <4>1 DEF RevisionInv
    <3>6. \A d \in Conns \ {c} : \A x : Fresh(d, x) => Fresh(d, x)'
      BY <2>1, <2>3 DEF Fresh
    <3>7. Fresh(c, draft[2])'
      BY <2>1, <2>3 DEF Fresh
    <3>8. ASSUME ~closing, NEW d \in Conns PROVE Goal(d)'
      <4>1. CASE d = c
        BY <1>1, <2>1, <3>1, <3>2, <3>7, <4>1
        DEF ReadIsFresh, CatchUpIsFresh, ShownIsFresh
      <4>2. CASE d # c
        BY <1>1, <1>3, <2>1, <3>4, <3>6, <3>8, <4>2
        DEF ReadIsFresh, CatchUpIsFresh, ShownIsFresh
      <4> QED BY <4>1, <4>2
    <3> QED BY <1>1, <3>5, <3>8 DEF Published, FreshInv
  <2> QED BY <1>7, <2>2, <2>3 DEF SendSnapshot
<1> QED BY <1>4, <1>5, <1>6, <1>7 DEF Publish

(* Every step, and stuttering, keeps Published.                             *)
LEMMA NextPublished == Handshaken /\ Published /\ [ServerNext]_serverVars => Published'
<1> SUFFICES ASSUME Handshaken, Published, [ServerNext]_serverVars PROVE Published'
  OBVIOUS
<1>1. CASE UNCHANGED serverVars
  BY <1>1
  DEF serverVars, startVars, handVars, pubVars, Published, RevisionInv, FreshInv,
      ReadIsFresh, CatchUpIsFresh, ShownIsFresh, Fresh
<1> QED
  BY <1>1, ServerPublished, ConnectionPublished, HandshakePublished,
     PublishPublished
  DEF ServerNext

(* When the broadcasts are done, every client that was not handshaking      *)
(* while a change was announced to nobody shows the list as it is, for any  *)
(* number of clients and changes and however their handshakes and           *)
(* catch-ups have raced with the broadcasts.                                *)
THEOREM ClientsUpToDate == ServerSpec => []UpToDate
<1>1. ServerSpec => []Published
  BY InitPublished, NextPublished, AlwaysHandshaken, PTL DEF ServerSpec
<1>2. Handshaken /\ Published => UpToDate
  <2> SUFFICES ASSUME Handshaken, Published, NEW c \in Conns, c \notin missed
               PROVE  Current(c)
    BY DEF UpToDate
  <2>1. ~closing => ShownIsFresh(c)
    BY DEF Published, FreshInv
  <2>2. queue = 0 => pub = "idle"
    BY PublishedTypes, SMT DEF Handshaken, QueueInv
  <2> QED BY <2>1, <2>2, SMT DEF Current, ShownIsFresh, Fresh
<1> QED BY <1>1, <1>2, AlwaysHandshaken, PTL

-----------------------------------------------------------------------------
(* The client and its leases: the inductive invariant.                      *)

Pc(k) == lease[k].pc

(* The leases that count as long as the connection is up.                   *)
Holding ==
  {"waiting", "reconciling", "attaching", "releasing", "resumed", "reconciled",
   "answered", "failed", "detached", "stuck"}
Counts(k) == Pc(k) \in Holding \/ (Pc(k) = "active" /\ Valid(k))
Counted == {k \in Leases : Counts(k)}

(* Leases are asked for in order, and have no generation to come.           *)
OrderInv ==
  /\ \A k, j \in Leases : Pc(k) = "none" /\ j > k => Pc(j) = "none"
  /\ \A k \in Leases : lease[k].generation <= generation

(* A session is created before any lease of it is asked for, under an       *)
(* exclusive one.                                                           *)
FirstInv == \A k \in Leases :
  /\ Pc(k) = "creating" => k = 1
  /\ Pc(k) \in {"creating", "made"} => lease[k].mode = "exclusive"
  /\ k = 1 /\ Pc(k) \in {"none", "creating"} =>
       /\ ~attached /\ ~cleanup
       /\ \A j \in Leases \ {k} : Pc(j) = "none"

(* While there is no connection nothing is awaited, every lease has been    *)
(* invalidated, and what is still counted is about to give up.              *)
Leaving == {"failed", "resumed", "reconciled"}
DownInv ==
  conn # "up" =>
    /\ pending = {} /\ ~attached /\ ~cleanup /\ ~held
    /\ \A k \in Leases :
         /\ Pc(k) \notin Waits \cup {"answered", "made"}
         /\ Pc(k) \in {"active", "stuck", "detached"} => ~Valid(k)
    /\ count <= Cardinality({k \in Leases : Pc(k) \in Leaving})

(* Whoever waits for a response does so for a request in flight, and each   *)
(* stage of a call knows whether the session is attached and in order.      *)
StageOf(k) ==
  /\ Pc(k) \in {"waiting", "releasing"} => InFlight("detach")
  /\ Pc(k) = "attaching" => InFlight("attach")
  /\ Pc(k) = "reconciling" => InFlight("reconcile")
  /\ Pc(k) = "creating" => InFlight("create")
  /\ Pc(k) = "resumed" => ~InFlight("detach")
  /\ Pc(k) \in {"releasing", "stuck"} => attached /\ ~cleanup /\ Valid(k)
  /\ Pc(k) = "detached" => ~attached /\ ~cleanup /\ Valid(k)
  /\ Pc(k) = "active" /\ Valid(k) => attached /\ ~cleanup
  /\ Pc(k) \in {"answered", "made"} => attached /\ ~cleanup
  /\ Pc(k) = "reconciled" => ~attached /\ ~cleanup
  /\ Pc(k) = "failed" => cleanup \/ ~attached
StageInv == conn = "up" => \A k \in Leases : StageOf(k)

(* There is one request in flight at most, somebody awaits it, and it fits  *)
(* the state of the session.  It is served after what can go on has.        *)
RequestInv ==
  conn = "up" =>
    /\ \A m, n \in pending : m = n
    /\ InFlight("attach") =>
         ~attached /\ ~cleanup /\ \E k \in Leases : Pc(k) = "attaching"
    /\ InFlight("detach") =>
         attached /\ ~cleanup /\ \E k \in Leases : Pc(k) = "releasing"
    /\ InFlight("reconcile") => cleanup
    /\ InFlight("create") => \E k \in Leases : Pc(k) = "creating"
    /\ ~NothingRunnable => \A m \in pending : m.outcome = "sent"

(* A lease that releases the session is the last one: others only wait.     *)
LastInv ==
  conn = "up" => \A k, j \in Leases :
    k # j /\ Pc(k) \in {"releasing", "stuck", "detached"} =>
      /\ ~Counts(j) \/ Pc(j) \in {"waiting", "resumed"}
      /\ Pc(k) = "stuck" => Pc(j) # "made"

(* What stays attached, in order, is counted or about to be.                *)
KeptInv ==
  conn = "up" /\ attached /\ ~cleanup =>
    \E k \in Leases : Counts(k) \/ Pc(k) = "made"

(* The server has attached what the client believes, but for a response     *)
(* that is still on its way.                                                *)
HeldInv ==
  conn = "up" /\ ~lost =>
    /\ \A m \in pending :
         m.outcome = "ok" => (held <=> m.kind \in {"create", "attach"})
    /\ (\A m \in pending : m.outcome # "ok") => (held <=> attached)

(* The count is that of the leases that count; one that is exclusive is     *)
(* known to be, and counts alone.                                           *)
CountInv ==
  conn = "up" =>
    /\ count = Cardinality(Counted)
    /\ \A k \in Leases :
         Counts(k) /\ lease[k].mode = "exclusive" =>
           exclusive = k /\ \A j \in Leases \ {k} : ~Counts(j)

Leased ==
  /\ TypeOK /\ OrderInv /\ FirstInv /\ DownInv /\ StageInv /\ RequestInv
  /\ LastInv /\ KeptInv /\ HeldInv /\ CountInv

-----------------------------------------------------------------------------
(* Types.                                                                   *)

Pcs == {"none", "active", "over"} \cup Waits \cup Runnable
LeaseTypes ==
  lease \in [Leases -> [pc : Pcs, mode : Modes, generation : Nat, disposing : BOOLEAN]]
NumberTypes ==
  count \in 0..MaxLeases /\ exclusive \in 0..MaxLeases /\ generation \in Nat
StateTypes ==
  /\ conn \in {"down", "connecting", "up", "disposed"}
  /\ attached \in BOOLEAN /\ held \in BOOLEAN
  /\ cleanup \in BOOLEAN /\ lost \in BOOLEAN
RequestTypes == pending \subseteq [kind : Kinds, outcome : {"sent", "ok", "error"}]
Types == LeaseTypes /\ NumberTypes /\ StateTypes /\ RequestTypes

(* The type invariant, in groups.                                           *)
LEMMA TypesSplit == (TypeOK <=> Types) /\ (TypeOK' <=> Types')
  BY DEF TypeOK, Types, LeaseTypes, NumberTypes, StateTypes, RequestTypes, Pcs

(* Lease k comes to be at p, with this mode and generation, and the others  *)
(* stay as they are.                                                        *)
Moved(k, p, mode, g) ==
  /\ LeaseTypes'
  /\ lease'[k].pc = p /\ lease'[k].mode = mode /\ lease'[k].generation = g
  /\ \A j \in Leases \ {k} : lease'[j] = lease[j]

(* Become changes the place of one lease alone.                             *)
LEMMA Becomes ==
  ASSUME LeaseTypes, NEW k \in Leases, NEW p \in Pcs, Become(k, p)
  PROVE  Moved(k, p, lease[k].mode, lease[k].generation)
<1>1. lease' = [lease EXCEPT ![k].pc = p]
  BY DEF Become
<1>2. lease[k] \in [pc : Pcs, mode : Modes, generation : Nat, disposing : BOOLEAN]
  BY DEF LeaseTypes
<1>3. lease'[k] = [lease[k] EXCEPT !.pc = p] /\ \A j \in Leases \ {k} : lease'[j] = lease[j]
  BY <1>1 DEF LeaseTypes
<1>4. LeaseTypes'
  BY <1>1, <1>2, <1>3 DEF LeaseTypes
<1> QED BY <1>2, <1>3, <1>4 DEF Moved

(* A lease that is granted is of the current generation.                    *)
LEMMA Grants ==
  ASSUME LeaseTypes, generation \in Nat, NEW k \in Leases, Grant(k)
  PROVE  Moved(k, "active", lease[k].mode, generation)
<1>1. lease' = [lease EXCEPT ![k].pc = "active", ![k].generation = generation]
  BY DEF Grant
<1>2. lease[k] \in [pc : Pcs, mode : Modes, generation : Nat, disposing : BOOLEAN]
  BY DEF LeaseTypes
<1>3. /\ lease'[k] = [lease[k] EXCEPT !.pc = "active", !.generation = generation]
      /\ \A j \in Leases \ {k} : lease'[j] = lease[j]
  BY <1>1 DEF LeaseTypes
<1>4. "active" \in Pcs
  BY DEF Pcs
<1>5. LeaseTypes'
  BY <1>1, <1>2, <1>3, <1>4 DEF LeaseTypes
<1> QED BY <1>2, <1>3, <1>5 DEF Moved

-----------------------------------------------------------------------------
(* Counting.                                                                *)

(* Sets of leases are finite and no larger than the number of leases; one   *)
(* lease more or less makes a difference of one.                            *)
LEMMA Sizes ==
  /\ \A S \in SUBSET Leases :
       IsFiniteSet(S) /\ Cardinality(S) \in 0..MaxLeases
  /\ \A S \in SUBSET Leases : Cardinality(S) = 0 <=> S = {}
  /\ \A S \in SUBSET Leases : \A T \in SUBSET S : Cardinality(T) <= Cardinality(S)
  /\ \A S \in SUBSET Leases : \A k \in Leases \ S :
       Cardinality(S \cup {k}) = Cardinality(S) + 1
  /\ \A S \in SUBSET Leases : \A k \in S :
       Cardinality(S \ {k}) = Cardinality(S) - 1
<1> USE LeaseAssumption
<1>1. IsFiniteSet(Leases) /\ Cardinality(Leases) = MaxLeases
  BY FS_Interval, SMT DEF Leases
<1>2. ASSUME NEW S \in SUBSET Leases
      PROVE  IsFiniteSet(S) /\ Cardinality(S) \in 0..MaxLeases
  <2>1. IsFiniteSet(S) /\ Cardinality(S) <= Cardinality(Leases)
    BY <1>1, FS_Subset
  <2>2. Cardinality(S) \in Nat
    BY <2>1, FS_CardinalityType
  <2> QED BY <1>1, <2>1, <2>2, SMT
<1>3. ASSUME NEW S \in SUBSET Leases PROVE Cardinality(S) = 0 <=> S = {}
  BY <1>2, FS_EmptySet
<1>4. ASSUME NEW S \in SUBSET Leases, NEW T \in SUBSET S
      PROVE  Cardinality(T) <= Cardinality(S)
  BY <1>2, FS_Subset
<1>5. ASSUME NEW S \in SUBSET Leases, NEW k \in Leases \ S
      PROVE  Cardinality(S \cup {k}) = Cardinality(S) + 1
  BY <1>2, FS_AddElement
<1>6. ASSUME NEW S \in SUBSET Leases, NEW k \in S
      PROVE  Cardinality(S \ {k}) = Cardinality(S) - 1
  BY <1>2, FS_RemoveElement
<1> QED BY <1>2, <1>3, <1>4, <1>5, <1>6

-----------------------------------------------------------------------------
(* The initial state satisfies Leased.                                      *)
LEMMA InitLeased == Init => Leased
<1> SUFFICES ASSUME Init PROVE Leased
  OBVIOUS
<1> USE LeaseAssumption
<1>1. lease = [k \in Leases |-> [pc |-> "none", mode |-> "shared",
                                 generation |-> 0, disposing |-> FALSE]]
  BY DEF Init
<1>2. \A k \in Leases : lease[k].pc = "none" /\ lease[k].generation = 0
  BY <1>1
<1>3. Types
  <2>1. LeaseTypes
    BY <1>1 DEF LeaseTypes, Pcs, Modes
  <2>2. NumberTypes
    BY SMT DEF Init, NumberTypes, NoLease
  <2>3. StateTypes /\ RequestTypes
    BY Zenon DEF Init, StateTypes, RequestTypes
  <2> QED BY <2>1, <2>2, <2>3 DEF Types
<1>4. OrderInv /\ FirstInv
  BY <1>2, SMT DEF Init, OrderInv, FirstInv, Pc
<1>5. DownInv
  <2>1. Cardinality({k \in Leases : Pc(k) \in Leaving}) \in Nat
    BY Sizes, SMT
  <2> QED BY <1>2, <2>1, SMT DEF Init, DownInv, Pc, Waits, Leaving
<1>6. StageInv /\ RequestInv /\ LastInv /\ KeptInv /\ HeldInv /\ CountInv
  BY DEF Init, StageInv, RequestInv, LastInv, KeptInv, HeldInv, CountInv
<1> QED BY <1>3, <1>4, <1>5, <1>6, TypesSplit DEF Leased

-----------------------------------------------------------------------------
(* What steps do to the requests in flight and to the count.                *)

(* A request is sent, or shared with whoever has sent it already.           *)
LEMMA Asked ==
  ASSUME RequestTypes, RequestInv, conn = "up", NEW kind \in Kinds,
         \A m \in pending : m.kind = kind,
         IF InFlight(kind) THEN UNCHANGED pending ELSE Send(kind)
  PROVE  /\ RequestTypes' /\ InFlight(kind)'
         /\ \A x \in Kinds \ {kind} : ~InFlight(x) /\ ~InFlight(x)'
         /\ \A m, n \in pending' : m = n
         /\ pending \subseteq pending'
         /\ \A m \in pending' : m \in pending \/ m.outcome = "sent"
<1> DEFINE new == [kind |-> kind, outcome |-> "sent"]
<1>1. new \in [kind : Kinds, outcome : {"sent", "ok", "error"}]
      /\ new.kind = kind /\ new.outcome = "sent"
  OBVIOUS
<1>2. \A x \in Kinds \ {kind} : ~InFlight(x)
  BY DEF InFlight
<1>3. CASE InFlight(kind)
  BY <1>2, <1>3 DEF RequestInv, RequestTypes, InFlight
<1>4. CASE ~InFlight(kind)
  <2>1. pending = {}
    BY <1>4 DEF InFlight
  <2>2. pending' = {new}
    BY <1>4, <2>1 DEF Send
  <2> QED BY <1>1, <1>2, <2>1, <2>2 DEF RequestTypes, InFlight
<1> QED BY <1>3, <1>4

(* New requests leave open what has been attached.                          *)
LEMMA HeldStays ==
  ASSUME HeldInv, UNCHANGED <<conn, lost, held, attached>>,
         pending \subseteq pending',
         \A m \in pending' : m \in pending \/ m.outcome = "sent"
  PROVE  HeldInv'
  BY DEF HeldInv

(* One lease more is counted, one less, or as many as before.               *)
LEMMA CountsMore ==
  ASSUME TypeOK, CountInv, conn = "up", conn' = "up", NEW k \in Leases,
         ~Counts(k), Counts(k)', count' = count + 1,
         \A j \in Leases \ {k} : (Counts(j)' <=> Counts(j)) /\ lease'[j] = lease[j],
         lease'[k].mode = "exclusive" => count = 0 /\ exclusive' = k,
         lease'[k].mode # "exclusive" => exclusive = NoLease /\ exclusive' = exclusive
  PROVE  CountInv' /\ count' \in 0..MaxLeases
<1>1. /\ Counted \in SUBSET Leases /\ Counted' \in SUBSET Leases
      /\ Counted' = Counted \cup {k} /\ k \in Leases \ Counted
  BY DEF Counted
<1>2. count' = Cardinality(Counted')
  BY <1>1, Sizes DEF CountInv
<1>3. count' \in 0..MaxLeases
  BY <1>1, <1>2, Sizes
<1>4. \A j \in Leases : j # NoLease
  BY LeaseAssumption, SMT DEF Leases, NoLease
<1>5. CASE lease'[k].mode = "exclusive"
  <2>1. Counted = {}
    BY <1>1, <1>5, Sizes DEF CountInv
  <2>2. \A j \in Leases \ {k} : ~Counts(j)'
    BY <2>1 DEF Counted
  <2> QED BY <1>2, <1>3, <1>5, <2>2 DEF CountInv
<1>6. CASE lease'[k].mode # "exclusive"
  <2>1. \A j \in Leases : Counts(j) => lease[j].mode # "exclusive"
    BY <1>4, <1>6 DEF CountInv
  <2> QED BY <1>2, <1>3, <1>6, <2>1 DEF CountInv
<1> QED BY <1>5, <1>6

(* A lease that is released is no longer counted.                           *)
LEMMA CountsLess ==
  ASSUME TypeOK, CountInv, conn = "up", conn' = "up", NEW k \in Leases,
         Counts(k), ~Counts(k)', Release(k),
         \A j \in Leases \ {k} : (Counts(j)' <=> Counts(j)) /\ lease'[j] = lease[j]
  PROVE  CountInv' /\ count' \in 0..MaxLeases
<1>1. /\ Counted \in SUBSET Leases /\ Counted' \in SUBSET Leases
      /\ Counted' = Counted \ {k} /\ k \in Counted
  BY DEF Counted
<1>2. Cardinality(Counted) \in Nat /\ Cardinality(Counted) # 0
      /\ Cardinality(Counted') = Cardinality(Counted) - 1
  BY <1>1, Sizes, LeaseAssumption, SMT
<1>3. count' = Cardinality(Counted')
  BY <1>2, SMT DEF Release, CountInv
<1>4. count' \in 0..MaxLeases
  BY <1>1, <1>3, Sizes
<1> QED BY <1>3, <1>4 DEF CountInv, Release

(* A step that releases nothing and grants nothing keeps the count.         *)
LEMMA CountsSame ==
  ASSUME CountInv, conn = "up", conn' = "up", UNCHANGED <<count, exclusive>>,
         \A j \in Leases : (Counts(j)' <=> Counts(j)) /\ lease'[j].mode = lease[j].mode
  PROVE  CountInv'
<1>1. Counted' = Counted
  BY DEF Counted
<1> QED BY <1>1 DEF CountInv

-----------------------------------------------------------------------------
(* Steps of one lease.                                                      *)

(* Leases are still asked for in order, and the session is created first.   *)
LEMMA OrderStays ==
  ASSUME Types, OrderInv, FirstInv, NEW k \in Leases, NEW p, NEW mode, NEW g,
         Moved(k, p, mode, g), p \notin {"none", "creating", "made"},
         g <= generation, generation' = generation,
         Pc(k) # "none" \/ \A j \in Leases : j < k => Pc(j) \notin {"none", "creating"}
  PROVE  OrderInv' /\ FirstInv'
<1>1. Leases \subseteq Nat \ {0}
  BY LeaseAssumption, SMT DEF Leases
<1>2. \A j \in Leases \ {k} : Pc(j)' = Pc(j) /\ lease'[j] = lease[j]
  BY DEF Moved, Pc
<1>3. Pc(k)' = p /\ lease'[k].generation = g
  BY DEF Moved, Pc
<1>4. OrderInv'
  BY <1>1, <1>2, <1>3, SMT DEF OrderInv
<1>5. \A j \in Leases : j = 1 /\ Pc(j) \in {"none", "creating"} => j = k
  BY <1>1, SMT DEF FirstInv
<1>6. FirstInv'
  BY <1>2, <1>3, <1>5 DEF FirstInv
<1> QED BY <1>4, <1>6

(* A step without a connection.                                             *)
LEMMA DownStays ==
  ASSUME Types, DownInv, conn # "up", NEW k \in Leases, NEW p, NEW mode, NEW g,
         Moved(k, p, mode, g),
         UNCHANGED <<conn, attached, cleanup, held, pending, generation>>,
         p \notin Waits \cup {"answered", "made"},
         p \in {"active", "stuck", "detached"} => g # generation,
         \/ count' = count /\ (Pc(k) \in Leaving => p \in Leaving)
         \/ count' = count + 1 /\ Pc(k) \notin Leaving /\ p \in Leaving
         \/ Release(k)
  PROVE  DownInv' /\ count' \in 0..MaxLeases
<1> DEFINE L == {j \in Leases : Pc(j) \in Leaving}
           M == {j \in Leases : Pc(j)' \in Leaving}
<1>1. /\ \A j \in Leases \ {k} : lease'[j] = lease[j]
      /\ Pc(k)' = p /\ (Valid(k)' <=> g = generation)
  BY DEF Moved, Pc, Valid
<1>2. \A j \in Leases :
        /\ Pc(j)' \notin Waits \cup {"answered", "made"}
        /\ Pc(j)' \in {"active", "stuck", "detached"} => ~Valid(j)'
  BY <1>1 DEF DownInv, Pc, Valid
<1>3. /\ L \in SUBSET Leases /\ M \in SUBSET Leases
      /\ L \ {k} \in SUBSET M /\ L \ {k} \in SUBSET Leases
      /\ p \in Leaving => k \in M /\ L \cup {k} \in SUBSET M
  BY <1>1 DEF Pc
<1>4. /\ Cardinality(L) \in Nat /\ Cardinality(M) \in 0..MaxLeases
      /\ Cardinality(L \ {k}) \in Nat /\ Cardinality(L \ {k}) <= Cardinality(M)
      /\ k \in L => Cardinality(L \ {k}) = Cardinality(L) - 1
      /\ k \notin L => Cardinality(L \cup {k}) = Cardinality(L) + 1
      /\ p \in Leaving => Cardinality(L \cup {k}) <= Cardinality(M)
  BY <1>3, Sizes, LeaseAssumption, SMT
<1>5. k \notin L => Cardinality(L \ {k}) = Cardinality(L)
  <2>1. k \notin L => L \ {k} = L
    OBVIOUS
  <2> QED BY <2>1
<1>6. k \in L => Cardinality(L \cup {k}) = Cardinality(L)
  <2>1. k \in L => L \cup {k} = L
    OBVIOUS
  <2> QED BY <2>1
<1>7. k \in L <=> Pc(k) \in Leaving
  OBVIOUS
<1>8. count \in Nat /\ count <= Cardinality(L)
  BY LeaseAssumption, SMT DEF DownInv, Types, NumberTypes
<1>9. count' <= Cardinality(M) /\ count' \in Nat
  <2> HIDE DEF L, M
  <2>1. CASE count' = count /\ (Pc(k) \in Leaving => p \in Leaving)
    <3>1. CASE k \in L
      BY <1>4, <1>6, <1>7, <1>8, <2>1, <3>1
    <3>2. CASE k \notin L
      BY <1>4, <1>5, <1>8, <2>1, <3>2
    <3> QED BY <3>1, <3>2
  <2>2. CASE count' = count + 1 /\ Pc(k) \notin Leaving /\ p \in Leaving
    BY <1>4, <1>7, <1>8, <2>2, SMT
  <2>3. CASE Release(k)
    <3>1. count' = IF count <= 1 THEN 0 ELSE count - 1
      BY <2>3 DEF Release
    <3> QED BY <1>4, <1>5, <1>8, <3>1, SMT
  <2> QED BY <2>1, <2>2, <2>3
<1>10. count' \in 0..MaxLeases
  <2> HIDE DEF L, M
  <2> QED BY <1>4, <1>9, LeaseAssumption, SMT
<1> QED BY <1>2, <1>9, <1>10 DEF DownInv

(* Of the invariants only half are about a connection that is up.           *)
UpInv ==
  StageInv /\ RequestInv /\ LastInv /\ KeptInv /\ HeldInv /\ CountInv

(* Without a connection there is nothing to show of those parts.            *)
LEMMA NotUp == (conn # "up" => UpInv) /\ (conn' # "up" => UpInv')
  BY DEF UpInv, StageInv, RequestInv, LastInv, KeptInv, HeldInv, CountInv

(* The invariant, in three groups.                                          *)
LEMMA Together ==
  /\ Leased <=> Types /\ OrderInv /\ FirstInv /\ DownInv /\ UpInv
  /\ Leased' <=> Types' /\ OrderInv' /\ FirstInv' /\ DownInv' /\ UpInv'
  BY TypesSplit DEF Leased, UpInv

(* A lease that goes on after the wait for a detachment, or without one.    *)
LEMMA Proceeds ==
  ASSUME Leased, conn = "up", NEW k \in Leases, NEW mode \in Modes,
         Pc(k) \in {"none", "resumed"}, ~InFlight("detach"),
         \A j \in Leases : Pc(j) \notin {"releasing", "stuck", "detached", "creating"},
         Proceed(k, [lease EXCEPT ![k].mode = mode]),
         UNCHANGED <<conn, attached, generation, cleanup, held, lost>>
  PROVE  /\ RequestTypes'
         /\ StageInv' /\ RequestInv' /\ LastInv' /\ KeptInv' /\ HeldInv'
         /\ \E p \in {"reconciling", "attaching", "active"},
               g \in {lease[k].generation, generation} :
              Moved(k, p, mode, g) /\ (p = "active" => g = generation)
<1>1. /\ Types /\ OrderInv /\ FirstInv /\ UpInv
      /\ LeaseTypes /\ RequestTypes /\ generation \in Nat
  BY Together DEF Types, NumberTypes
<1>2. lease[k] \in [pc : Pcs, mode : Modes, generation : Nat, disposing : BOOLEAN]
  BY <1>1 DEF LeaseTypes
<1>3. ~InFlight("create")
  BY <1>1 DEF UpInv, RequestInv
<1>4. ASSUME NEW p \in Pcs, NEW g \in Nat,
             lease' = [lease EXCEPT ![k].mode = mode, ![k].pc = p, ![k].generation = g]
      PROVE  Moved(k, p, mode, g)
  <2>1. /\ lease'[k] = [lease[k] EXCEPT !.mode = mode, !.pc = p, !.generation = g]
        /\ \A j \in Leases \ {k} : lease'[j] = lease[j]
    BY <1>1, <1>4 DEF LeaseTypes
  <2>2. LeaseTypes'
    BY <1>1, <1>2, <1>4, <2>1 DEF LeaseTypes
  <2> QED BY <1>2, <2>1, <2>2 DEF Moved
<1>5. ASSUME NEW p \in {"reconciling", "attaching"}, NEW kind \in Kinds,
             \/ p = "reconciling" /\ kind = "reconcile" /\ cleanup
             \/ p = "attaching" /\ kind = "attach" /\ ~cleanup /\ ~attached,
             lease' = [lease EXCEPT ![k].mode = mode, ![k].pc = p],
             IF InFlight(kind) THEN UNCHANGED pending ELSE Send(kind)
      PROVE  /\ RequestTypes'
             /\ StageInv' /\ RequestInv' /\ LastInv' /\ KeptInv' /\ HeldInv'
             /\ Moved(k, p, mode, lease[k].generation)
  <2>1. Moved(k, p, mode, lease[k].generation)
    <3>1. lease' = [lease EXCEPT ![k].mode = mode, ![k].pc = p,
                                 ![k].generation = lease[k].generation]
      BY <1>1, <1>2, <1>5 DEF LeaseTypes
    <3>2. p \in Pcs /\ lease[k].generation \in Nat
      BY <1>2 DEF Pcs, Waits
    <3> QED BY <1>4, <3>1, <3>2
  <2>2. \A m \in pending : m.kind = kind
    <3>1. \A m \in pending : m.kind \in Kinds /\ InFlight(m.kind)
      BY <1>1 DEF RequestTypes, InFlight
    <3> QED BY <1>1, <1>3, <1>5, <3>1 DEF UpInv, RequestInv, Kinds
  <2>3. /\ RequestTypes' /\ InFlight(kind)'
        /\ \A x \in Kinds \ {kind} : ~InFlight(x) /\ ~InFlight(x)'
        /\ \A m, n \in pending' : m = n
        /\ pending \subseteq pending'
        /\ \A m \in pending' : m \in pending \/ m.outcome = "sent"
    BY <1>1, <1>5, <2>2, Asked DEF UpInv
  <2>4. /\ \A j \in Leases \ {k} : Pc(j)' = Pc(j) /\ (Valid(j)' <=> Valid(j))
        /\ Pc(k)' = p /\ Counts(k)'
    BY <1>5, <2>1 DEF Moved, Pc, Valid, Counts, Holding
  <2>5. StageInv'
    <3> SUFFICES ASSUME NEW j \in Leases PROVE StageOf(j)'
      BY DEF StageInv
    <3>1. StageOf(j)
      BY <1>1 DEF UpInv, StageInv
    <3>2. CASE j = k
      BY <1>5, <2>3, <2>4, <3>2 DEF StageOf
    <3>3. CASE j # k
      <4>1. \A x \in Kinds : InFlight(x) => InFlight(x)'
        BY <2>3 DEF InFlight
      <4> QED BY <1>5, <2>3, <2>4, <3>1, <3>3, <4>1 DEF StageOf, Kinds
    <3> QED BY <3>2, <3>3
  <2>6. RequestInv'
    <3>1. ~NothingRunnable' => \A m \in pending' : m.outcome = "sent"
      BY <1>1, <1>5, <2>3, <2>4 DEF UpInv, RequestInv, NothingRunnable, Runnable, Pc
    <3> QED BY <1>1, <1>5, <2>3, <2>4, <3>1 DEF UpInv, RequestInv, Kinds
  <2>7. LastInv' /\ KeptInv'
    BY <1>5, <2>4 DEF LastInv, KeptInv
  <2>8. HeldInv'
    BY <1>1, <2>3, HeldStays DEF UpInv
  <2> QED BY <2>1, <2>3, <2>5, <2>6, <2>7, <2>8
<1>6. CASE cleanup \/ ~attached
  <2>1. \/ /\ cleanup
           /\ lease' = [lease EXCEPT ![k].mode = mode, ![k].pc = "reconciling"]
           /\ IF InFlight("reconcile") THEN UNCHANGED pending ELSE Send("reconcile")
        \/ /\ ~cleanup /\ ~attached
           /\ lease' = [lease EXCEPT ![k].mode = mode, ![k].pc = "attaching"]
           /\ IF InFlight("attach") THEN UNCHANGED pending ELSE Send("attach")
    BY <1>6 DEF Proceed
  <2>2. "reconcile" \in Kinds /\ "attach" \in Kinds
    BY DEF Kinds
  <2> QED BY <1>5, <2>1, <2>2
<1>7. CASE ~cleanup /\ attached
  <2>1. /\ lease' = [lease EXCEPT ![k].mode = mode, ![k].pc = "active",
                                  ![k].generation = generation]
        /\ pending' = pending
    BY <1>7 DEF Proceed
  <2>2. Moved(k, "active", mode, generation)
    BY <1>1, <1>4, <2>1 DEF Pcs
  <2>3. /\ \A j \in Leases \ {k} : Pc(j)' = Pc(j) /\ (Valid(j)' <=> Valid(j))
        /\ Pc(k)' = "active" /\ Counts(k)'
    BY <2>2 DEF Moved, Pc, Valid, Counts
  <2>4. \A x : InFlight(x)' <=> InFlight(x)
    BY <2>1 DEF InFlight
  <2>5. StageInv'
    BY <1>1, <1>7, <2>3, <2>4 DEF UpInv, StageInv, StageOf
  <2>6. RequestInv'
    BY <1>1, <1>7, <2>1, <2>3, <2>4
    DEF UpInv, RequestInv, NothingRunnable, Runnable, Pc
  <2>7. LastInv' /\ KeptInv'
    BY <2>3 DEF LastInv, KeptInv
  <2>8. RequestTypes' /\ HeldInv'
    BY <1>1, <2>1, HeldStays DEF UpInv, RequestTypes
  <2> QED BY <2>2, <2>5, <2>6, <2>7, <2>8
<1> QED BY <1>5, <1>6, <1>7

-----------------------------------------------------------------------------
(* acquireSession.                                                          *)

(* Acquire keeps Leased.                                                    *)
LEMMA AcquireLeased ==
  ASSUME Leased, NEW k \in Leases, NEW mode \in Modes, Acquire(k, mode)
  PROVE  Leased'
<1> DEFINE l == [lease EXCEPT ![k].mode = mode]
<1>1. /\ Types /\ OrderInv /\ FirstInv /\ DownInv /\ UpInv
      /\ LeaseTypes /\ RequestTypes /\ generation \in Nat /\ NumberTypes
  BY Together DEF Types, NumberTypes
<1>2. lease[k] \in [pc : Pcs, mode : Modes, generation : Nat, disposing : BOOLEAN]
  BY <1>1 DEF LeaseTypes
<1>3. /\ Pc(k) = "none" /\ \A j \in Leases : j < k => Pc(j) # "none"
      /\ \A j \in Leases : Pc(j) # "creating"
      /\ count' = count + 1
      /\ exclusive' = IF mode = "exclusive" THEN k ELSE exclusive
      /\ ~Refused(mode)
      /\ UNCHANGED <<conn, attached, generation, cleanup, held, lost>>
  BY DEF Acquire, Pc, At
<1>4. StateTypes' /\ generation' \in Nat /\ exclusive' \in 0..MaxLeases
  <2>1. k \in 0..MaxLeases
    BY LeaseAssumption, SMT DEF Leases
  <2> QED BY <1>1, <1>3, <2>1 DEF Types, StateTypes, NumberTypes
<1>5. ASSUME NEW p \in Holding, lease' = [l EXCEPT ![k].pc = p]
      PROVE  Moved(k, p, mode, lease[k].generation)
  <2>1. /\ lease'[k] = [lease[k] EXCEPT !.mode = mode, !.pc = p]
        /\ \A j \in Leases \ {k} : lease'[j] = lease[j]
    BY <1>1, <1>5 DEF LeaseTypes
  <2>2. p \in Pcs
    BY DEF Holding, Pcs, Waits, Runnable
  <2>3. LeaseTypes'
    BY <1>1, <1>2, <1>5, <2>1, <2>2 DEF LeaseTypes
  <2> QED BY <1>2, <2>1, <2>3 DEF Moved
<1>6. ASSUME NEW p, NEW g \in {lease[k].generation, generation},
             Moved(k, p, mode, g), p \notin {"none", "creating", "made"}
      PROVE  OrderInv' /\ FirstInv'
  <2>1. g <= generation
    BY <1>1, SMT DEF OrderInv
  <2> QED BY <1>1, <1>3, <1>6, <2>1, OrderStays
<1>7. CASE conn = "up"
  <2>1. ASSUME NEW p \in Holding \cup {"active"},
               NEW g \in {lease[k].generation, generation},
               Moved(k, p, mode, g), p = "active" => g = generation
        PROVE  CountInv' /\ NumberTypes'
    <3>1. /\ ~Counts(k) /\ Counts(k)' /\ lease'[k].mode = mode
          /\ \A j \in Leases \ {k} :
               (Counts(j)' <=> Counts(j)) /\ lease'[j] = lease[j]
      BY <1>3, <2>1 DEF Counts, Pc, Valid, Moved, Holding
    <3>2. /\ mode = "exclusive" => count = 0 /\ exclusive' = k
          /\ mode # "exclusive" => exclusive = NoLease /\ exclusive' = exclusive
      BY <1>1, <1>3, SMT DEF Refused, Modes, NumberTypes
    <3>3. CountInv' /\ count' \in 0..MaxLeases
      BY <1>1, <1>3, <1>7, <3>1, <3>2, TypesSplit, CountsMore DEF UpInv
    <3> QED BY <1>4, <3>3 DEF NumberTypes
  <2>2. CASE Detaching
    <3> DEFINE p == IF InFlight("detach") THEN "waiting" ELSE "resumed"
    <3>1. p \in Holding /\ p \in {"waiting", "resumed"}
          /\ (p = "waiting" <=> InFlight("detach"))
      BY DEF Holding
    <3>2. lease' = [l EXCEPT ![k].pc = p] /\ pending' = pending
      BY <2>2 DEF Acquire
    <3> HIDE DEF p
    <3>3. Moved(k, p, mode, lease[k].generation)
      BY <1>5, <3>1, <3>2
    <3>4. /\ \A j \in Leases \ {k} : Pc(j)' = Pc(j) /\ (Valid(j)' <=> Valid(j))
          /\ Pc(k)' = p
      BY <1>3, <3>3 DEF Moved, Pc, Valid
    <3>5. \A x : InFlight(x)' <=> InFlight(x)
      BY <3>2 DEF InFlight
    <3>6. StageInv'
      BY <1>1, <1>3, <1>7, <3>1, <3>4, <3>5 DEF UpInv, StageInv, StageOf
    <3>7. RequestInv'
      <4>1. ~InFlight("detach") => ~NothingRunnable
        BY <2>2 DEF Detaching, NothingRunnable, Runnable, At
      <4>2. ~NothingRunnable' => ~NothingRunnable
        <5>1. CASE p = "waiting"
          BY <3>4, <5>1 DEF NothingRunnable, Runnable, Pc
        <5>2. CASE p # "waiting"
          BY <3>1, <4>1, <5>2
        <5> QED BY <5>1, <5>2
      <4> QED
        BY <1>1, <1>3, <1>7, <3>1, <3>2, <3>4, <3>5, <4>2 DEF UpInv, RequestInv
    <3>8. LastInv' /\ KeptInv' /\ HeldInv'
      <4>1. LastInv'
        BY <1>1, <1>3, <1>7, <3>1, <3>4 DEF UpInv, LastInv, Counts
      <4>2. KeptInv'
        BY <3>1, <3>4 DEF KeptInv, Counts
      <4> QED BY <1>1, <1>3, <3>2, <4>1, <4>2, HeldStays DEF UpInv
    <3>9. CountInv' /\ NumberTypes'
      BY <2>1, <3>1, <3>3
    <3>10. OrderInv' /\ FirstInv'
      BY <1>6, <3>1, <3>3
    <3>11. Types'
      BY <1>1, <1>4, <3>2, <3>3, <3>9 DEF Types, Moved, RequestTypes
    <3> QED
      BY <1>3, <1>7, <3>6, <3>7, <3>8, <3>9, <3>10, <3>11, Together
      DEF UpInv, DownInv
  <2>3. CASE ~Detaching
    <3>1. Proceed(k, l)
      BY <2>3 DEF Acquire
    <3>2. ~InFlight("detach") /\ \A j \in Leases : Pc(j) \notin {"stuck", "detached"}
      BY <2>3 DEF Detaching, At, Pc
    <3>3. \A j \in Leases : Pc(j) # "releasing"
      BY <1>1, <1>7, <3>2 DEF UpInv, StageInv, StageOf
    <3>4. /\ RequestTypes'
          /\ StageInv' /\ RequestInv' /\ LastInv' /\ KeptInv' /\ HeldInv'
          /\ \E p \in {"reconciling", "attaching", "active"},
                g \in {lease[k].generation, generation} :
               Moved(k, p, mode, g) /\ (p = "active" => g = generation)
      BY <1>3, <1>7, <3>1, <3>2, <3>3, Proceeds
    <3>5. PICK p \in {"reconciling", "attaching", "active"},
               g \in {lease[k].generation, generation} :
            Moved(k, p, mode, g) /\ (p = "active" => g = generation)
      BY <3>4
    <3>6. CountInv' /\ NumberTypes'
      BY <2>1, <3>5 DEF Holding
    <3>7. OrderInv' /\ FirstInv'
      BY <1>6, <3>5
    <3>8. Types'
      BY <1>4, <3>4, <3>5, <3>6 DEF Types, Moved
    <3> QED BY <1>3, <1>7, <3>4, <3>6, <3>7, <3>8, Together DEF UpInv, DownInv
  <2> QED BY <2>2, <2>3
<1>8. CASE conn # "up"
  <2>1. \E p \in {"resumed", "failed"} : lease' = [l EXCEPT ![k].pc = p]
        /\ pending' = pending
    <3>1. pending = {} /\ ~attached /\ ~cleanup
      BY <1>1, <1>8 DEF DownInv
    <3>2. ~InFlight("detach")
      BY <3>1 DEF InFlight
    <3>3. CASE Detaching
      BY <3>2, <3>3 DEF Acquire
    <3>4. CASE ~Detaching
      BY <1>8, <3>1, <3>4 DEF Acquire, Proceed
    <3> QED BY <3>3, <3>4
  <2>2. PICK p \in {"resumed", "failed"} :
          lease' = [l EXCEPT ![k].pc = p] /\ pending' = pending
    BY <2>1
  <2>3. Moved(k, p, mode, lease[k].generation)
    BY <1>5, <2>2 DEF Holding
  <2>4. DownInv' /\ count' \in 0..MaxLeases
    BY <1>1, <1>3, <1>8, <2>2, <2>3, DownStays DEF Leaving, Waits
  <2>5. OrderInv' /\ FirstInv'
    BY <1>6, <2>3
  <2>6. Types'
    BY <1>1, <1>4, <2>2, <2>3, <2>4 DEF Types, NumberTypes, Moved, RequestTypes
  <2> QED BY <1>3, <1>8, <2>4, <2>5, <2>6, NotUp, Together
<1> QED BY <1>7, <1>8

(* Who has waited for a detachment goes on.                                 *)
LEMMA ResumeLeased ==
  ASSUME Leased, NEW k \in Leases, Resume(k)
  PROVE  Leased'
<1> DEFINE mode == lease[k].mode
<1>1. /\ Types /\ OrderInv /\ FirstInv /\ DownInv /\ UpInv
      /\ LeaseTypes /\ RequestTypes /\ generation \in Nat /\ NumberTypes
  BY Together DEF Types, NumberTypes
<1>2. lease[k] \in [pc : Pcs, mode : Modes, generation : Nat, disposing : BOOLEAN]
  BY <1>1 DEF LeaseTypes
<1>3. /\ Pc(k) = "resumed" /\ Proceed(k, lease)
      /\ \A j \in Leases : Pc(j) \notin {"detached", "stuck"}
      /\ UNCHANGED <<conn, attached, count, exclusive, generation, cleanup, held, lost>>
  BY DEF Resume, Pc, At
<1>4. StateTypes' /\ NumberTypes'
  BY <1>1, <1>3 DEF Types, StateTypes, NumberTypes
<1>5. CASE conn = "up"
  <2>1. lease = [lease EXCEPT ![k].mode = mode]
    BY <1>1, <1>2 DEF LeaseTypes
  <2>2. ~InFlight("detach")
    BY <1>1, <1>3, <1>5 DEF UpInv, StageInv, StageOf
  <2>3. \A j \in Leases : Pc(j) \notin {"releasing", "stuck", "detached", "creating"}
    <3>1. \A j \in Leases : Pc(j) = "creating" => j = k
      BY <1>1, <1>3 DEF FirstInv
    <3> QED BY <1>1, <1>3, <1>5, <2>2, <3>1 DEF UpInv, StageInv, StageOf
  <2>4. /\ RequestTypes'
        /\ StageInv' /\ RequestInv' /\ LastInv' /\ KeptInv' /\ HeldInv'
        /\ \E p \in {"reconciling", "attaching", "active"},
              g \in {lease[k].generation, generation} :
             Moved(k, p, mode, g) /\ (p = "active" => g = generation)
    <3>1. Proceed(k, [lease EXCEPT ![k].mode = mode])
      BY <1>3, <2>1
    <3>2. mode \in Modes
      BY <1>2
    <3> HIDE DEF mode
    <3> QED BY <1>3, <1>5, <2>2, <2>3, <3>1, <3>2, Proceeds
  <2>5. PICK p \in {"reconciling", "attaching", "active"},
             g \in {lease[k].generation, generation} :
          Moved(k, p, mode, g) /\ (p = "active" => g = generation)
    BY <2>4
  <2>6. CountInv'
    <3>1. \A j \in Leases : (Counts(j)' <=> Counts(j)) /\ lease'[j].mode = lease[j].mode
      BY <1>3, <2>5 DEF Moved, Counts, Pc, Valid, Holding
    <3> QED BY <1>1, <1>3, <1>5, <3>1, CountsSame DEF UpInv
  <2>7. OrderInv' /\ FirstInv'
    <3>1. g <= generation
      BY <1>1, SMT DEF OrderInv
    <3> QED BY <1>1, <1>3, <2>5, <3>1, OrderStays
  <2>8. Types'
    BY <1>4, <2>4, <2>5 DEF Types, Moved
  <2> QED BY <1>3, <1>5, <2>4, <2>6, <2>7, <2>8, Together DEF UpInv, DownInv
<1>6. CASE conn # "up"
  <2>1. Become(k, "failed") /\ pending' = pending
    BY <1>1, <1>3, <1>6 DEF DownInv, Proceed, Become
  <2>2. Moved(k, "failed", mode, lease[k].generation)
    BY <1>1, <2>1, Becomes DEF Pcs, Runnable
  <2>3. DownInv'
    BY <1>1, <1>3, <1>6, <2>1, <2>2, DownStays DEF Leaving, Waits
  <2>4. OrderInv' /\ FirstInv'
    <3>1. lease[k].generation <= generation
      BY <1>1 DEF OrderInv
    <3> QED BY <1>1, <1>3, <2>2, <3>1, OrderStays
  <2>5. Types'
    BY <1>1, <1>4, <2>1, <2>2 DEF Types, Moved, RequestTypes
  <2> QED BY <1>3, <1>6, <2>3, <2>4, <2>5, NotUp, Together
<1> QED BY <1>5, <1>6

-----------------------------------------------------------------------------
(* Steps that end a lease or make it active.                                *)

(* Such a step leaves the requests alone, and whoever waits for one.        *)
LEMMA UpStays ==
  ASSUME Leased, conn = "up", NEW k \in Leases, NEW p \in {"active", "over"},
         NEW mode, NEW g, Moved(k, p, mode, g), Pc(k) \notin Waits,
         UNCHANGED <<conn, attached, cleanup, held, lost, pending, generation>>,
         p = "active" /\ g = generation =>
           /\ attached /\ ~cleanup
           /\ \A j \in Leases \ {k} : Pc(j) \notin {"releasing", "stuck", "detached"}
  PROVE  /\ LeaseTypes' /\ StateTypes' /\ RequestTypes' /\ DownInv'
         /\ StageInv' /\ RequestInv' /\ LastInv' /\ HeldInv'
         /\ \A j \in Leases \ {k} : (Counts(j)' <=> Counts(j)) /\ lease'[j] = lease[j]
<1>1. Types /\ UpInv
  BY Together
<1>2. /\ \A j \in Leases \ {k} : Pc(j)' = Pc(j) /\ (Valid(j)' <=> Valid(j))
                                 /\ (Counts(j)' <=> Counts(j)) /\ lease'[j] = lease[j]
      /\ Pc(k)' = p /\ (Valid(k)' <=> g = generation) /\ LeaseTypes'
  BY DEF Moved, Pc, Valid, Counts
<1>3. \A x : InFlight(x)' <=> InFlight(x)
  BY DEF InFlight
<1>4. StateTypes' /\ RequestTypes' /\ DownInv'
  BY <1>1 DEF Types, StateTypes, RequestTypes, DownInv
<1>5. StageInv'
  <2> SUFFICES ASSUME NEW j \in Leases PROVE StageOf(j)'
    BY DEF StageInv
  <2>1. CASE j = k
    BY <1>2, <2>1 DEF StageOf
  <2>2. CASE j # k
    BY <1>1, <1>2, <1>3, <2>2 DEF UpInv, StageInv, StageOf
  <2> QED BY <2>1, <2>2
<1>6. RequestInv'
  <2>1. ~NothingRunnable' => ~NothingRunnable
    BY <1>2 DEF NothingRunnable, Runnable, Pc
  <2> QED BY <1>1, <1>2, <1>3, <2>1 DEF UpInv, RequestInv, Waits
<1>7. LastInv'
  <2> SUFFICES ASSUME NEW i \in Leases, NEW j \in Leases, i # j,
                      Pc(i)' \in {"releasing", "stuck", "detached"}
               PROVE  /\ ~Counts(j)' \/ Pc(j)' \in {"waiting", "resumed"}
                      /\ Pc(i)' = "stuck" => Pc(j)' # "made"
    BY DEF LastInv
  <2>1. i # k /\ Pc(i) = Pc(i)'
    BY <1>2
  <2>2. CASE j = k
    BY <1>2, <2>1, <2>2 DEF Counts, Holding
  <2>3. CASE j # k
    BY <1>1, <1>2, <2>1, <2>3 DEF UpInv, LastInv
  <2> QED BY <2>2, <2>3
<1>8. HeldInv'
  BY <1>1, HeldStays DEF UpInv
<1> QED BY <1>2, <1>4, <1>5, <1>6, <1>7, <1>8

(* Finish keeps Leased.                                                     *)
LEMMA FinishLeased ==
  ASSUME Leased, NEW k \in Leases, Finish(k)
  PROVE  Leased'
<1>1. /\ Types /\ OrderInv /\ FirstInv /\ DownInv /\ UpInv /\ LeaseTypes
      /\ generation \in Nat /\ NumberTypes
  BY Together DEF Types, NumberTypes
<1>2. /\ Pc(k) = "answered" /\ Grant(k)
      /\ UNCHANGED <<conn, attached, count, exclusive, generation, cleanup,
                     pending, held, lost>>
  BY DEF Finish, Pc
<1>3. conn = "up"
  BY <1>1, <1>2 DEF DownInv
<1>4. Moved(k, "active", lease[k].mode, generation)
  BY <1>1, <1>2, Grants
<1>5. /\ attached /\ ~cleanup
      /\ \A j \in Leases \ {k} : Pc(j) \notin {"releasing", "stuck", "detached"}
  BY <1>1, <1>2, <1>3 DEF UpInv, StageInv, StageOf, LastInv, Counts, Holding
<1>6. /\ LeaseTypes' /\ StateTypes' /\ RequestTypes' /\ DownInv'
      /\ StageInv' /\ RequestInv' /\ LastInv' /\ HeldInv'
      /\ \A j \in Leases \ {k} : (Counts(j)' <=> Counts(j)) /\ lease'[j] = lease[j]
  BY <1>2, <1>3, <1>4, <1>5, UpStays DEF Waits
<1>7. Counts(k) /\ Counts(k)' /\ lease'[k].mode = lease[k].mode
  BY <1>2, <1>4 DEF Moved, Counts, Pc, Valid, Holding
<1>8. CountInv' /\ KeptInv'
  BY <1>1, <1>2, <1>3, <1>6, <1>7, CountsSame DEF UpInv, KeptInv
<1>9. OrderInv' /\ FirstInv'
  <2>1. generation <= generation
    BY <1>1, SMT
  <2> QED BY <1>1, <1>2, <1>4, <2>1, OrderStays
<1> QED BY <1>1, <1>2, <1>6, <1>8, <1>9, Together DEF Types, NumberTypes, UpInv

(* A lease that ends and has counted is released.                           *)
LEMMA EndLeased ==
  ASSUME Leased, NEW k \in Leases, Pc(k) \in {"failed", "detached", "active"},
         Become(k, "over"), Release(k),
         conn = "up" => Counts(k) /\ (attached /\ ~cleanup => count > 1),
         UNCHANGED <<conn, attached, generation, cleanup, pending, held, lost>>
  PROVE  Leased'
<1>1. /\ Types /\ OrderInv /\ FirstInv /\ DownInv /\ UpInv /\ LeaseTypes
      /\ generation \in Nat /\ NumberTypes
  BY Together DEF Types, NumberTypes
<1>2. Moved(k, "over", lease[k].mode, lease[k].generation)
  BY <1>1, Becomes DEF Pcs
<1>3. ~Counts(k)'
  BY <1>2 DEF Moved, Counts, Pc, Holding
<1>4. OrderInv' /\ FirstInv'
  <2>1. lease[k].generation <= generation
    BY <1>1 DEF OrderInv
  <2> QED BY <1>1, <1>2, <2>1, OrderStays
<1>5. exclusive' \in 0..MaxLeases
  BY <1>1, LeaseAssumption, SMT DEF Release, NumberTypes, NoLease
<1>6. CASE conn = "up"
  <2>1. /\ LeaseTypes' /\ StateTypes' /\ RequestTypes' /\ DownInv'
        /\ StageInv' /\ RequestInv' /\ LastInv' /\ HeldInv'
        /\ \A j \in Leases \ {k} : (Counts(j)' <=> Counts(j)) /\ lease'[j] = lease[j]
    BY <1>2, <1>6, UpStays DEF Waits
  <2>2. CountInv' /\ count' \in 0..MaxLeases
    BY <1>1, <1>3, <1>6, <2>1, TypesSplit, CountsLess DEF UpInv
  <2>3. KeptInv'
    <3> SUFFICES ASSUME attached, ~cleanup PROVE \E j \in Leases : Counts(j)'
      BY <1>6 DEF KeptInv
    <3>1. count > 1 /\ count = Cardinality(Counted) /\ k \in Counted
          /\ Counted \in SUBSET Leases /\ Counted \ {k} \in SUBSET Leases
      BY <1>1, <1>6 DEF UpInv, CountInv, Counted
    <3>2. Cardinality(Counted \ {k}) # 0
      BY <1>1, <3>1, Sizes, SMT DEF NumberTypes
    <3>3. PICK j \in Counted : j # k
      BY <3>1, <3>2, Sizes
    <3> QED BY <2>1, <3>3 DEF Counted
  <2> QED BY <1>1, <1>4, <1>5, <2>1, <2>2, <2>3, Together DEF Types, NumberTypes, UpInv
<1>7. CASE conn # "up"
  <2>1. DownInv' /\ count' \in 0..MaxLeases
    BY <1>1, <1>2, <1>7, DownStays DEF Waits
  <2> QED
    BY <1>1, <1>2, <1>4, <1>5, <1>7, <2>1, NotUp, Together
    DEF Types, NumberTypes, StateTypes, RequestTypes, Moved
<1> QED BY <1>6, <1>7

(* One that ends without having counted changes nothing else.               *)
LEMMA ForgetLeased ==
  ASSUME Leased, NEW k \in Leases, Pc(k) \in {"made", "active", "stuck"}, ~Counts(k)
         \/ (Pc(k) = "stuck" /\ ~Valid(k)),
         Become(k, "over"), Pc(k) = "made" => count > 0,
         UNCHANGED <<conn, attached, count, exclusive, generation, cleanup,
                     pending, held, lost>>
  PROVE  Leased'
<1>1. /\ Types /\ OrderInv /\ FirstInv /\ DownInv /\ UpInv /\ LeaseTypes
      /\ generation \in Nat /\ NumberTypes
  BY Together DEF Types, NumberTypes
<1>2. Moved(k, "over", lease[k].mode, lease[k].generation)
  BY <1>1, Becomes DEF Pcs
<1>3. ~Counts(k)' /\ lease'[k].mode = lease[k].mode
  BY <1>2 DEF Moved, Counts, Pc, Holding
<1>4. OrderInv' /\ FirstInv'
  <2>1. lease[k].generation <= generation
    BY <1>1 DEF OrderInv
  <2> QED BY <1>1, <1>2, <2>1, OrderStays
<1>5. CASE conn = "up"
  <2>1. /\ LeaseTypes' /\ StateTypes' /\ RequestTypes' /\ DownInv'
        /\ StageInv' /\ RequestInv' /\ LastInv' /\ HeldInv'
        /\ \A j \in Leases \ {k} : (Counts(j)' <=> Counts(j)) /\ lease'[j] = lease[j]
    BY <1>2, <1>5, UpStays DEF Waits
  <2>2. ~Counts(k)
    BY <1>1, <1>5 DEF UpInv, StageInv, StageOf
  <2>3. CountInv'
    BY <1>1, <1>3, <1>5, <2>1, <2>2, CountsSame DEF UpInv
  <2>4. KeptInv'
    <3>1. CASE Pc(k) = "made"
      <4>1. Counted \in SUBSET Leases /\ Cardinality(Counted) # 0
        BY <1>1, <1>5, <3>1, SMT DEF UpInv, CountInv, NumberTypes, Counted
      <4>2. PICK j \in Leases : Counts(j)
        BY <4>1, Sizes DEF Counted
      <4> QED BY <2>1, <2>2, <4>2 DEF KeptInv
    <3>2. CASE Pc(k) # "made"
      BY <1>1, <1>5, <2>1, <2>2, <3>2 DEF UpInv, KeptInv, Pc
    <3> QED BY <3>1, <3>2
  <2> QED BY <1>1, <1>4, <2>1, <2>3, <2>4, Together DEF Types, NumberTypes, UpInv
<1>6. CASE conn # "up"
  <2>1. DownInv'
    BY <1>1, <1>2, <1>6, DownStays DEF Waits, Leaving
  <2> QED
    BY <1>1, <1>2, <1>4, <1>6, <2>1, NotUp, Together
    DEF Types, NumberTypes, StateTypes, RequestTypes, Moved
<1> QED BY <1>5, <1>6

(* FinishCreate keeps Leased.                                               *)
LEMMA FinishCreateLeased ==
  ASSUME Leased, NEW k \in Leases, FinishCreate(k)
  PROVE  Leased'
<1>1. /\ Types /\ OrderInv /\ FirstInv /\ DownInv /\ UpInv /\ LeaseTypes
      /\ generation \in Nat /\ NumberTypes
  BY Together DEF Types, NumberTypes
<1>2. /\ Pc(k) = "made" /\ ~Counts(k)
      /\ UNCHANGED <<conn, attached, generation, cleanup, pending, held, lost>>
  BY DEF FinishCreate, Pc, Counts, Holding
<1>3. conn = "up" /\ attached /\ ~cleanup
  BY <1>1, <1>2 DEF DownInv, UpInv, StageInv, StageOf
<1>4. CASE Refused("exclusive")
  BY <1>1, <1>2, <1>4, ForgetLeased DEF FinishCreate, Refused
<1>5. CASE ~Refused("exclusive")
  <2>1. /\ count' = count + 1 /\ exclusive' = k /\ Grant(k) /\ count = 0
    BY <1>1, <1>5, SMT DEF FinishCreate, Refused, NumberTypes
  <2>2. Moved(k, "active", lease[k].mode, generation)
    BY <1>1, <2>1, Grants
  <2>3. \A j \in Leases : ~Counts(j)
    <3>1. Counted \in SUBSET Leases /\ Cardinality(Counted) = 0
      BY <1>1, <1>3, <2>1 DEF UpInv, CountInv, Counted
    <3> QED BY <3>1, Sizes DEF Counted
  <2>4. \A j \in Leases : Pc(j) \notin {"releasing", "stuck", "detached"}
    BY <2>3 DEF Counts, Holding
  <2>5. /\ LeaseTypes' /\ StateTypes' /\ RequestTypes' /\ DownInv'
        /\ StageInv' /\ RequestInv' /\ LastInv' /\ HeldInv'
        /\ \A j \in Leases \ {k} : (Counts(j)' <=> Counts(j)) /\ lease'[j] = lease[j]
    BY <1>2, <1>3, <2>2, <2>4, UpStays DEF Waits
  <2>6. Counts(k)' /\ KeptInv'
    BY <1>2, <2>2 DEF Moved, Counts, Pc, Valid, KeptInv
  <2>7. lease'[k].mode = "exclusive"
    BY <1>1, <1>2, <2>2 DEF Moved, FirstInv
  <2>8. CountInv' /\ count' \in 0..MaxLeases
    BY <1>1, <1>2, <1>3, <2>1, <2>5, <2>6, <2>7, TypesSplit, CountsMore DEF UpInv
  <2>9. OrderInv' /\ FirstInv'
    <3>1. generation <= generation
      BY <1>1, SMT
    <3> QED BY <1>1, <1>2, <2>2, <3>1, OrderStays
  <2>10. exclusive' \in 0..MaxLeases
    BY <2>1, LeaseAssumption, SMT DEF Leases
  <2> QED
    BY <1>1, <1>2, <2>5, <2>6, <2>8, <2>9, <2>10, Together
    DEF Types, NumberTypes, UpInv
<1> QED BY <1>4, <1>5

-----------------------------------------------------------------------------
(* detach() and dispose() of a lease.                                       *)

(* ReleaseFailed keeps Leased.                                              *)
LEMMA ReleaseFailedLeased ==
  ASSUME Leased, NEW k \in Leases, ReleaseFailed(k)
  PROVE  Leased'
<1>1. /\ Types /\ OrderInv /\ FirstInv /\ DownInv /\ UpInv /\ LeaseTypes
      /\ generation \in Nat /\ NumberTypes
  BY Together DEF Types, NumberTypes
<1>2. /\ Pc(k) = "stuck" /\ Counts(k)
      /\ UNCHANGED <<conn, attached, generation, pending, held, lost>>
  BY DEF ReleaseFailed, Pc, Counts, Holding
<1>3. CASE ~Valid(k)
  BY <1>2, <1>3, ForgetLeased DEF ReleaseFailed
<1>4. CASE Valid(k)
  <2>1. conn = "up" /\ attached /\ ~cleanup
    BY <1>1, <1>2, <1>4 DEF DownInv, UpInv, StageInv, StageOf
  <2>2. \A j \in Leases \ {k} :
          /\ ~Counts(j) \/ Pc(j) \in {"waiting", "resumed"}
          /\ Pc(j) # "made"
    BY <1>1, <1>2, <2>1 DEF UpInv, LastInv
  <2>3. CASE lease[k].disposing
    <3>1. Release(k) /\ cleanup' = TRUE /\ Become(k, "over")
      BY <1>4, <2>3 DEF ReleaseFailed
    <3>2. Moved(k, "over", lease[k].mode, lease[k].generation)
      BY <1>1, <3>1, Becomes DEF Pcs
    <3>3. /\ \A j \in Leases \ {k} : Pc(j)' = Pc(j) /\ (Valid(j)' <=> Valid(j))
                        /\ (Counts(j)' <=> Counts(j)) /\ lease'[j] = lease[j]
          /\ Pc(k)' = "over" /\ ~Counts(k)' /\ LeaseTypes'
      BY <1>2, <3>2 DEF Moved, Pc, Valid, Counts, Holding
    <3>4. \A x : InFlight(x)' <=> InFlight(x)
      BY <1>2 DEF InFlight
    <3>5. ~InFlight("attach") /\ ~InFlight("detach") /\ ~InFlight("reconcile")
          /\ ~InFlight("create")
      <4>1. ~InFlight("attach") /\ ~InFlight("reconcile")
        BY <1>1, <2>1 DEF UpInv, RequestInv
      <4>2. ~InFlight("detach")
        BY <1>1, <1>2, <2>1, <2>2 DEF UpInv, RequestInv, Counts, Holding
      <4>3. ~InFlight("create")
        BY <1>1, <1>2, <2>1 DEF UpInv, RequestInv, FirstInv
      <4> QED BY <4>1, <4>2, <4>3
    <3>6. pending = {}
      <4>1. \A m \in pending : m.kind \in Kinds /\ InFlight(m.kind)
        BY <1>1 DEF Types, RequestTypes, InFlight
      <4> QED BY <3>5, <4>1 DEF Kinds
    <3>7. StageInv'
      <4> SUFFICES ASSUME NEW j \in Leases PROVE StageOf(j)'
        BY DEF StageInv
      <4>1. StageOf(j)
        BY <1>1, <2>1 DEF UpInv, StageInv
      <4>2. CASE j = k
        BY <3>3, <4>2 DEF StageOf
      <4>3. CASE j # k
        <5>1. Counts(j) => Pc(j) = "resumed"
          BY <2>2, <3>5, <4>1, <4>3 DEF StageOf
        <5>2. Pc(j) \notin {"creating", "made"}
          BY <2>2, <3>5, <4>1, <4>3 DEF StageOf
        <5> QED
          BY <3>3, <3>4, <3>5, <4>3, <5>1, <5>2 DEF StageOf, Counts, Holding
      <4> QED BY <4>2, <4>3
    <3>8. RequestInv' /\ LastInv' /\ KeptInv' /\ HeldInv'
      <4>1. RequestInv'
        BY <1>2, <3>4, <3>5, <3>6 DEF RequestInv
      <4>2. LastInv'
        BY <2>2, <3>3 DEF LastInv, Counts, Holding
      <4>3. KeptInv'
        BY <3>1 DEF KeptInv
      <4> QED BY <1>1, <1>2, <4>1, <4>2, <4>3, HeldStays DEF UpInv
    <3>9. CountInv' /\ count' \in 0..MaxLeases
      BY <1>1, <1>2, <2>1, <3>1, <3>3, TypesSplit, CountsLess DEF UpInv
    <3>10. OrderInv' /\ FirstInv'
      <4>1. lease[k].generation <= generation
        BY <1>1 DEF OrderInv
      <4> QED BY <1>1, <1>2, <3>2, <4>1, OrderStays
    <3>11. Types'
      <4>1. StateTypes' /\ RequestTypes'
        BY <1>1, <1>2, <3>1 DEF Types, StateTypes, RequestTypes
      <4>2. exclusive' \in 0..MaxLeases
        BY <1>1, <3>1, LeaseAssumption, SMT DEF Release, NumberTypes, NoLease
      <4> QED BY <1>1, <1>2, <3>3, <3>9, <4>1, <4>2 DEF Types, NumberTypes
    <3> QED
      BY <1>2, <2>1, <3>7, <3>8, <3>9, <3>10, <3>11, Together DEF UpInv, DownInv
  <2>4. CASE ~lease[k].disposing
    <3>1. Become(k, "active") /\ UNCHANGED <<count, exclusive, cleanup>>
      BY <1>4, <2>4 DEF ReleaseFailed
    <3>2. Moved(k, "active", lease[k].mode, lease[k].generation)
      BY <1>1, <3>1, Becomes DEF Pcs
    <3>3. \A j \in Leases \ {k} : Pc(j) \notin {"releasing", "stuck", "detached"}
      BY <2>2 DEF Counts, Holding
    <3>4. /\ LeaseTypes' /\ StateTypes' /\ RequestTypes' /\ DownInv'
          /\ StageInv' /\ RequestInv' /\ LastInv' /\ HeldInv'
          /\ \A j \in Leases \ {k} : (Counts(j)' <=> Counts(j)) /\ lease'[j] = lease[j]
      BY <1>2, <2>1, <3>1, <3>2, <3>3, UpStays DEF Waits
    <3>5. Counts(k)' /\ lease'[k].mode = lease[k].mode
      BY <1>2, <1>4, <3>2 DEF Moved, Counts, Pc, Valid
    <3>6. CountInv' /\ KeptInv'
      BY <1>1, <1>2, <2>1, <3>1, <3>4, <3>5, CountsSame DEF UpInv, KeptInv
    <3>7. OrderInv' /\ FirstInv'
      <4>1. lease[k].generation <= generation
        BY <1>1 DEF OrderInv
      <4> QED BY <1>1, <1>2, <3>2, <4>1, OrderStays
    <3> QED
      BY <1>1, <1>2, <3>1, <3>4, <3>6, <3>7, Together DEF Types, NumberTypes, UpInv
  <2> QED BY <2>3, <2>4
<1> QED BY <1>3, <1>4

(* BeginRelease keeps Leased.                                               *)
LEMMA BeginReleaseLeased ==
  ASSUME Leased, NEW k \in Leases, NEW disposing \in BOOLEAN,
         BeginRelease(k, disposing)
  PROVE  Leased'
<1>1. /\ Types /\ OrderInv /\ FirstInv /\ DownInv /\ UpInv /\ LeaseTypes
      /\ generation \in Nat /\ NumberTypes
  BY Together DEF Types, NumberTypes
<1>2. /\ Pc(k) = "active"
      /\ UNCHANGED <<conn, attached, generation, cleanup, held, lost>>
  BY DEF BeginRelease, Pc
<1>3. CASE ~Valid(k)
  <2>1. ~Counts(k)
    BY <1>2, <1>3 DEF Counts, Holding
  <2> QED BY <1>2, <1>3, <2>1, ForgetLeased DEF BeginRelease, Active
<1>4. CASE Valid(k)
  <2>1. conn = "up" /\ attached /\ ~cleanup /\ Counts(k)
    BY <1>1, <1>2, <1>4 DEF BeginRelease, Active, Counts, UpInv, StageInv, StageOf
  <2>2. CASE ~LastLease
    <3>1. count > 1
      BY <1>1, <2>2, SMT DEF LastLease, NumberTypes
    <3>2. Release(k) /\ Become(k, "over") /\ pending' = pending
      BY <1>4, <2>2 DEF BeginRelease
    <3> QED BY <1>2, <2>1, <3>1, <3>2, EndLeased
  <2>3. CASE LastLease
    <3>1. /\ lease' = [lease EXCEPT ![k].pc = "releasing", ![k].disposing = disposing]
          /\ Send("detach") /\ UNCHANGED <<count, exclusive>>
      BY <1>4, <2>3 DEF BeginRelease
    <3>2. Moved(k, "releasing", lease[k].mode, lease[k].generation)
      <4>1. lease[k] \in [pc : Pcs, mode : Modes, generation : Nat, disposing : BOOLEAN]
        BY <1>1 DEF LeaseTypes
      <4>2. /\ lease'[k] = [lease[k] EXCEPT !.pc = "releasing", !.disposing = disposing]
            /\ \A j \in Leases \ {k} : lease'[j] = lease[j]
        BY <1>1, <3>1 DEF LeaseTypes
      <4>3. "releasing" \in Pcs
        BY DEF Pcs, Waits
      <4>4. LeaseTypes'
        BY <1>1, <3>1, <4>1, <4>2, <4>3 DEF LeaseTypes
      <4> QED BY <4>1, <4>2, <4>4 DEF Moved
    <3>3. \A j \in Leases \ {k} : ~Counts(j)
      <4>1. k \in Counted /\ Counted \in SUBSET Leases /\ Cardinality(Counted) <= 1
            /\ Cardinality(Counted) \in Nat
        BY <1>1, <2>1, <2>3 DEF LastLease, UpInv, CountInv, Counted, NumberTypes
      <4>2. Cardinality(Counted \ {k}) = Cardinality(Counted) - 1
            /\ Cardinality(Counted \ {k}) \in Nat /\ Counted \ {k} \in SUBSET Leases
        BY <4>1, Sizes, LeaseAssumption, SMT
      <4>3. Cardinality(Counted \ {k}) = 0
        BY <4>1, <4>2, SMT
      <4>4. Counted \ {k} = {}
        BY <4>2, <4>3, Sizes
      <4> QED BY <4>4 DEF Counted
    <3>4. pending = {}
      <4>1. \A m \in pending : m.kind \in Kinds /\ InFlight(m.kind)
        BY <1>1 DEF Types, RequestTypes, InFlight
      <4>2. ~InFlight("attach") /\ ~InFlight("reconcile")
        BY <1>1, <2>1 DEF UpInv, RequestInv
      <4>3. ~InFlight("detach")
        BY <1>1, <1>2, <2>1, <3>3 DEF UpInv, RequestInv, Counts, Holding
      <4>4. ~InFlight("create")
        BY <1>1, <1>2, <2>1 DEF UpInv, RequestInv, FirstInv
      <4> QED BY <4>1, <4>2, <4>3, <4>4 DEF Kinds
    <3>5. /\ RequestTypes' /\ InFlight("detach")'
          /\ \A x \in Kinds \ {"detach"} : ~InFlight(x) /\ ~InFlight(x)'
          /\ \A m, n \in pending' : m = n
          /\ pending \subseteq pending'
          /\ \A m \in pending' : m \in pending \/ m.outcome = "sent"
      <4>1. ~InFlight("detach") /\ "detach" \in Kinds
        BY <3>4 DEF InFlight, Kinds
      <4> QED BY <1>1, <2>1, <3>1, <3>4, <4>1, Asked DEF UpInv, Types
    <3>6. /\ \A j \in Leases \ {k} :
               /\ Pc(j)' = Pc(j) /\ (Valid(j)' <=> Valid(j))
               /\ (Counts(j)' <=> Counts(j)) /\ lease'[j] = lease[j]
          /\ Pc(k)' = "releasing" /\ Valid(k)' /\ Counts(k)'
          /\ lease'[k].mode = lease[k].mode /\ LeaseTypes'
      BY <1>2, <1>4, <3>2 DEF Moved, Pc, Valid, Counts, Holding
    <3>7. StageInv'
      <4> SUFFICES ASSUME NEW j \in Leases PROVE StageOf(j)'
        BY DEF StageInv
      <4>1. CASE j = k
        BY <1>2, <2>1, <3>5, <3>6, <4>1 DEF StageOf
      <4>2. CASE j # k
        <5>1. StageOf(j) /\ Pc(j) \notin Holding /\ Pc(j) # "creating"
          BY <1>1, <1>2, <2>1, <3>3, <4>2
          DEF UpInv, StageInv, Counts, FirstInv
        <5> QED BY <1>2, <3>6, <4>2, <5>1 DEF StageOf, Holding
      <4> QED BY <4>1, <4>2
    <3>8. RequestInv'
      <4>1. \A m \in pending' : m.outcome = "sent"
        BY <3>4, <3>5
      <4> QED BY <1>2, <2>1, <3>5, <3>6, <4>1 DEF RequestInv, Kinds
    <3>9. LastInv' /\ KeptInv'
      BY <3>3, <3>6 DEF LastInv, KeptInv, Counts, Holding
    <3>10. HeldInv'
      BY <1>1, <1>2, <3>5, HeldStays DEF UpInv
    <3>11. CountInv'
      BY <1>1, <1>2, <2>1, <3>1, <3>6, CountsSame DEF UpInv
    <3>12. OrderInv' /\ FirstInv'
      <4>1. lease[k].generation <= generation
        BY <1>1 DEF OrderInv
      <4> QED BY <1>1, <1>2, <3>2, <4>1, OrderStays
    <3>13. Types'
      BY <1>1, <1>2, <3>1, <3>5, <3>6 DEF Types, NumberTypes, StateTypes
    <3> QED
      BY <1>2, <2>1, <3>7, <3>8, <3>9, <3>10, <3>11, <3>12, <3>13, Together
      DEF UpInv, DownInv
  <2> QED BY <2>2, <2>3
<1> QED BY <1>3, <1>4

-----------------------------------------------------------------------------
(* The other steps of calls that send a request.                            *)

(* Reattach keeps Leased.                                                   *)
LEMMA ReattachLeased ==
  ASSUME Leased, NEW k \in Leases, Reattach(k)
  PROVE  Leased'
<1>1. /\ Types /\ OrderInv /\ FirstInv /\ DownInv /\ UpInv /\ LeaseTypes
      /\ generation \in Nat /\ NumberTypes
  BY Together DEF Types, NumberTypes
<1>2. /\ Pc(k) = "reconciled"
      /\ UNCHANGED <<conn, attached, count, exclusive, generation, cleanup, held, lost>>
  BY DEF Reattach, Pc
<1>3. ASSUME NEW p \in {"attaching", "failed"}, Become(k, p)
      PROVE  Moved(k, p, lease[k].mode, lease[k].generation) /\ OrderInv' /\ FirstInv'
  <2>1. Moved(k, p, lease[k].mode, lease[k].generation)
    BY <1>1, <1>3, Becomes DEF Pcs, Waits, Runnable
  <2>2. lease[k].generation <= generation
    BY <1>1 DEF OrderInv
  <2> QED BY <1>1, <1>2, <2>1, <2>2, OrderStays
<1>4. CASE conn = "up"
  <2>1. /\ Become(k, "attaching") /\ ~attached /\ ~cleanup
        /\ IF InFlight("attach") THEN UNCHANGED pending ELSE Send("attach")
    BY <1>1, <1>2, <1>4 DEF Reattach, UpInv, StageInv, StageOf
  <2>2. Moved(k, "attaching", lease[k].mode, lease[k].generation) /\ OrderInv' /\ FirstInv'
    BY <1>3, <2>1
  <2>3. \A m \in pending : m.kind = "attach"
    <3>1. \A m \in pending : m.kind \in Kinds /\ InFlight(m.kind)
      BY <1>1 DEF Types, RequestTypes, InFlight
    <3>2. ~InFlight("detach") /\ ~InFlight("reconcile")
      BY <1>1, <1>4, <2>1 DEF UpInv, RequestInv
    <3>3. ~InFlight("create")
      BY <1>1, <1>2, <1>4 DEF UpInv, RequestInv, FirstInv
    <3> QED BY <3>1, <3>2, <3>3 DEF Kinds
  <2>4. /\ RequestTypes' /\ InFlight("attach")'
        /\ \A x \in Kinds \ {"attach"} : ~InFlight(x) /\ ~InFlight(x)'
        /\ \A m, n \in pending' : m = n
        /\ pending \subseteq pending'
        /\ \A m \in pending' : m \in pending \/ m.outcome = "sent"
    BY <1>1, <1>4, <2>1, <2>3, Asked DEF UpInv, Types, Kinds
  <2>5. /\ \A j \in Leases \ {k} :
             /\ Pc(j)' = Pc(j) /\ (Valid(j)' <=> Valid(j))
             /\ (Counts(j)' <=> Counts(j)) /\ lease'[j] = lease[j]
        /\ Pc(k)' = "attaching" /\ Counts(k) /\ Counts(k)'
        /\ lease'[k].mode = lease[k].mode /\ LeaseTypes'
    BY <1>2, <2>2 DEF Moved, Pc, Valid, Counts, Holding
  <2>6. StageInv'
    <3> SUFFICES ASSUME NEW j \in Leases PROVE StageOf(j)'
      BY DEF StageInv
    <3>1. CASE j = k
      BY <2>4, <2>5, <3>1 DEF StageOf
    <3>2. CASE j # k
      <4>1. StageOf(j)
        BY <1>1, <1>4 DEF UpInv, StageInv
      <4>2. \A x \in Kinds : InFlight(x) => InFlight(x)'
        BY <2>4 DEF InFlight
      <4> QED BY <1>2, <2>4, <2>5, <3>2, <4>1, <4>2 DEF StageOf, Kinds
    <3> QED BY <3>1, <3>2
  <2>7. RequestInv'
    <3>1. \A m \in pending' : m.outcome = "sent"
      BY <1>1, <1>2, <1>4, <2>4 DEF UpInv, RequestInv, NothingRunnable, Runnable, Pc
    <3> QED BY <1>2, <2>1, <2>4, <2>5, <3>1 DEF RequestInv, Kinds
  <2>8. LastInv' /\ KeptInv'
    <3>1. \A j \in Leases \ {k} : Pc(j) \notin {"releasing", "stuck", "detached"}
      BY <1>1, <1>2, <1>4, <2>5 DEF UpInv, LastInv
    <3> QED BY <2>5, <3>1 DEF LastInv, KeptInv
  <2>9. HeldInv' /\ CountInv'
    BY <1>1, <1>2, <1>4, <2>4, <2>5, HeldStays, CountsSame DEF UpInv
  <2>10. Types'
    BY <1>1, <1>2, <2>4, <2>5 DEF Types, NumberTypes, StateTypes
  <2> QED
    BY <1>2, <1>4, <2>2, <2>6, <2>7, <2>8, <2>9, <2>10, Together DEF UpInv, DownInv
<1>5. CASE conn # "up"
  <2>1. Become(k, "failed") /\ pending' = pending
    BY <1>5 DEF Reattach
  <2>2. Moved(k, "failed", lease[k].mode, lease[k].generation) /\ OrderInv' /\ FirstInv'
    BY <1>3, <2>1
  <2>3. DownInv'
    BY <1>1, <1>2, <1>5, <2>1, <2>2, DownStays DEF Leaving, Waits
  <2> QED
    BY <1>1, <1>2, <1>5, <2>1, <2>2, <2>3, NotUp, Together
    DEF Types, NumberTypes, StateTypes, RequestTypes, Moved
<1> QED BY <1>4, <1>5

(* Create keeps Leased.                                                     *)
LEMMA CreateLeased ==
  ASSUME Leased, NEW k \in Leases, Create(k)
  PROVE  Leased'
<1>1. /\ Types /\ OrderInv /\ FirstInv /\ DownInv /\ UpInv /\ LeaseTypes
      /\ generation \in Nat /\ NumberTypes
  BY Together DEF Types, NumberTypes
<1>2. /\ k = 1 /\ Pc(k) = "none" /\ conn = "up" /\ Send("create")
      /\ lease' = [lease EXCEPT ![k].pc = "creating", ![k].mode = "exclusive"]
      /\ UNCHANGED <<conn, attached, count, exclusive, generation, cleanup, held, lost>>
  BY DEF Create, Pc
<1>3. ~attached /\ ~cleanup /\ \A j \in Leases : Pc(j) = "none"
  BY <1>1, <1>2 DEF FirstInv
<1>4. Moved(k, "creating", "exclusive", lease[k].generation)
  <2>1. lease[k] \in [pc : Pcs, mode : Modes, generation : Nat, disposing : BOOLEAN]
    BY <1>1 DEF LeaseTypes
  <2>2. /\ lease'[k] = [lease[k] EXCEPT !.pc = "creating", !.mode = "exclusive"]
        /\ \A j \in Leases \ {k} : lease'[j] = lease[j]
    BY <1>1, <1>2 DEF LeaseTypes
  <2>3. "creating" \in Pcs /\ "exclusive" \in Modes
    BY DEF Pcs, Waits, Modes
  <2>4. LeaseTypes'
    BY <1>1, <1>2, <2>1, <2>2, <2>3 DEF LeaseTypes
  <2> QED BY <2>1, <2>2, <2>4 DEF Moved
<1>5. pending = {}
  <2>1. \A m \in pending : m.kind \in Kinds /\ InFlight(m.kind)
    BY <1>1 DEF Types, RequestTypes, InFlight
  <2> QED BY <1>1, <1>2, <1>3, <2>1 DEF UpInv, RequestInv, Kinds
<1>6. /\ RequestTypes' /\ InFlight("create")'
      /\ \A x \in Kinds \ {"create"} : ~InFlight(x) /\ ~InFlight(x)'
      /\ \A m, n \in pending' : m = n
      /\ pending \subseteq pending'
      /\ \A m \in pending' : m \in pending \/ m.outcome = "sent"
  <2>1. ~InFlight("create") /\ "create" \in Kinds
    BY <1>5 DEF InFlight, Kinds
  <2>2. /\ RequestTypes /\ RequestInv /\ conn = "up"
        /\ \A m \in pending : m.kind = "create"
        /\ IF InFlight("create") THEN UNCHANGED pending ELSE Send("create")
    BY <1>1, <1>2, <1>5, <2>1 DEF UpInv, Types
  <2> QED BY <2>1, <2>2, Asked
<1>7. /\ \A j \in Leases \ {k} : Pc(j)' = "none" /\ lease'[j] = lease[j]
      /\ Pc(k)' = "creating" /\ lease'[k].mode = "exclusive"
      /\ lease'[k].generation = lease[k].generation /\ LeaseTypes'
      /\ \A j \in Leases : ~Counts(j) /\ ~Counts(j)'
  BY <1>3, <1>4 DEF Moved, Pc, Counts, Holding
<1>8. OrderInv' /\ FirstInv'
  <2>1. Leases \subseteq Nat \ {0}
    BY LeaseAssumption, SMT DEF Leases
  <2>2. OrderInv'
    <3>1. \A i, j \in Leases : j > i => j # k
      BY <1>2, <2>1, SMT
    <3>2. \A i, j \in Leases : Pc(i)' = "none" /\ j > i => Pc(j)' = "none"
      BY <1>7, <3>1
    <3>3. ASSUME NEW j \in Leases PROVE lease'[j].generation <= generation'
      <4>1. lease'[j].generation = lease[j].generation
        <5>1. CASE j = k
          BY <1>7, <5>1, Zenon
        <5>2. CASE j # k
          BY <1>7, <5>2, Zenon
        <5> QED BY <5>1, <5>2
      <4>2. lease[j].generation <= generation /\ generation' = generation
        BY <1>1, <1>2, Zenon DEF OrderInv
      <4> QED BY <4>1, <4>2
    <3> QED BY <3>2, <3>3, Zenon DEF OrderInv
  <2>3. FirstInv'
    BY <1>2, <1>3, <1>7 DEF FirstInv
  <2> QED BY <2>2, <2>3
<1>9. StageInv'
  BY <1>6, <1>7 DEF StageInv, StageOf
<1>10. RequestInv'
  <2>1. \A m \in pending' : m.outcome = "sent"
    BY <1>5, <1>6
  <2> QED BY <1>6, <1>7, <2>1 DEF RequestInv, Kinds
<1>11. LastInv' /\ KeptInv'
  BY <1>2, <1>3, <1>7 DEF LastInv, KeptInv
<1>12. HeldInv'
  BY <1>1, <1>2, <1>6, HeldStays DEF UpInv
<1>13. CountInv'
  <2>1. Counted' = Counted
    BY <1>7 DEF Counted
  <2> QED BY <1>1, <1>2, <1>7, <2>1 DEF UpInv, CountInv
<1>14. Types'
  BY <1>1, <1>2, <1>6, <1>7 DEF Types, NumberTypes, StateTypes
<1> QED
  BY <1>2, <1>8, <1>9, <1>10, <1>11, <1>12, <1>13, <1>14, Together DEF UpInv, DownInv

(* Continue keeps Leased.                                                   *)
LEMMA ContinueLeased ==
  ASSUME Leased, NEW k \in Leases, Continue(k)
  PROVE  Leased'
<1>1. Types /\ UpInv
  BY Together
<1>2. CASE GiveUp(k)
  <2>1. Pc(k) = "failed" /\ Counts(k)
    BY <1>2 DEF GiveUp, Pc, Counts, Holding
  <2>2. conn = "up" => cleanup \/ ~attached
    BY <1>1, <2>1 DEF UpInv, StageInv, StageOf
  <2> QED BY <1>2, <2>1, <2>2, EndLeased DEF GiveUp
<1>3. CASE Released(k)
  <2>1. Pc(k) = "detached" /\ Counts(k)
    BY <1>3 DEF Released, Pc, Counts, Holding
  <2>2. conn = "up" => ~attached
    BY <1>1, <2>1 DEF UpInv, StageInv, StageOf
  <2> QED BY <1>3, <2>1, <2>2, EndLeased DEF Released
<1> QED
  BY <1>2, <1>3, ResumeLeased, ReattachLeased, FinishLeased, FinishCreateLeased,
     ReleaseFailedLeased
  DEF Continue

-----------------------------------------------------------------------------
(* The server serves a request.                                             *)

(* Serve keeps Leased.                                                      *)
LEMMA ServeLeased ==
  ASSUME Leased, NEW m \in pending, Serve(m)
  PROVE  Leased'
<1>1. /\ Types /\ OrderInv /\ FirstInv /\ DownInv /\ UpInv /\ RequestTypes
  BY Together DEF Types
<1>2. /\ m.outcome = "sent" /\ conn = "up" /\ NothingRunnable
      /\ UNCHANGED <<conn, clientVars>>
  BY DEF Serve
<1>3. UNCHANGED <<attached, count, exclusive, generation, cleanup, lease>>
  BY <1>2 DEF clientVars
<1>4. PICK outcome \in {"ok", "error"}, done \in BOOLEAN :
        /\ outcome = "ok" => done
        /\ pending' = (pending \ {m}) \cup {[m EXCEPT !.outcome = outcome]}
        /\ held' = IF done THEN m.kind \in {"create", "attach"} ELSE held
        /\ lost' = (outcome = "error" /\ (done \/ lost))
  BY DEF Serve
<1> DEFINE n == [m EXCEPT !.outcome = outcome]
<1>5. /\ pending = {m} /\ pending' = {n} /\ n.kind = m.kind /\ n.outcome = outcome
      /\ n \in [kind : Kinds, outcome : {"sent", "ok", "error"}]
  <2>1. pending = {m}
    BY <1>1, <1>2 DEF UpInv, RequestInv
  <2>2. m \in [kind : Kinds, outcome : {"sent", "ok", "error"}]
    BY <1>1 DEF RequestTypes
  <2> QED BY <1>4, <2>1, <2>2
<1>6. \A x : InFlight(x)' <=> InFlight(x)
  BY <1>5 DEF InFlight
<1>7. /\ \A j \in Leases : Pc(j)' = Pc(j) /\ (Valid(j)' <=> Valid(j)) /\ (Counts(j)' <=> Counts(j))
      /\ NothingRunnable'
  BY <1>2, <1>3 DEF Pc, Valid, Counts, NothingRunnable
<1>8. OrderInv' /\ FirstInv' /\ DownInv'
  BY <1>1, <1>2, <1>3, <1>7 DEF OrderInv, FirstInv, DownInv
<1>9. StageInv'
  BY <1>1, <1>2, <1>3, <1>6, <1>7 DEF UpInv, StageInv, StageOf
<1>10. RequestInv'
  BY <1>1, <1>2, <1>3, <1>5, <1>6, <1>7 DEF UpInv, RequestInv
<1>11. LastInv' /\ KeptInv'
  BY <1>1, <1>2, <1>3, <1>7 DEF UpInv, LastInv, KeptInv
<1>12. CountInv'
  BY <1>1, <1>2, <1>3, <1>7, CountsSame DEF UpInv
<1>13. HeldInv'
  <2> SUFFICES ASSUME ~lost'
               PROVE  /\ outcome = "ok" => (held' <=> n.kind \in {"create", "attach"})
                      /\ outcome # "ok" => (held' <=> attached)
    BY <1>3, <1>5 DEF HeldInv
  <2>1. CASE outcome = "ok"
    BY <1>4, <1>5, <2>1
  <2>2. CASE outcome = "error"
    <3>1. ~done /\ ~lost
      BY <1>4, <2>2
    <3>2. held <=> attached
      BY <1>1, <1>2, <1>5, <3>1 DEF UpInv, HeldInv
    <3> QED BY <1>4, <2>2, <3>1, <3>2
  <2> QED BY <2>1, <2>2
<1>14. StateTypes'
  <2>1. held' = TRUE \/ held' = FALSE \/ held' = held
    <3>1. CASE done /\ m.kind \in {"create", "attach"}
      BY <1>4, <3>1
    <3>2. CASE done /\ m.kind \notin {"create", "attach"}
      BY <1>4, <3>2
    <3>3. CASE ~done
      BY <1>4, <3>3
    <3> QED BY <3>1, <3>2, <3>3
  <2>2. held' \in BOOLEAN
    BY <1>1, <2>1 DEF Types, StateTypes
  <2>3. lost' \in BOOLEAN
    BY <1>4
  <2> QED BY <1>1, <1>2, <1>3, <2>2, <2>3, Zenon DEF Types, StateTypes
<1>15. Types'
  BY <1>1, <1>3, <1>5, <1>14 DEF Types, LeaseTypes, NumberTypes, RequestTypes
<1> QED BY <1>8, <1>9, <1>10, <1>11, <1>12, <1>13, <1>15, Together DEF UpInv

-----------------------------------------------------------------------------
(* A response is handled.                                                   *)

(* Respond keeps Leased.                                                    *)
LEMMA RespondLeased ==
  ASSUME Leased, NEW m \in pending, Respond(m)
  PROVE  Leased'
<1> DEFINE ok == m.outcome = "ok"
<1>1. /\ Types /\ OrderInv /\ FirstInv /\ DownInv /\ UpInv /\ RequestTypes
      /\ LeaseTypes /\ StateTypes
  BY Together DEF Types
<1>2. /\ m.outcome # "sent" /\ conn = "up"
      /\ pending' = pending \ {m}
      /\ UNCHANGED <<conn, count, exclusive, generation, held, lost>>
      /\ lease' = [k \in Leases |-> [lease[k] EXCEPT !.pc = Answered(@, m.kind, ok)]]
      /\ attached' = IF ok THEN m.kind \in {"create", "attach"} ELSE attached
      /\ cleanup' = (cleanup /\ ~(ok /\ m.kind = "reconcile"))
  BY DEF Respond
<1>3. pending = {m} /\ pending' = {} /\ m.kind \in Kinds
  BY <1>1, <1>2 DEF UpInv, RequestInv, RequestTypes
<1>4. \A x : (InFlight(x) <=> x = m.kind) /\ ~InFlight(x)'
  BY <1>3 DEF InFlight
<1>5. \A k \in Leases : Pc(k) \in Pcs \ Runnable
  <2>1. NothingRunnable
    BY <1>1, <1>2, <1>3 DEF UpInv, RequestInv
  <2> QED BY <1>1, <2>1 DEF LeaseTypes, NothingRunnable, Pc
<1>6. \A k \in Leases :
        /\ Pc(k)' = Answered(Pc(k), m.kind, ok) /\ Pc(k)' \in Pcs
        /\ lease'[k].mode = lease[k].mode
        /\ lease'[k].generation = lease[k].generation
        /\ lease'[k] \in [pc : Pcs, mode : Modes, generation : Nat, disposing : BOOLEAN]
  <2> TAKE k \in Leases
  <2>1. lease[k] \in [pc : Pcs, mode : Modes, generation : Nat, disposing : BOOLEAN]
    BY <1>1 DEF LeaseTypes
  <2>2. lease'[k] = [lease[k] EXCEPT !.pc = Answered(Pc(k), m.kind, ok)]
    BY <1>2, <2>1 DEF Pc
  <2>3. Answered(Pc(k), m.kind, ok) \in Pcs
    BY <2>1 DEF Answered, Pcs, Waits, Runnable, Pc
  <2> HIDE DEF ok
  <2> QED BY <2>1, <2>2, <2>3 DEF Pc
<1>7. LeaseTypes'
  BY <1>2, <1>6 DEF LeaseTypes
<1>8. \A k \in Leases : Valid(k)' <=> Valid(k)
  BY <1>2, <1>6 DEF Valid
<1> HIDE DEF ok
<1>9. \A k \in Leases : StageOf(k)
  BY <1>1, <1>2 DEF UpInv, StageInv
<1>10. \A k \in Leases :
         \/ Pc(k) \in {"none", "over", "active"}
         \/ m.kind = "attach" /\ Pc(k) = "attaching"
         \/ m.kind = "create" /\ Pc(k) = "creating"
         \/ m.kind = "reconcile" /\ Pc(k) = "reconciling"
         \/ m.kind = "detach" /\ Pc(k) \in {"releasing", "waiting"}
  BY <1>4, <1>5, <1>9 DEF StageOf, Pcs, Waits, Runnable
<1>11. \A k \in Leases : Counts(k)' <=> Counts(k)
  BY <1>6, <1>8, <1>10 DEF Counts, Holding, Answered
<1>12. CountInv'
  BY <1>1, <1>2, <1>6, <1>11, CountsSame DEF UpInv
<1>13. \A k \in Leases : (Pc(k)' = "none" <=> Pc(k) = "none") /\ Pc(k)' # "creating"
                         /\ (Pc(k)' = "made" => Pc(k) = "creating")
  BY <1>6, <1>10 DEF Answered
<1>14. OrderInv'
  BY <1>1, <1>2, <1>6, <1>13 DEF OrderInv
<1>15. FirstInv'
  <2> SUFFICES ASSUME NEW k \in Leases, k = 1, Pc(k) = "none"
               PROVE  ~attached' /\ ~cleanup' /\ \A j \in Leases \ {k} : Pc(j)' = "none"
    BY <1>1, <1>6, <1>13 DEF FirstInv
  <2>1. ~attached /\ ~cleanup /\ \A j \in Leases : Pc(j) = "none"
    BY <1>1 DEF FirstInv
  <2>2. m.kind \notin {"create", "attach"}
    BY <1>1, <1>2, <1>4, <2>1 DEF UpInv, RequestInv
  <2> QED BY <1>2, <1>13, <2>1, <2>2
<1>16. DownInv' /\ RequestInv'
  BY <1>2, <1>3, <1>4 DEF DownInv, RequestInv
<1>17. StateTypes'
  <2>1. attached' = TRUE \/ attached' = FALSE \/ attached' = attached
    <3>1. CASE ok /\ m.kind \in {"create", "attach"}
      BY <1>2, <3>1
    <3>2. CASE ok /\ m.kind \notin {"create", "attach"}
      BY <1>2, <3>2
    <3>3. CASE ~ok
      BY <1>2, <3>3
    <3> QED BY <3>1, <3>2, <3>3
  <2>2. attached' \in BOOLEAN
    BY <1>1, <2>1 DEF StateTypes
  <2>3. cleanup' \in BOOLEAN
    BY <1>2
  <2> QED BY <1>1, <1>2, <2>2, <2>3, Zenon DEF StateTypes
<1>18. Types'
  BY <1>1, <1>2, <1>3, <1>7, <1>17 DEF Types, NumberTypes, RequestTypes
<1>19. HeldInv'
  <2>1. ~lost => (held <=> attached')
    <3>1. CASE ok
      BY <1>1, <1>2, <1>3, <3>1 DEF UpInv, HeldInv, ok
    <3>2. CASE ~ok
      BY <1>1, <1>2, <1>3, <3>2 DEF UpInv, HeldInv, ok
    <3> QED BY <3>1, <3>2
  <2> QED BY <1>2, <1>3, <2>1 DEF HeldInv
<1>20. StageInv' /\ LastInv' /\ KeptInv'
  <2>1. CASE m.kind = "attach"
    <3>1. ~attached /\ ~cleanup /\ \E k \in Leases : Pc(k) = "attaching"
      BY <1>1, <1>2, <1>4, <2>1 DEF UpInv, RequestInv
    <3>2. ~cleanup' /\ (attached' <=> ok)
      BY <1>2, <2>1, <3>1
    <3>3. \A k \in Leases :
            \/ Pc(k) = "attaching" /\ Pc(k)' = (IF ok THEN "answered" ELSE "failed")
            \/ Pc(k) \in {"none", "over"} /\ Pc(k)' = Pc(k)
            \/ Pc(k) = "active" /\ Pc(k)' = Pc(k) /\ ~Valid(k)'
      BY <1>6, <1>8, <1>9, <1>10, <2>1, <3>1 DEF Answered, StageOf
    <3>4. StageInv' /\ LastInv'
      BY <3>2, <3>3 DEF StageInv, StageOf, LastInv
    <3>5. KeptInv'
      BY <1>11, <3>1 DEF KeptInv, Counts, Holding
    <3> QED BY <3>4, <3>5
  <2>2. CASE m.kind = "detach"
    <3>1. attached /\ ~cleanup
      BY <1>1, <1>2, <1>4, <2>2 DEF UpInv, RequestInv
    <3>2. PICK i \in Leases : Pc(i) = "releasing"
      BY <1>1, <1>2, <1>4, <2>2 DEF UpInv, RequestInv
    <3>3. ~cleanup' /\ (attached' <=> ~ok)
      BY <1>2, <2>2, <3>1
    <3>4. \A k \in Leases \ {i} : ~Counts(k) \/ Pc(k) = "waiting"
      <4>1. \A k \in Leases \ {i} : ~Counts(k) \/ Pc(k) \in {"waiting", "resumed"}
        BY <1>1, <1>2, <3>2 DEF UpInv, LastInv
      <4> QED BY <1>10, <4>1
    <3>5. \A k \in Leases :
            \/ k = i /\ Pc(k)' = (IF ok THEN "detached" ELSE "stuck") /\ Valid(k)'
            \/ k # i /\ Pc(k) = "waiting" /\ Pc(k)' = "resumed"
            \/ k # i /\ Pc(k) \in {"none", "over"} /\ Pc(k)' = Pc(k)
            \/ k # i /\ Pc(k) = "active" /\ Pc(k)' = Pc(k) /\ ~Valid(k)'
      BY <1>6, <1>8, <1>9, <1>10, <2>2, <3>2, <3>4
      DEF Answered, StageOf, Counts, Holding
    <3>6. StageInv'
      BY <1>4, <3>3, <3>5 DEF StageInv, StageOf
    <3>7. LastInv'
      BY <3>5 DEF LastInv, Counts, Holding
    <3>8. KeptInv'
      BY <1>11, <3>2 DEF KeptInv, Counts, Holding
    <3> QED BY <3>6, <3>7, <3>8
  <2>3. CASE m.kind = "reconcile"
    <3>1. cleanup
      BY <1>1, <1>2, <1>4, <2>3 DEF UpInv, RequestInv
    <3>2. (cleanup' <=> ~ok) /\ (ok => ~attached')
      BY <1>2, <2>3, <3>1
    <3>3. \A k \in Leases :
            \/ Pc(k) = "reconciling" /\ Pc(k)' = (IF ok THEN "reconciled" ELSE "failed")
            \/ Pc(k) \in {"none", "over"} /\ Pc(k)' = Pc(k)
            \/ Pc(k) = "active" /\ Pc(k)' = Pc(k) /\ ~Valid(k)'
      BY <1>6, <1>8, <1>9, <1>10, <2>3, <3>1 DEF Answered, StageOf
    <3>4. StageInv' /\ LastInv'
      BY <3>2, <3>3 DEF StageInv, StageOf, LastInv
    <3> QED BY <3>2, <3>4 DEF KeptInv
  <2>4. CASE m.kind = "create"
    <3>1. PICK i \in Leases : Pc(i) = "creating"
      BY <1>1, <1>2, <1>4, <2>4 DEF UpInv, RequestInv
    <3>2. ~attached /\ ~cleanup /\ \A k \in Leases \ {i} : Pc(k) = "none"
      BY <1>1, <3>1 DEF FirstInv
    <3>3. ~cleanup' /\ (attached' <=> ok)
      BY <1>2, <2>4, <3>2
    <3>4. /\ Pc(i)' = IF ok THEN "made" ELSE "over"
          /\ \A k \in Leases \ {i} : Pc(k)' = "none"
      BY <1>6, <1>13, <2>4, <3>1, <3>2 DEF Answered
    <3>5. StageInv'
      BY <3>3, <3>4 DEF StageInv, StageOf
    <3>6. LastInv'
      BY <3>4 DEF LastInv
    <3>7. KeptInv'
      BY <3>3, <3>4 DEF KeptInv
    <3> QED BY <3>5, <3>6, <3>7
  <2> QED BY <1>3, <2>1, <2>2, <2>3, <2>4 DEF Kinds
<1> QED
  BY <1>12, <1>14, <1>15, <1>16, <1>18, <1>19, <1>20, Together DEF UpInv

-----------------------------------------------------------------------------
(* The connection.                                                          *)

(* Connect keeps Leased.                                                    *)
LEMMA ConnectLeased ==
  ASSUME Leased, Connect \/ Connected
  PROVE  Leased'
<1>1. Types /\ OrderInv /\ FirstInv /\ DownInv /\ UpInv /\ NumberTypes
  BY Together DEF Types
<1>2. CASE Connect
  <2>1. /\ conn = "down" /\ conn' = "connecting" /\ attached' = FALSE
        /\ UNCHANGED <<count, exclusive, generation, cleanup, lease, pending, held, lost>>
    BY <1>2 DEF Connect
  <2>2. OrderInv' /\ FirstInv' /\ DownInv'
    BY <1>1, <2>1 DEF OrderInv, FirstInv, DownInv, Pc, Valid
  <2>3. Types'
    BY <1>1, <2>1 DEF Types, LeaseTypes, NumberTypes, StateTypes, RequestTypes
  <2> QED BY <2>1, <2>2, <2>3, NotUp, Together
<1>3. CASE Connected
  <2>1. /\ conn = "connecting" /\ conn' = "up" /\ NothingRunnable
        /\ held' = FALSE /\ lost' = FALSE
        /\ UNCHANGED <<attached, count, exclusive, generation, cleanup, lease, pending>>
    BY <1>3 DEF Connected, clientVars
  <2>2. /\ pending = {} /\ ~attached /\ ~cleanup
        /\ \A k \in Leases : /\ Pc(k) \notin Waits \cup Runnable
                             /\ Pc(k) = "active" => ~Valid(k)
                             /\ Pc(k)' = Pc(k) /\ (Valid(k)' <=> Valid(k))
    BY <1>1, <2>1 DEF DownInv, NothingRunnable, Pc, Valid
  <2>3. \A k \in Leases : ~Counts(k)'
    BY <2>2 DEF Counts, Holding, Waits, Runnable
  <2>4. OrderInv' /\ FirstInv' /\ DownInv'
    BY <1>1, <2>1, <2>2 DEF OrderInv, FirstInv, DownInv
  <2>5. StageInv' /\ RequestInv' /\ LastInv' /\ KeptInv' /\ HeldInv'
    BY <2>1, <2>2
    DEF StageInv, StageOf, RequestInv, LastInv, KeptInv, HeldInv, InFlight,
        Waits, Runnable
  <2>6. CountInv'
    <3> DEFINE L == {k \in Leases : Pc(k) \in Leaving}
    <3>1. L = {} /\ L \in SUBSET Leases
      BY <2>2 DEF Leaving, Runnable
    <3>2. Cardinality(L) = 0
      BY <3>1, Sizes
    <3>3. count <= Cardinality(L)
      BY <1>1, <2>1 DEF DownInv
    <3>4. count = 0
      BY <1>1, <3>2, <3>3, LeaseAssumption, SMT DEF NumberTypes
    <3>5. Counted' = {} /\ Counted' \in SUBSET Leases
      BY <2>3 DEF Counted
    <3>6. Cardinality(Counted') = 0
      BY <3>5, Sizes
    <3> QED BY <2>1, <2>3, <3>4, <3>6 DEF CountInv
  <2>7. Types'
    <3>1. StateTypes'
      BY <1>1, <2>1, Zenon DEF Types, StateTypes
    <3> QED BY <1>1, <2>1, <3>1 DEF Types, LeaseTypes, NumberTypes, RequestTypes
  <2> QED BY <2>4, <2>5, <2>6, <2>7, Together DEF UpInv
<1> QED BY <1>2, <1>3

(* Requests in flight are rejected when the connection is lost: whoever     *)
(* waits for one fails, and the others stay where they are.                 *)
Rejected(p) ==
  CASE p \in {"attaching", "reconciling"} -> "failed"
    [] p = "creating" -> "over"
    [] p = "releasing" -> "stuck"
    [] p = "waiting" -> "resumed"
    [] OTHER -> p

(* A lost connection rejects every request that was in flight.              *)
LEMMA DownRejects ==
  ASSUME Leased, NEW state, Down(state)
  PROVE  /\ LeaseTypes'
         /\ \A k \in Leases :
              /\ Pc(k)' = Rejected(Pc(k)) /\ lease'[k].mode = lease[k].mode
              /\ lease'[k].generation = lease[k].generation
<1>1. Types /\ DownInv /\ UpInv /\ LeaseTypes /\ RequestTypes
  BY Together DEF Types
<1>2. ASSUME NEW k \in Leases, NEW m \in pending
      PROVE  Answered(Pc(k), m.kind, FALSE) # Pc(k)
               => Answered(Pc(k), m.kind, FALSE) = Rejected(Pc(k))
  BY DEF Answered, Rejected
<1>3. ASSUME NEW k \in Leases, Rejected(Pc(k)) # Pc(k)
      PROVE  \E m \in pending : Answered(Pc(k), m.kind, FALSE) # Pc(k)
  <2>1. Pc(k) \in Waits
    BY <1>3 DEF Rejected, Waits
  <2>2. conn = "up"
    BY <1>1, <2>1 DEF DownInv
  <2>3. StageOf(k)
    BY <1>1, <2>2 DEF UpInv, StageInv
  <2> QED BY <2>1, <2>3 DEF StageOf, InFlight, Answered, Waits
<1> DEFINE Fails(k) == \E m \in pending : Answered(Pc(k), m.kind, FALSE) # Pc(k)
           first(k) == CHOOSE m \in pending : Answered(Pc(k), m.kind, FALSE) # Pc(k)
           next(k) == IF Fails(k) THEN Answered(Pc(k), first(k).kind, FALSE) ELSE Pc(k)
<1>4. \A k \in Leases : next(k) = Rejected(Pc(k))
  <2> TAKE k \in Leases
  <2>1. CASE Fails(k)
    <3>1. first(k) \in pending /\ Answered(Pc(k), first(k).kind, FALSE) # Pc(k)
      BY <2>1
    <3> QED BY <1>2, <2>1, <3>1
  <2>2. CASE ~Fails(k)
    BY <1>3, <2>2
  <2> QED BY <2>1, <2>2
<1>5. lease' = [k \in Leases |-> [lease[k] EXCEPT !.pc = next(k)]]
  BY DEF Down, Pc
<1> HIDE DEF next
<1>6. \A k \in Leases :
        /\ Pc(k)' = Rejected(Pc(k))
        /\ lease'[k].mode = lease[k].mode
        /\ lease'[k].generation = lease[k].generation
        /\ lease'[k] \in [pc : Pcs, mode : Modes, generation : Nat, disposing : BOOLEAN]
  <2> TAKE k \in Leases
  <2>1. lease[k] \in [pc : Pcs, mode : Modes, generation : Nat, disposing : BOOLEAN]
    BY <1>1 DEF LeaseTypes
  <2>2. lease'[k] = [lease[k] EXCEPT !.pc = Rejected(Pc(k))]
    BY <1>4, <1>5
  <2>3. Rejected(Pc(k)) \in Pcs
    BY <2>1 DEF Rejected, Pcs, Waits, Runnable, Pc
  <2> QED BY <2>1, <2>2, <2>3 DEF Pc
<1>7. LeaseTypes'
  BY <1>5, <1>6 DEF LeaseTypes
<1> QED BY <1>6, <1>7

(* Down keeps Leased.                                                       *)
LEMMA DownLeased ==
  ASSUME Leased, Disconnect \/ Dispose
  PROVE  Leased'
<1>1. /\ Types /\ OrderInv /\ FirstInv /\ DownInv /\ UpInv /\ LeaseTypes
      /\ generation \in Nat /\ NumberTypes
  BY Together DEF Types, NumberTypes
<1>2. PICK state \in {"down", "disposed"} : Down(state)
  BY DEF Disconnect, Dispose
<1>3. /\ conn' = state /\ attached' = FALSE /\ cleanup' = FALSE /\ held' = FALSE
      /\ pending' = {} /\ lost' = lost /\ Invalidate
  BY <1>2 DEF Down
<1>4. /\ LeaseTypes'
      /\ \A k \in Leases :
           /\ Pc(k)' = Rejected(Pc(k)) /\ lease'[k].mode = lease[k].mode
           /\ lease'[k].generation = lease[k].generation
  BY <1>2, DownRejects
<1>5. \A k \in Leases : Pc(k)' \notin Waits \cup {"answered", "made"}
                        /\ (Pc(k)' = "none" <=> Pc(k) = "none")
  <2>1. \A k \in Leases : Pc(k) \notin {"answered", "made"}
    BY DEF Disconnect, Dispose, Interruptible, At, Pc
  <2> QED BY <1>4, <2>1 DEF Rejected, Waits
<1>6. \A k \in Leases : Pc(k)' \in {"active", "stuck", "detached"} =>
                          Pc(k) \in {"active", "stuck", "detached", "releasing"}
  BY <1>4 DEF Rejected
<1>7. count' = 0 /\ exclusive' \in 0..MaxLeases /\ generation' \in Nat
      /\ generation' >= generation
  BY <1>1, <1>3, LeaseAssumption, SMT DEF Invalidate, NumberTypes, NoLease
<1>8. ASSUME NEW k \in Leases, Pc(k)' \in {"active", "stuck", "detached"}
      PROVE  ~Valid(k)'
  <2>1. lease[k].generation \in Nat /\ lease[k].generation <= generation
    BY <1>1 DEF OrderInv, LeaseTypes
  <2>2. CASE count # 0
    BY <1>1, <1>3, <1>4, <2>1, <2>2, SMT DEF Invalidate, Valid
  <2>3. CASE count = 0
    <3>1. generation' = generation
      BY <1>3, <2>3 DEF Invalidate
    <3>2. ~Valid(k)
      <4>1. CASE conn # "up"
        BY <1>1, <1>6, <1>8, <4>1 DEF DownInv, Waits
      <4>2. CASE conn = "up"
        <5>1. ~Counts(k)
          <6>1. Counted \in SUBSET Leases /\ Cardinality(Counted) = 0
            BY <1>1, <2>3, <4>2 DEF UpInv, CountInv, Counted
          <6> QED BY <6>1, Sizes DEF Counted
        <5> QED BY <1>6, <1>8, <5>1 DEF Counts, Holding
      <4> QED BY <4>1, <4>2
    <3> QED BY <1>4, <3>1, <3>2 DEF Valid
  <2> QED BY <2>2, <2>3
<1>9. DownInv'
  <2>1. count' <= Cardinality({k \in Leases : Pc(k)' \in Leaving})
    <3>1. Cardinality({k \in Leases : Pc(k)' \in Leaving}) \in 0..MaxLeases
      BY Sizes
    <3> QED BY <1>7, <3>1, LeaseAssumption, SMT
  <2> QED BY <1>3, <1>5, <1>8, <2>1 DEF DownInv
<1>10. OrderInv'
  <2>1. \A k \in Leases : lease'[k].generation <= generation'
    <3> TAKE k \in Leases
    <3>1. lease[k].generation \in Nat /\ lease[k].generation <= generation
      BY <1>1 DEF OrderInv, LeaseTypes
    <3> QED BY <1>1, <1>4, <1>7, <3>1, SMT
  <2> QED BY <1>1, <1>5, <2>1 DEF OrderInv
<1>11. FirstInv'
  BY <1>1, <1>3, <1>5 DEF FirstInv, Waits
<1>12. Types'
  <2>1. StateTypes'
    BY <1>1, <1>3, Zenon DEF Types, StateTypes
  <2>2. count' \in 0..MaxLeases
    BY <1>7, LeaseAssumption, SMT
  <2> QED BY <1>3, <1>4, <1>7, <2>1, <2>2 DEF Types, NumberTypes, RequestTypes
<1>13. conn' # "up"
  BY <1>3
<1> QED BY <1>9, <1>10, <1>11, <1>12, <1>13, NotUp, Together

-----------------------------------------------------------------------------
(* Every step, and stuttering, keeps Leased.                                *)
LEMMA NextLeased == Leased /\ [Next]_vars => Leased'
<1> SUFFICES ASSUME Leased, [Next]_vars PROVE Leased'
  OBVIOUS
<1>1. CASE UNCHANGED vars
  BY <1>1
  DEF vars, clientVars, Leased, TypeOK, OrderInv, FirstInv, DownInv, StageInv,
      StageOf, RequestInv, LastInv, KeptInv, HeldInv, CountInv, Counted, Counts,
      Pc, Valid, InFlight, NothingRunnable
<1> QED
  BY <1>1, AcquireLeased, CreateLeased, BeginReleaseLeased, ContinueLeased,
     ServeLeased, RespondLeased, ConnectLeased, DownLeased
  DEF Next

(* The leases, the count, the requests in flight and the server agree in    *)
(* every reachable state.                                                   *)
THEOREM AlwaysLeased == Spec => []Leased
  BY InitLeased, NextLeased, PTL DEF Spec

(* For any number of leases the state is typed, the count is that of the    *)
(* leases that hold or wait for the session, and an attachment is never in  *)
(* flight together with a detachment.                                       *)
THEOREM LeasesConsistent == Spec => []Consistent
<1>1. Leased => Consistent
  <2> SUFFICES ASSUME Leased PROVE CountsMatch /\ NeverCross
    BY Together, TypesSplit DEF Consistent
  <2>1. Types /\ DownInv /\ UpInv
    BY Together
  <2>2. NeverCross
    <3>1. CASE conn = "up"
      BY <2>1, <3>1 DEF NeverCross, UpInv, RequestInv
    <3>2. CASE conn # "up"
      BY <2>1, <3>2 DEF NeverCross, DownInv, InFlight
    <3> QED BY <3>1, <3>2
  <2>3. CountsMatch
    <3> SUFFICES ASSUME Quiet
                 PROVE  count = Cardinality({k \in Leases :
                                  \/ lease[k].pc \in Waits \ {"creating"}
                                  \/ lease[k].pc = "active" /\ Valid(k)})
      BY DEF CountsMatch
    <3>1. \A k \in Leases : Counts(k) <=>
              \/ lease[k].pc \in Waits \ {"creating"}
              \/ lease[k].pc = "active" /\ Valid(k)
      BY DEF Quiet, NothingRunnable, Counts, Holding, Pc, Waits, Runnable
    <3>2. Counted = {k \in Leases :
              \/ lease[k].pc \in Waits \ {"creating"}
              \/ lease[k].pc = "active" /\ Valid(k)}
      BY <3>1 DEF Counted
    <3> QED BY <2>1, <3>2 DEF Quiet, UpInv, CountInv
  <2> QED BY <2>2, <2>3
<1> QED BY <1>1, AlwaysLeased, PTL

(* While an exclusive lease is active no other one is, however releases     *)
(* fail, sessions are reconciled and connections lost.                      *)
THEOREM ExclusiveAlone == Spec => []ExclusiveExcludes
<1>1. Leased => ExclusiveExcludes
  <2> SUFFICES ASSUME Leased, NEW k \in Leases, NEW j \in Leases, k # j,
                      Active(k), Active(j)
               PROVE  lease[k].mode = "shared"
    BY DEF ExclusiveExcludes
  <2>1. LeaseTypes /\ UpInv /\ conn = "up" /\ Counts(k) /\ Counts(j)
    BY Together DEF Types, Active, Counts, Pc
  <2>2. lease[k].mode # "exclusive"
    BY <2>1 DEF UpInv, CountInv
  <2>3. lease[k].mode \in Modes
    BY <2>1 DEF LeaseTypes
  <2> QED BY <2>2, <2>3 DEF Modes
<1> QED BY <1>1, AlwaysLeased, PTL

(* What an active lease stands for is attached on the server, and nothing   *)
(* stays attached after the last one has gone unless a cleanup is owed: if  *)
(* the server does what it says.                                            *)
THEOREM LeasedIsHeld == Spec => []HeldIfLeased
<1>1. Leased => HeldIfLeased
  <2> SUFFICES ASSUME Leased, ~lost
               PROVE  /\ (\E k \in Leases : Active(k)) => held
                      /\ Unleased => ~held
    BY DEF HeldIfLeased
  <2>1. RequestTypes /\ LeaseTypes /\ UpInv
    BY Together DEF Types
  <2>2. ASSUME NEW k \in Leases, Active(k) PROVE held
    <3>1. conn = "up" /\ attached /\ ~cleanup /\ Counts(k) /\ Pc(k) = "active"
      BY <2>1, <2>2 DEF Active, UpInv, StageInv, StageOf, Counts, Pc
    <3>2. ~InFlight("detach") /\ ~InFlight("reconcile")
      BY <2>1, <3>1 DEF UpInv, RequestInv, LastInv
    <3>3. \A m \in pending : m.kind \in {"create", "attach"}
      BY <2>1, <3>2 DEF RequestTypes, InFlight, Kinds
    <3>4. CASE \E m \in pending : m.outcome = "ok"
      BY <2>1, <3>1, <3>3, <3>4 DEF UpInv, HeldInv
    <3>5. CASE \A m \in pending : m.outcome # "ok"
      BY <2>1, <3>1, <3>5 DEF UpInv, HeldInv
    <3> QED BY <3>4, <3>5
  <2>3. ASSUME Unleased PROVE ~held
    <3>1. /\ conn = "up" /\ NothingRunnable /\ pending = {} /\ ~cleanup
          /\ \A k \in Leases : Pc(k) \in {"none", "over"} \/ ~Valid(k)
      BY <2>3 DEF Unleased, Quiet, Pc
    <3>2. \A k \in Leases : ~Counts(k) /\ Pc(k) # "made"
      <4> TAKE k \in Leases
      <4>1. StageOf(k) /\ Pc(k) \notin Runnable
        BY <2>1, <3>1 DEF UpInv, StageInv, NothingRunnable, Pc
      <4> QED BY <3>1, <4>1 DEF StageOf, InFlight, Counts, Holding, Runnable
    <3>3. ~attached
      BY <2>1, <3>1, <3>2 DEF UpInv, KeptInv
    <3> QED BY <2>1, <3>1, <3>3 DEF UpInv, HeldInv
  <2> QED BY <2>2, <2>3
<1> QED BY <1>1, AlwaysLeased, PTL
=============================================================================

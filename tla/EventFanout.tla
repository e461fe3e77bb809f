---------------------------- MODULE EventFanout -----------------------------
(***************************************************************************)
(* How the events of one agent reach its clients (_emit, subscribe and     *)
(* unsubscribe of AgentBridge, _sse of VertusHandler).                     *)
(*                                                                         *)
(* Every client has a bounded queue and an HTTP thread that writes what it *)
(* finds there to the client.  Several threads emit: the worker and the    *)
(* readers of the engine sessions, current and former.  Nothing is locked: *)
(* an emitter walks over a copy of the list of subscribers, and removing a *)
(* subscriber first looks whether it is in the list and then removes it.   *)
(***************************************************************************)
EXTENDS Naturals, Sequences, SequencesExt

CONSTANTS
  Clients,     \* clients, each with its SSE thread and queue
  Emitters,    \* threads that emit
  Capacity,    \* maxsize of a queue (1000 in the code)
  MaxEvents,   \* for each emitter, a bound on its events
  Leavers      \* the clients that may go away

ASSUME FanoutAssumption ==
  /\ Capacity \in Nat \ {0}
  /\ MaxEvents \in [Emitters -> Nat]
  /\ Leavers \subseteq Clients

VARIABLES
  subscribers, \* the list of subscribed queues, named by their clients
  queue,       \* what each queue holds
  seen,        \* what each client was sent
  spc,         \* where each SSE thread is
  count,       \* number of events each emitter has begun to emit
  rest,        \* what its copy of the list has left to serve
  removing,    \* is each emitter between its look at the list and remove()?
  owed,        \* history: the events that were emitted to each client
  cut          \* history: the events whose emission an exception has ended

fanoutVars == <<subscribers, queue, seen, spc, count, rest, removing, owed, cut>>

Events == UNION {{e} \X (1..MaxEvents[e]) : e \in Emitters}
Event(e) == <<e, count[e]>>

FanoutTypeOK ==
  /\ subscribers \in Seq(Clients)
  /\ queue \in [Clients -> Seq(Events)]
  /\ \A c \in Clients : Len(queue[c]) <= Capacity
  /\ seen \in [Clients -> Seq(Events)]
  /\ spc \in [Clients -> {"new", "open", "leave", "remove", "closed"}]
  /\ \A e \in Emitters : count[e] \in 0..MaxEvents[e]
  /\ rest \in [Emitters -> Seq(Clients)]
  /\ removing \in [Emitters -> BOOLEAN]
  /\ owed \in [Clients -> SUBSET Events]
  /\ cut \subseteq Events

FanoutInit ==
  /\ subscribers = <<>>
  /\ queue = [c \in Clients |-> <<>>]
  /\ seen = [c \in Clients |-> <<>>]
  /\ spc = [c \in Clients |-> "new"]
  /\ count = [e \in Emitters |-> 0]
  /\ rest = [e \in Emitters |-> <<>>]
  /\ removing = [e \in Emitters |-> FALSE]
  /\ owed = [c \in Clients |-> {}]
  /\ cut = {}

emitVars == <<count, rest, removing, owed, cut>>
sseVars == <<seen, spc>>

Without(c) == RemoveFirst(subscribers, c)

-----------------------------------------------------------------------------
(* The SSE threads.                                                         *)

Subscribe(c) ==
  /\ spc[c] = "new"
  /\ subscribers' = Append(subscribers, c)
  /\ spc' = [spc EXCEPT ![c] = "open"]
  /\ UNCHANGED <<queue, seen, emitVars>>

Send(c) ==
  /\ spc[c] = "open" /\ queue[c] # <<>>
  /\ queue' = [queue EXCEPT ![c] = Tail(@)]
  /\ seen' = [seen EXCEPT ![c] = Append(@, Head(queue[c]))]
  /\ UNCHANGED <<subscribers, spc, emitVars>>

(* A write to the client fails.                                             *)
Disconnect(c) ==
  /\ c \in Leavers
  /\ spc[c] = "open"
  /\ spc' = [spc EXCEPT ![c] = "leave"]
  /\ UNCHANGED <<subscribers, queue, seen, emitVars>>

(* unsubscribe, in the finally clause: the look and the removal.            *)
LeaveSubscribed(c) ==
  /\ spc[c] = "leave"
  /\ spc' = [spc EXCEPT ![c] = "closed"]
  /\ UNCHANGED <<subscribers, queue, seen, emitVars>>

Leave(c) ==
  /\ spc[c] = "leave"
  /\ spc' = [spc EXCEPT
               ![c] = IF Contains(subscribers, c) THEN "remove" ELSE "closed"]
  /\ UNCHANGED <<subscribers, queue, seen, emitVars>>

(* remove() raises when the queue is gone; this thread ends all the same.   *)
Unsubscribe(c) ==
  /\ spc[c] = "remove"
  /\ subscribers' = Without(c)
  /\ spc' = [spc EXCEPT ![c] = "closed"]
  /\ UNCHANGED <<queue, seen, emitVars>>

-----------------------------------------------------------------------------
(* The emitters.                                                            *)

Emit(e) ==
  /\ rest[e] = <<>> /\ count[e] < MaxEvents[e]
  /\ count' = [count EXCEPT ![e] = @ + 1]
  /\ rest' = [rest EXCEPT ![e] = subscribers]
  /\ owed' = [c \in Clients |->
                IF Contains(subscribers, c)
                THEN owed[c] \cup {<<e, count'[e]>>} ELSE owed[c]]
  /\ UNCHANGED <<subscribers, queue, sseVars, removing, cut>>

GoOnStops(e) == rest' = [rest EXCEPT ![e] = <<>>]
GoOn(e) == rest' = [rest EXCEPT ![e] = Tail(@)]

(* put_nowait; a full queue is unsubscribed if it still is in the list.     *)
PutDropping(e) ==
  /\ rest[e] # <<>> /\ ~removing[e]
  /\ LET c == Head(rest[e]) IN
       queue' = IF Len(queue[c]) < Capacity
                THEN [queue EXCEPT ![c] = Append(@, Event(e))] ELSE queue
  /\ GoOn(e)
  /\ UNCHANGED <<subscribers, sseVars, count, removing, owed, cut>>

Put(e) ==
  /\ rest[e] # <<>> /\ ~removing[e]
  /\ LET c == Head(rest[e]) IN
     \/ /\ Len(queue[c]) < Capacity
        /\ queue' = [queue EXCEPT ![c] = Append(@, Event(e))]
        /\ GoOn(e)
        /\ UNCHANGED removing
     \/ /\ Len(queue[c]) = Capacity /\ Contains(subscribers, c)
        /\ removing' = [removing EXCEPT ![e] = TRUE]
        /\ UNCHANGED <<queue, rest>>
     \/ /\ Len(queue[c]) = Capacity /\ ~Contains(subscribers, c)
        /\ GoOn(e)
        /\ UNCHANGED <<queue, removing>>
  /\ UNCHANGED <<subscribers, sseVars, count, owed, cut>>

(* remove() raises when another thread was faster: _emit ends there, and    *)
(* the clients it has not come to do not get the event.                     *)
Drop(e) ==
  /\ removing[e]
  /\ LET c == Head(rest[e]) IN
     \/ /\ Contains(subscribers, c)
        /\ subscribers' = Without(c)
        /\ GoOn(e)
        /\ UNCHANGED cut
     \/ /\ ~Contains(subscribers, c)
        /\ rest' = [rest EXCEPT ![e] = <<>>]
        /\ cut' = cut \cup {Event(e)}
        /\ UNCHANGED subscribers
  /\ removing' = [removing EXCEPT ![e] = FALSE]
  /\ UNCHANGED <<queue, sseVars, count, owed>>

-----------------------------------------------------------------------------

Serve(c) == Send(c) \/ Leave(c) \/ Unsubscribe(c)
Proceed(e) == Put(e) \/ Drop(e)

FanoutNext ==
  \/ \E c \in Clients : Subscribe(c) \/ Disconnect(c) \/ Serve(c)
  \/ \E e \in Emitters : Emit(e) \/ Proceed(e)

(* The threads run; whether there are clients and events is not up to them. *)
FanoutSpec ==
  /\ FanoutInit /\ [][FanoutNext]_fanoutVars
  /\ \A c \in Clients : WF_fanoutVars(Serve(c))
  /\ \A e \in Emitters : WF_fanoutVars(Proceed(e))

-----------------------------------------------------------------------------
(* Properties.                                                              *)

(* What client c has received or will receive.                              *)
Stream(c) == seen[c] \o queue[c]

(* A client sees the events of a thread in the order of their emission and  *)
(* without a gap: one that has missed an event, its queue being full, is    *)
(* sent nothing any more.  The exception is an event whose emission has     *)
(* ended in a ValueError, which any client may miss.                        *)
NoGap ==
  \A c \in Clients : LET s == Stream(c) IN
    \A j, k \in DOMAIN s : j < k /\ s[j][1] = s[k][1] =>
      /\ s[j][2] < s[k][2]
      /\ \A i \in s[j][2]..s[k][2] :
           Contains(s, <<s[j][1], i>>) \/ <<s[j][1], i>> \in cut

(* No queue stays subscribed once its thread has ended: nobody would ever   *)
(* empty it.                                                                *)
NoOrphan == \A c \in Clients : spc[c] = "closed" => ~Contains(subscribers, c)

(* An event reaches every client that was subscribed when it was emitted,   *)
(* unless the client leaves, its queue overflows, or the emission ends in a *)
(* ValueError: nobody else's slowness or departure costs it an event.       *)
EveryEventArrives ==
  \A c \in Clients, ev \in Events :
    ev \in owed[c]
      ~> \/ Contains(seen[c], ev)
         \/ spc[c] # "open" \/ ~Contains(subscribers, c)
         \/ ev \in cut

(* The state is typed, and the list of subscribers is that of the streams   *)
(* (vertus_server.py 112-126).                                              *)
Consistent == FanoutTypeOK /\ NoOrphan
=============================================================================

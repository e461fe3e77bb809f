--------------------------- MODULE SessionLeases ----------------------------
(***************************************************************************)
(* The leases a PiClient gives out on one remote session, shared ones or a *)
(* single exclusive one (packages/client/src/client.ts), over a connection *)
(* that may be lost and made again (connection.ts) to a server that        *)
(* answers requests in any order and may fail them.                        *)
(*                                                                         *)
(* Responses are handled as they come, several of them in one chunk; what  *)
(* awaits a response goes on later.  A connection is made again only after *)
(* that.  Assumed of the listeners: the one of an event in the same chunk  *)
(* as the response that grants a lease does not call disconnect(), which   *)
(* would put the lease into the generation after its own.                  *)
(***************************************************************************)
EXTENDS Naturals, FiniteSets

CONSTANTS
  MaxLeases    \* bound on the leases ever asked for

ASSUME LeaseAssumption == MaxLeases \in Nat

Leases == 1..MaxLeases
Modes == {"shared", "exclusive"}
NoLease == 0

VARIABLES
  conn,        \* state of the connection; "disposed" if the client is
  attached,    \* isSessionAttached
  count,       \* #sessionLeaseCounts
  exclusive,   \* #exclusiveSessionLeases: the lease whose token it is
  generation,  \* #sessionLeaseGenerations
  cleanup,     \* #sessionCleanupRequired
  lease,       \* each lease: where its call is, mode and generation
  pending,     \* requests in flight, with what the server has made of them
  held,        \* whether the connection is attached on the server
  lost         \* history: the server has failed a request it had carried out

clientVars == <<attached, count, exclusive, generation, cleanup, lease>>
vars == <<conn, clientVars, pending, held, lost>>

Kinds == {"create", "attach", "detach", "reconcile"}

(* pc of a lease: "none"; a call in progress, waiting for a detachment, a   *)
(* reconciliation, an attachment or a creation; what has come of it, to be  *)
(* taken up ("resumed", "reconciled", "answered", "failed"); "active" or on *)
(* its way to be released; or over.                                         *)
Waits == {"waiting", "reconciling", "attaching", "creating", "releasing"}
Runnable == {"resumed", "reconciled", "answered", "failed", "made", "detached", "stuck"}

TypeOK ==
  /\ conn \in {"down", "connecting", "up", "disposed"}
  /\ attached \in BOOLEAN /\ held \in BOOLEAN
  /\ count \in 0..MaxLeases /\ exclusive \in 0..MaxLeases
  /\ generation \in Nat /\ cleanup \in BOOLEAN
  /\ lease \in [Leases ->
       [pc : {"none", "active", "over"} \cup Waits \cup Runnable,
        mode : Modes, generation : Nat, disposing : BOOLEAN]]
  /\ pending \subseteq [kind : Kinds, outcome : {"sent", "ok", "error"}]
  /\ lost \in BOOLEAN

Init ==
  /\ conn = "down" /\ attached = FALSE
  /\ count = 0 /\ exclusive = NoLease /\ generation = 0 /\ cleanup = FALSE
  /\ lease = [k \in Leases |-> [pc |-> "none", mode |-> "shared",
                                generation |-> 0, disposing |-> FALSE]]
  /\ pending = {} /\ held = FALSE /\ lost = FALSE

NothingRunnable == \A k \in Leases : lease[k].pc \notin Runnable
At(pc) == {k \in Leases : lease[k].pc = pc}
InFlight(kind) == \E m \in pending : m.kind = kind
Send(kind) == pending' = pending \cup {[kind |-> kind, outcome |-> "sent"]}

(* A lease is active as long as it is of the current generation and the     *)
(* session is attached.                                                     *)
Valid(k) == lease[k].generation = generation
Active(k) == lease[k].pc = "active" /\ Valid(k) /\ attached /\ conn = "up"

-----------------------------------------------------------------------------
(* acquireSession.                                                          *)

(* #reserveSessionLease refuses; nothing has happened.                      *)
RefusedExclusive(mode) == mode = "exclusive" /\ count > 0
Refused(mode) ==
  (mode = "exclusive" /\ count > 0) \/ (mode = "shared" /\ exclusive # NoLease)

(* #releaseSessionLease, of lease k.                                        *)
Release(k) ==
  /\ count' = IF count <= 1 THEN 0 ELSE count - 1
  /\ exclusive' = IF exclusive = k THEN NoLease ELSE exclusive

Become(k, pc) == lease' = [lease EXCEPT ![k].pc = pc]

(* #createSessionLease, in the generation there is now.                     *)
Grant(k) == lease' = [lease EXCEPT ![k].pc = "active",
                                   ![k].generation = generation]

(* The part of acquireSession after the wait for a detachment: reconcile a  *)
(* failed cleanup, attach if that is needed, or take the lease at once.     *)
(* Leases that need the same request share it.                              *)
Proceed(k, l) ==
  \/ /\ cleanup /\ conn = "up"
     /\ lease' = [l EXCEPT ![k].pc = "reconciling"]
     /\ IF InFlight("reconcile") THEN UNCHANGED pending ELSE Send("reconcile")
  \/ /\ ~cleanup /\ ~attached /\ conn = "up"
     /\ lease' = [l EXCEPT ![k].pc = "attaching"]
     /\ IF InFlight("attach") THEN UNCHANGED pending ELSE Send("attach")
  \/ /\ ~cleanup /\ attached
     /\ lease' = [l EXCEPT ![k].pc = "active", ![k].generation = generation]
     /\ UNCHANGED pending
  \/ /\ conn # "up" /\ (cleanup \/ ~attached)
     /\ lease' = [l EXCEPT ![k].pc = "failed"]
     /\ UNCHANGED pending

(* #sessionDetachments has an entry, until the releaser goes on.            *)
Detaching == InFlight("detach") \/ At("detached") \cup At("stuck") # {}

Acquire(k, mode) ==
  /\ lease[k].pc = "none" /\ \A j \in Leases : j < k => lease[j].pc # "none"
  /\ conn # "disposed" /\ ~Refused(mode) /\ At("creating") = {}
  /\ count' = count + 1
  /\ exclusive' = IF mode = "exclusive" THEN k ELSE exclusive
  /\ LET l == [lease EXCEPT ![k].mode = mode] IN
       IF Detaching
       THEN /\ lease' = [l EXCEPT ![k].pc =
                           IF InFlight("detach") THEN "waiting" ELSE "resumed"]
            /\ UNCHANGED pending
       ELSE Proceed(k, l)
  /\ UNCHANGED <<conn, attached, generation, cleanup, held, lost>>

(* The releaser goes on before those who wait for its detachment.           *)
Resume(k) ==
  /\ lease[k].pc = "resumed" /\ At("detached") \cup At("stuck") = {}
  /\ Proceed(k, lease)
  /\ UNCHANGED <<conn, attached, count, exclusive, generation, cleanup, held,
                 lost>>

(* After a reconciliation the session is attached to again in any case.     *)
Reattach(k) ==
  /\ lease[k].pc = "reconciled"
  /\ IF conn = "up"
     THEN /\ Become(k, "attaching")
          /\ IF InFlight("attach") THEN UNCHANGED pending ELSE Send("attach")
     ELSE Become(k, "failed") /\ UNCHANGED pending
  /\ UNCHANGED <<conn, attached, count, exclusive, generation, cleanup, held,
                 lost>>

Finish(k) ==
  /\ lease[k].pc = "answered"
  /\ Grant(k)
  /\ UNCHANGED <<conn, attached, count, exclusive, generation, cleanup, pending,
                 held, lost>>

GiveUpKeeps(k) ==
  /\ lease[k].pc = "failed"
  /\ Become(k, "over")
  /\ UNCHANGED <<conn, attached, count, exclusive, generation, cleanup, pending,
                 held, lost>>
GiveUp(k) ==
  /\ lease[k].pc = "failed"
  /\ Release(k)
  /\ Become(k, "over")
  /\ UNCHANGED <<conn, attached, generation, cleanup, pending, held, lost>>

-----------------------------------------------------------------------------
(* createSession: the lease is reserved when the response has come.         *)

Create(k) ==
  /\ k = 1 /\ lease[k].pc = "none" /\ conn = "up"
  /\ lease' = [lease EXCEPT ![k].pc = "creating", ![k].mode = "exclusive"]
  /\ Send("create")
  /\ UNCHANGED <<conn, attached, count, exclusive, generation, cleanup, held,
                 lost>>

FinishCreate(k) ==
  /\ lease[k].pc = "made"
  /\ IF Refused("exclusive")
     THEN Become(k, "over") /\ UNCHANGED <<count, exclusive>>
     ELSE /\ count' = count + 1 /\ exclusive' = k
          /\ Grant(k)
  /\ UNCHANGED <<conn, attached, generation, cleanup, pending, held, lost>>

-----------------------------------------------------------------------------
(* detach() and dispose() of a lease.                                       *)

LastLease == count <= 1

BeginRelease(k, disposing) ==
  /\ lease[k].pc = "active"
  /\ \/ /\ ~Valid(k)                       \* invalidated: nothing to do
        /\ Become(k, "over")
        /\ UNCHANGED <<count, exclusive, pending>>
     \/ /\ Active(k) /\ ~LastLease
        /\ Release(k)
        /\ Become(k, "over")
        /\ UNCHANGED pending
     \/ /\ Active(k) /\ LastLease
        /\ lease' = [lease EXCEPT ![k].pc = "releasing", ![k].disposing = disposing]
        /\ Send("detach")
        /\ UNCHANGED <<count, exclusive>>
  /\ UNCHANGED <<conn, attached, generation, cleanup, held, lost>>

Released(k) ==
  /\ lease[k].pc = "detached"
  /\ Release(k)
  /\ Become(k, "over")
  /\ UNCHANGED <<conn, attached, generation, cleanup, pending, held, lost>>

(* A failed detach() makes the lease active again; a failed dispose() gives *)
(* it up, and leaves the server to the next acquisition.                    *)
ReleaseFailedForgets(k) ==
  /\ lease[k].pc = "stuck"
  /\ IF Valid(k) /\ lease[k].disposing
     THEN Release(k) /\ Become(k, "over")
     ELSE Become(k, IF Valid(k) THEN "active" ELSE "over") /\ UNCHANGED <<count, exclusive>>
  /\ UNCHANGED <<conn, attached, generation, cleanup, pending, held, lost>>

ReleaseFailed(k) ==
  /\ lease[k].pc = "stuck"
  /\ \/ /\ ~Valid(k)
        /\ Become(k, "over")
        /\ UNCHANGED <<count, exclusive, cleanup>>
     \/ /\ Valid(k) /\ lease[k].disposing
        /\ Release(k)
        /\ cleanup' = TRUE
        /\ Become(k, "over")
     \/ /\ Valid(k) /\ ~lease[k].disposing
        /\ Become(k, "active")
        /\ UNCHANGED <<count, exclusive, cleanup>>
  /\ UNCHANGED <<conn, attached, generation, pending, held, lost>>

-----------------------------------------------------------------------------
(* The server: it carries a request out, or fails it before or after.  What *)
(* can go on in the client does so before requests it has sent are served.  *)

Serve(m) ==
  /\ m \in pending /\ m.outcome = "sent" /\ conn = "up" /\ NothingRunnable
  /\ \E outcome \in {"ok", "error"}, done \in BOOLEAN :
       /\ outcome = "ok" => done
       /\ pending' = (pending \ {m}) \cup {[m EXCEPT !.outcome = outcome]}
       /\ held' = IF done THEN m.kind \in {"create", "attach"} ELSE held
       /\ lost' = (outcome = "error" /\ (done \/ lost))
  /\ UNCHANGED <<conn, clientVars>>

(* What the callers that wait for a request of this kind do next.           *)
AnsweredOnce(pc, kind, ok) ==
  CASE kind = "attach" /\ pc = "attaching" -> IF ok THEN "answered" ELSE "failed"
    [] kind = "create" /\ pc = "creating" -> IF ok THEN "made" ELSE "over"
    [] kind = "reconcile" /\ pc = "reconciling" -> IF ok THEN "reconciled" ELSE "failed"
    [] kind = "detach" /\ pc = "releasing" -> IF ok THEN "detached" ELSE "stuck"
    [] kind = "detach" /\ pc = "waiting" /\ ok -> "resumed"
    [] OTHER -> pc

Answered(pc, kind, ok) ==
  CASE kind = "attach" /\ pc = "attaching" -> IF ok THEN "answered" ELSE "failed"
    [] kind = "create" /\ pc = "creating" -> IF ok THEN "made" ELSE "over"
    [] kind = "reconcile" /\ pc = "reconciling" -> IF ok THEN "reconciled" ELSE "failed"
    [] kind = "detach" /\ pc = "releasing" -> IF ok THEN "detached" ELSE "stuck"
    [] kind = "detach" /\ pc = "waiting" -> "resumed"
    [] OTHER -> pc

(* #handleMessage: applyResult, and the promise of the request.             *)
Respond(m) ==
  /\ m \in pending /\ m.outcome # "sent" /\ conn = "up"
  /\ LET ok == m.outcome = "ok" IN
     /\ lease' = [k \in Leases |->
          [lease[k] EXCEPT !.pc = Answered(@, m.kind, ok)]]
     /\ attached' = IF ok THEN m.kind \in {"create", "attach"} ELSE attached
     /\ cleanup' = (cleanup /\ ~(ok /\ m.kind = "reconcile"))
  /\ pending' = pending \ {m}
  /\ UNCHANGED <<conn, count, exclusive, generation, held, lost>>

-----------------------------------------------------------------------------
(* The connection.                                                          *)

Connect ==
  /\ conn = "down" /\ conn' = "connecting"
  /\ attached' = FALSE
  /\ UNCHANGED <<count, exclusive, generation, cleanup, lease, pending, held,
                 lost>>

Connected ==
  /\ conn = "connecting" /\ conn' = "up" /\ NothingRunnable
  /\ held' = FALSE /\ lost' = FALSE
  /\ UNCHANGED <<clientVars, pending>>

(* #handleConnectionStateChange: the leases are invalidated, if the client  *)
(* counts any, and the requests in flight rejected.                         *)
Invalidate ==
  IF count = 0 THEN UNCHANGED <<count, exclusive, generation>>
  ELSE count' = 0 /\ exclusive' = NoLease /\ generation' = generation + 1

Down(state) ==
  /\ conn' = state
  /\ attached' = FALSE /\ cleanup' = FALSE
  /\ Invalidate
  /\ lease' = [k \in Leases |-> [lease[k] EXCEPT !.pc =
       IF \E m \in pending : Answered(@, m.kind, FALSE) # @
       THEN Answered(@, (CHOOSE m \in pending : Answered(@, m.kind, FALSE) # @).kind, FALSE)
       ELSE @]]
  /\ pending' = {}
  /\ held' = FALSE
  /\ UNCHANGED lost

Interruptible == At("answered") \cup At("made") = {}
Disconnect == conn \in {"connecting", "up"} /\ Interruptible /\ Down("down")
Dispose == conn # "disposed" /\ Interruptible /\ Down("disposed")

-----------------------------------------------------------------------------

Continue(k) ==
  Resume(k) \/ Reattach(k) \/ Finish(k) \/ GiveUp(k) \/ FinishCreate(k)
    \/ Released(k) \/ ReleaseFailed(k)

Next ==
  \/ \E k \in Leases :
       \/ \E mode \in Modes : Acquire(k, mode)
       \/ Create(k)
       \/ \E disposing \in BOOLEAN : BeginRelease(k, disposing)
       \/ Continue(k)
  \/ \E m \in pending : Serve(m) \/ Respond(m)
  \/ Connect \/ Connected \/ Disconnect \/ Dispose

(* What can go on does; a connected server answers every request.           *)
Spec ==
  /\ Init /\ [][Next]_vars
  /\ \A k \in Leases : WF_vars(Continue(k))
  /\ \A kind \in Kinds :
       /\ WF_vars(\E m \in pending : m.kind = kind /\ Serve(m))
       /\ WF_vars(\E m \in pending : m.kind = kind /\ Respond(m))
-----------------------------------------------------------------------------
(* Properties.                                                              *)

(* While an exclusive lease is active no other lease of the session is,     *)
(* through failing releases, reconciliations and lost connections.          *)
ExclusiveExcludes == \A k, j \in Leases :
  k # j /\ Active(k) /\ Active(j) => lease[k].mode = "shared"

(* The count of leases is that of those who hold or wait for one: a wrong   *)
(* one would lock the session for ever, or detach it under a lease.         *)
Quiet == conn = "up" /\ NothingRunnable
CountsMatch ==
  Quiet =>
    count = Cardinality({k \in Leases :
              \/ lease[k].pc \in Waits \ {"creating"}
              \/ lease[k].pc = "active" /\ Valid(k)})

(* An attachment and a detachment are never under way together: the server  *)
(* runs requests concurrently, and either could win.                        *)
NeverCross ==
  ~(InFlight("attach") /\ (InFlight("detach") \/ InFlight("reconcile")))

(* The state is typed, the counts are right, and no requests cross          *)
(* (client.ts 150-180, 239-270, 360-380).                                   *)
Consistent == TypeOK /\ CountsMatch /\ NeverCross

(* What an active lease stands for is attached on the server, and once the  *)
(* final lease is released nothing stays attached that no cleanup is owed   *)
(* for: unless the server has reported as failed what it had carried out.   *)
Unleased ==
  /\ Quiet /\ pending = {} /\ ~cleanup
  /\ \A k \in Leases : lease[k].pc \in {"none", "over"} \/ ~Valid(k)
HeldIfLeased ==
  ~lost => /\ (\E k \in Leases : Active(k)) => held
           /\ Unleased => ~held

(* Every acquisition, release and creation returns.                         *)
EveryCallReturns ==
  \A k \in Leases :
    lease[k].pc \in Waits \cup Runnable ~> lease[k].pc \in {"active", "over"}
=============================================================================

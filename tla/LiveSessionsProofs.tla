------------------------- MODULE LiveSessionsProofs -------------------------
(***************************************************************************)
(* Proofs about LiveSessions, for any connections, sessions, runtimes and  *)
(* requests: a session has one runtime, which is disposed of when it is    *)
(* unused, not before and not much later, and only those attached to it    *)
(* are told of its events.                                                 *)
(***************************************************************************)
EXTENDS LiveSessions, FiniteSetTheorems, TLAPS

-----------------------------------------------------------------------------
(* The inductive invariant.                                                 *)

Stage(r) == runtime[r].stage
Held(r) == Stage(r) \notin {"none", "over"}

(* A session has one runtime at most; each map has those in its stages, and *)
(* loses them only when they are over or the server has closed.             *)
MapInv ==
  /\ \A r, o \in Runtimes :
       Held(r) /\ Held(o) /\ runtime[r].of = runtime[o].of => r = o
  /\ \A s \in Sessions : openingSessions[s] # 0 =>
       Opening(openingSessions[s]) /\ runtime[openingSessions[s]].of = s
  /\ \A s \in Sessions : liveSessions[s] # 0 =>
       /\ Stage(liveSessions[s]) \in {"live", "disposing"}
       /\ runtime[liveSessions[s]].of = s
  /\ \A r \in Runtimes :
       /\ Opening(r) => openingSessions[runtime[r].of] = r
       /\ Stage(r) \in {"live", "disposing"} /\ server # "closed" =>
            liveSessions[runtime[r].of] = r

(* A runtime that is being opened has no connections yet, and a request     *)
(* waits for it.                                                            *)
OpenInv == \A r \in Runtimes :
  /\ Stage(r) = "none" \/ Opening(r) => runtime[r].connections = {}
  /\ Opening(r) => \E q \in Requests : request[q].pc = "opening" /\ request[q].live = r

(* What a request knows of its runtime.                                     *)
RequestOf(q) ==
  /\ request[q].pc \in {"opening", "wait", "acquired", "detached", "operating"} =>
       /\ request[q].live \in Runtimes /\ Stage(request[q].live) # "none"
       /\ request[q].of = runtime[request[q].live].of
  /\ request[q].pc \in {"acquired", "detached", "operating"} =>
       ~Opening(request[q].live)
RequestInv == \A q \in Requests : RequestOf(q)

(* The operations of a runtime are counted.                                 *)
Operations(r) ==
  {q \in Requests : request[q].pc = "operating" /\ request[q].live = r}
CountInv == \A r \in Runtimes : runtime[r].operations = Cardinality(Operations(r))

(* The last stages of close() find all connections gone.                    *)
GoneInv == server \in {"disposing", "closed"} => \A c \in Conns : conn[c] = "gone"

Mapped == TypeOK /\ MapInv /\ OpenInv /\ RequestInv /\ CountInv
Attached == GoneInv /\ ToldOnlyIfAttached /\ NotTooEarly /\ NotTooLate

-----------------------------------------------------------------------------
(* Types.                                                                   *)

RuntimeRecord ==
  [stage : {"none", "acquiring", "reading", "live", "abandoned", "disposing", "over"},
   of : Sessions, connections : SUBSET Conns,
   operations : 0..MaxRequests, terminal : BOOLEAN, busy : BOOLEAN]
RequestRecord ==
  [pc : {"none", "opening", "wait", "acquired", "answer", "operating",
         "detached", "done"},
   from : Conns, of : Sessions, live : 0..MaxRuntimes]

ConnTypes ==
  /\ conn \in [Conns -> {"ready", "failing", "gone"}]
  /\ sessionIds \in [Conns -> SUBSET Sessions]
ServerTypes ==
  /\ liveSessions \in [Sessions -> 0..MaxRuntimes]
  /\ openingSessions \in [Sessions -> 0..MaxRuntimes]
  /\ server \in {"open", "closing", "draining", "disposing", "closed"}
  /\ closeWaits \subseteq Runtimes
RuntimeTypes == runtime \in [Runtimes -> RuntimeRecord]
RequestTypes == request \in [Requests -> RequestRecord]
Types == ConnTypes /\ ServerTypes /\ RuntimeTypes /\ RequestTypes

(* The type invariant, in groups.                                           *)
LEMMA TypesSplit == (TypeOK <=> Types) /\ (TypeOK' <=> Types')
  BY DEF TypeOK, Types, ConnTypes, ServerTypes, RuntimeTypes, RequestTypes,
         RuntimeRecord, RequestRecord

(* Runtimes and requests are numbered from 1.                               *)
LEMMA Numbers ==
  /\ 0 \notin Runtimes /\ Runtimes = 0..MaxRuntimes \ {0}
  /\ 0 \in 0..MaxRuntimes /\ 0 \in 0..MaxRequests
  BY LiveAssumption, SMT DEF Runtimes

(* Sets of requests are finite, and one request more or less makes a        *)
(* difference of one.                                                       *)
LEMMA Sizes ==
  /\ \A S \in SUBSET Requests :
       IsFiniteSet(S) /\ Cardinality(S) \in 0..MaxRequests
  /\ \A S \in SUBSET Requests : Cardinality(S) = 0 <=> S = {}
  /\ \A S \in SUBSET Requests : \A q \in Requests \ S :
       Cardinality(S \cup {q}) = Cardinality(S) + 1
  /\ \A S \in SUBSET Requests : \A q \in S :
       Cardinality(S \ {q}) = Cardinality(S) - 1
<1> USE LiveAssumption
<1>1. IsFiniteSet(Requests) /\ Cardinality(Requests) = MaxRequests
  BY FS_Interval, SMT DEF Requests
<1>2. ASSUME NEW S \in SUBSET Requests
      PROVE  IsFiniteSet(S) /\ Cardinality(S) \in 0..MaxRequests
  <2>1. IsFiniteSet(S) /\ Cardinality(S) <= Cardinality(Requests)
    BY <1>1, FS_Subset
  <2>2. Cardinality(S) \in Nat
    BY <2>1, FS_CardinalityType
  <2> QED BY <1>1, <2>1, <2>2, SMT
<1>3. ASSUME NEW S \in SUBSET Requests PROVE Cardinality(S) = 0 <=> S = {}
  BY <1>2, FS_EmptySet
<1>4. ASSUME NEW S \in SUBSET Requests, NEW q \in Requests \ S
      PROVE  Cardinality(S \cup {q}) = Cardinality(S) + 1
  BY <1>2, FS_AddElement
<1>5. ASSUME NEW S \in SUBSET Requests, NEW q \in S
      PROVE  Cardinality(S \ {q}) = Cardinality(S) - 1
  BY <1>2, FS_RemoveElement
<1> QED BY <1>2, <1>3, <1>4, <1>5

(* The initial state satisfies Mapped and Attached.                         *)
LEMMA InitMapped == Init => Mapped /\ Attached
<1> SUFFICES ASSUME Init PROVE Mapped /\ Attached
  OBVIOUS
<1> USE LiveAssumption, Numbers
<1>1. /\ runtime = [r \in Runtimes |-> NoRuntime] /\ NoRuntime \in RuntimeRecord
      /\ request = [q \in Requests |-> NoRequest] /\ NoRequest \in RequestRecord
  BY DEF Init, NoRuntime, NoRequest, RuntimeRecord, RequestRecord
<1>2. /\ \A r \in Runtimes : Stage(r) = "none" /\ runtime[r].connections = {}
                             /\ runtime[r].operations = 0
      /\ \A q \in Requests : request[q].pc = "none"
  BY <1>1 DEF NoRuntime, NoRequest, Stage
<1>3. Types
  BY <1>1 DEF Init, Types, ConnTypes, ServerTypes, RuntimeTypes, RequestTypes
<1>4. MapInv /\ OpenInv /\ RequestInv
  BY <1>2
  DEF Init, MapInv, OpenInv, RequestInv, RequestOf, Held, Opening, Stage
<1>5. CountInv
  <2>1. \A r \in Runtimes : Operations(r) = {} /\ Operations(r) \in SUBSET Requests
    BY <1>2 DEF Operations
  <2> QED BY <1>2, <2>1, Sizes DEF CountInv
<1>6. Attached
  BY <1>2
  DEF Init, Attached, GoneInv, ToldOnlyIfAttached, NotTooEarly, NotTooLate,
      Disposable, Stage
<1> QED BY <1>3, <1>4, <1>5, <1>6, TypesSplit DEF Mapped

-----------------------------------------------------------------------------
(* Runtimes and requests that change.                                       *)

(* maybeDispose begins the disposal of a runtime or leaves it as it is, and *)
(* after it nothing remains to be disposed of.                              *)
LEMMA Disposal ==
  ASSUME NEW x \in RuntimeRecord
  PROVE  LET y == MaybeDispose(x) IN
           /\ y \in RuntimeRecord /\ ~Disposable(y)
           /\ y.of = x.of /\ y.connections = x.connections
           /\ y.operations = x.operations
           /\ \/ y.stage = x.stage
              \/ x.stage = "live" /\ y.stage = "disposing" /\ x.operations = 0
<1>1. CASE Disposable(x)
  BY <1>1 DEF MaybeDispose, Disposable, RuntimeRecord
<1>2. CASE ~Disposable(x)
  BY <1>2 DEF MaybeDispose
<1> QED BY <1>1, <1>2

(* An assignment to one runtime leaves the others alone.                    *)
LEMMA Updated ==
  ASSUME RuntimeTypes, NEW r \in Runtimes, NEW y \in RuntimeRecord,
         runtime' = [runtime EXCEPT ![r] = y]
  PROVE  /\ RuntimeTypes' /\ runtime'[r] = y
         /\ \A o \in Runtimes \ {r} : runtime'[o] = runtime[o]
  BY DEF RuntimeTypes

(* Request q comes to be at pc, the others stay.                            *)
Moved(q, pc) ==
  /\ RequestTypes'
  /\ request'[q].pc = pc /\ request'[q].of = request[q].of
  /\ request'[q].live = request[q].live
  /\ \A p \in Requests \ {q} : request'[p] = request[p]

(* Move does what Moved says.                                               *)
LEMMA Moves ==
  ASSUME RequestTypes, NEW q \in Requests, NEW pc, Move(q, pc),
         pc \in {"none", "opening", "wait", "acquired", "answer", "operating",
                 "detached", "done"}
  PROVE  Moved(q, pc)
<1>1. request[q] \in RequestRecord
  BY DEF RequestTypes
<1>2. /\ request'[q] = [request[q] EXCEPT !.pc = pc]
      /\ \A p \in Requests \ {q} : request'[p] = request[p]
  BY DEF RequestTypes, Move
<1>3. request'[q] \in RequestRecord
  BY <1>1, <1>2 DEF RequestRecord
<1>4. RequestTypes'
  BY <1>2, <1>3 DEF RequestTypes, Move
<1> QED BY <1>1, <1>2, <1>4 DEF Moved, RequestRecord

Places == {"none", "opening", "wait", "acquired", "answer", "operating", "detached", "done"}

(* A request that arrives is typed, and the others stay.                    *)
LEMMA Arrives ==
  ASSUME RequestTypes, NEW q \in Requests, NEW c \in Conns, NEW s \in Sessions,
         NEW r \in 0..MaxRuntimes, NEW pc \in Places,
         request' = [request EXCEPT ![q] = At(pc, c, s, r)]
  PROVE  /\ RequestTypes'
         /\ request'[q].pc = pc /\ request'[q].of = s /\ request'[q].live = r
         /\ \A p \in Requests \ {q} : request'[p] = request[p]
<1>1. At(pc, c, s, r) \in RequestRecord
  BY DEF RequestRecord, At, Places
<1>2. /\ RequestTypes' /\ request'[q] = At(pc, c, s, r)
      /\ \A p \in Requests \ {q} : request'[p] = request[p]
  BY <1>1 DEF RequestTypes
<1> QED BY <1>2 DEF At

-----------------------------------------------------------------------------
(* Steps that leave the maps alone and open nothing.                        *)

(* How such steps change runtimes.                                          *)
Touched(r) ==
  /\ runtime'[r].of = runtime[r].of
  /\ \/ Stage(r)' = Stage(r)
     \/ Opening(r) /\ Opening(r)'
     \/ Stage(r) = "live" /\ Stage(r)' = "disposing" /\ runtime'[r].operations = 0
  /\ Stage(r) = "none" \/ Opening(r) => runtime'[r].connections = runtime[r].connections

(* Steps that touch runtimes without opening or closing any keep the maps.  *)
LEMMA TouchMapped ==
  ASSUME Mapped, Types', \A r \in Runtimes : Touched(r),
         UNCHANGED <<liveSessions, openingSessions>>,
         server = "closed" => server' = "closed",
         \A q \in Requests : request[q].pc = "opening" => request'[q] = request[q],
         \A q \in Requests : request'[q] = request[q] \/ RequestOf(q)',
         CountInv'
  PROVE  Mapped'
<1>1. Types /\ MapInv /\ OpenInv /\ RequestInv
  BY TypesSplit DEF Mapped
<1>2. \A r \in Runtimes :
        /\ runtime'[r].of = runtime[r].of
        /\ Opening(r)' <=> Opening(r)
        /\ Held(r)' <=> Held(r)
        /\ Stage(r)' = "none" <=> Stage(r) = "none"
        /\ Stage(r)' \in {"live", "disposing"} <=> Stage(r) \in {"live", "disposing"}
        /\ Stage(r) = "none" \/ Opening(r) => runtime'[r].connections = runtime[r].connections
  BY DEF Touched, Opening, Held, Stage
<1>3. \A s \in Sessions :
        /\ openingSessions[s] # 0 => openingSessions[s] \in Runtimes
        /\ liveSessions[s] # 0 => liveSessions[s] \in Runtimes
  BY <1>1, Numbers DEF Types, ServerTypes
<1>4. MapInv'
  BY <1>1, <1>2, <1>3 DEF MapInv
<1>5. OpenInv'
  BY <1>1, <1>2 DEF OpenInv
<1>6. RequestInv'
  <2> SUFFICES ASSUME NEW q \in Requests, request'[q] = request[q] PROVE RequestOf(q)'
    BY DEF RequestInv
  <2>1. RequestOf(q)
    BY <1>1 DEF RequestInv
  <2> QED BY <1>2, <2>1 DEF RequestOf
<1> QED BY <1>4, <1>5, <1>6, TypesSplit DEF Mapped

(* They also keep the attachments, when the clients are told.               *)
LEMMA TouchAttached ==
  ASSUME Mapped, Attached, Mapped', \A r \in Runtimes : Touched(r),
         server' = server, GoneInv',
         \A r \in Runtimes : Stage(r)' = "live" =>
           \A c \in runtime'[r].connections : runtime[r].of \in sessionIds'[c],
         \A q \in Requests : request'[q].pc = "operating" =>
           \/ request[q].pc = "operating" /\ request'[q].live = request[q].live
           \/ Stage(request'[q].live) = "live",
         \A r \in Runtimes : Disposable(runtime'[r]) =>
           /\ Disposable(runtime[r])
           /\ \A q \in Requests :
                request[q].pc \in {"acquired", "detached"} /\ request[q].live = r
                  => request'[q] = request[q]
  PROVE  Attached'
<1>1. ToldOnlyIfAttached'
  BY DEF ToldOnlyIfAttached, Touched, Stage
<1>2. NotTooEarly'
  <2> SUFFICES ASSUME NEW q \in Requests, request'[q].pc = "operating",
                      server # "closed"
               PROVE  runtime'[request'[q].live].stage = "live"
    BY DEF NotTooEarly, Stage
  <2>1. RequestInv' /\ CountInv'
    BY DEF Mapped
  <2>2. PICK r \in Runtimes : r = request'[q].live
    BY <2>1 DEF RequestInv, RequestOf
  <2>3. Stage(r) = "live"
    BY <2>2 DEF Attached, NotTooEarly, Stage
  <2>4. runtime'[r].operations # 0
    <3>1. q \in Operations(r)' /\ Operations(r)' \in SUBSET Requests
      BY <2>2 DEF Operations
    <3>2. Cardinality(Operations(r)') # 0
      BY <3>1, Sizes
    <3>3. runtime'[r].operations = Cardinality(Operations(r)')
      BY <2>1 DEF CountInv
    <3> QED BY <3>2, <3>3
  <2>5. Stage(r)' = "live"
    BY <2>3, <2>4 DEF Touched, Opening, Stage
  <2> QED BY <2>2, <2>5 DEF Stage
<1>3. NotTooLate'
  <2> SUFFICES ASSUME NEW r \in Runtimes, Disposable(runtime'[r])
               PROVE  \E q \in Requests : /\ request'[q].pc \in {"acquired", "detached"}
                                          /\ request'[q].live = r
    BY DEF NotTooLate, Disposable, isClosing
  <2> QED BY DEF Attached, NotTooLate
<1> QED BY <1>1, <1>2, <1>3 DEF Attached

(* The count of operations in a step that neither begins nor ends one.      *)
LEMMA CountStays ==
  ASSUME CountInv, \A r \in Runtimes : runtime'[r].operations = runtime[r].operations,
         \A q \in Requests :
           \/ request'[q] = request[q]
           \/ request[q].pc # "operating" /\ request'[q].pc # "operating"
  PROVE  CountInv'
<1>1. \A r \in Runtimes : Operations(r)' = Operations(r)
  BY DEF Operations
<1> QED BY <1>1 DEF CountInv

(* What the maps hold.                                                      *)
LEMMA InMaps ==
  ASSUME Mapped
  PROVE  /\ \A s \in Sessions : liveSessions[s] # 0 =>
              /\ liveSessions[s] \in Runtimes /\ runtime[liveSessions[s]].of = s
              /\ Stage(liveSessions[s]) \in {"live", "disposing"}
         /\ \A s \in Sessions : openingSessions[s] # 0 =>
              /\ openingSessions[s] \in Runtimes /\ runtime[openingSessions[s]].of = s
              /\ Opening(openingSessions[s])
         /\ \A r \in Runtimes : Stage(r) \in {"live", "disposing"} /\ server # "closed" =>
              liveSessions[runtime[r].of] = r
<1>1. Types /\ MapInv
  BY TypesSplit DEF Mapped
<1> QED BY <1>1, Numbers DEF MapInv, Types, ServerTypes

(* A request that arrives, or is answered, and changes no runtime.          *)
LEMMA Replied ==
  ASSUME Mapped, Attached, NEW q \in Requests, RequestTypes', ConnTypes',
         request[q].pc \in {"none", "answer"}, request'[q].pc # "operating",
         RequestOf(q)',
         \A p \in Requests \ {q} : request'[p] = request[p],
         UNCHANGED <<conn, liveSessions, openingSessions, runtime, server, closeWaits>>,
         \A r \in Runtimes : Stage(r) = "live" =>
           \A c \in runtime[r].connections : runtime[r].of \in sessionIds'[c]
  PROVE  Mapped' /\ Attached'
<1>1. Types'
  BY TypesSplit DEF Mapped, Types, ServerTypes, RuntimeTypes
<1>2. \A r \in Runtimes : Touched(r)
  BY DEF Touched, Stage
<1>3. CountInv'
  BY CountStays DEF Mapped
<1>4. Mapped'
  <2>1. \A p \in Requests : request[p].pc = "opening" => request'[p] = request[p]
    OBVIOUS
  <2>2. \A p \in Requests : request'[p] = request[p] \/ RequestOf(p)'
    OBVIOUS
  <2> QED BY <1>1, <1>2, <1>3, <2>1, <2>2, TouchMapped
<1>5. GoneInv'
  BY DEF Attached, GoneInv
<1>6. \A p \in Requests : request'[p].pc = "operating" =>
        request[p].pc = "operating" /\ request'[p].live = request[p].live
  OBVIOUS
<1>7. \A r \in Runtimes : Disposable(runtime'[r]) =>
        /\ Disposable(runtime[r])
        /\ \A p \in Requests :
             request[p].pc \in {"acquired", "detached"} /\ request[p].live = r
               => request'[p] = request[p]
  OBVIOUS
<1>8. \A r \in Runtimes : Stage(r)' = "live" =>
        \A c \in runtime'[r].connections : runtime[r].of \in sessionIds'[c]
  BY DEF Stage
<1> QED BY <1>2, <1>4, <1>5, <1>6, <1>7, <1>8, TouchAttached

(* The attachments stay as they are.                                        *)
LEMMA StillTold ==
  ASSUME Attached
  PROVE  \A r \in Runtimes : Stage(r) = "live" =>
           \A c \in runtime[r].connections : runtime[r].of \in sessionIds[c]
  BY DEF Attached, ToldOnlyIfAttached, Stage

(* Answer keeps Mapped and Attached.                                        *)
LEMMA AnswerAttached ==
  ASSUME Mapped, Attached, NEW q \in Requests, Answer(q)
  PROVE  Mapped' /\ Attached'
<1>1. Moved(q, "done") /\ request[q].pc = "answer"
  BY Moves, TypesSplit DEF Mapped, Types, Answer, Finish
<1>2. ConnTypes'
  BY TypesSplit DEF Mapped, Types, ConnTypes, Answer
<1>3. UNCHANGED <<conn, sessionIds, liveSessions, openingSessions, runtime, server, closeWaits>>
  BY DEF Answer
<1>4. RequestOf(q)'
  BY <1>1 DEF Moved, RequestOf
<1> QED BY <1>1, <1>2, <1>3, <1>4, Replied, StillTold DEF Moved

(* A request that is refused at once.                                       *)
LEMMA RefusedAttached ==
  ASSUME Mapped, Attached, NEW q \in Requests, NEW c \in Conns, NEW s \in Sessions,
         NEW pc \in {"done", "wait", "acquired", "opening"}, NEW r \in 0..MaxRuntimes,
         request[q].pc = "none", request' = [request EXCEPT ![q] = At(pc, c, s, r)],
         pc # "done" => r \in Runtimes /\ Stage(r) # "none" /\ runtime[r].of = s,
         pc = "acquired" => ~Opening(r),
         UNCHANGED <<conn, liveSessions, openingSessions, runtime, server, closeWaits>>,
         ConnTypes',
         \A o \in Runtimes : Stage(o) = "live" =>
           \A d \in runtime[o].connections : runtime[o].of \in sessionIds'[d]
  PROVE  Mapped' /\ Attached'
<1>1. /\ RequestTypes'
      /\ request'[q].pc = pc /\ request'[q].of = s /\ request'[q].live = r
      /\ \A p \in Requests \ {q} : request'[p] = request[p]
  <2>1. pc \in Places
    BY DEF Places
  <2>2. RequestTypes
    BY TypesSplit DEF Mapped, Types
  <2> QED BY <2>1, <2>2, Arrives
<1>2. RequestOf(q)'
  BY <1>1 DEF RequestOf, Stage, Opening
<1> QED BY <1>1, <1>2, Replied

-----------------------------------------------------------------------------
(* Requests.                                                                *)

(* A runtime that is opened is the only one of its session.                 *)
LEMMA NobodyElse ==
  ASSUME Mapped, server # "closed", NEW s \in Sessions, liveSessions[s] = 0,
         openingSessions[s] = 0
  PROVE  \A o \in Runtimes : Held(o) => runtime[o].of # s
<1>1. \A o \in Runtimes : runtime[o] \in RuntimeRecord
  BY TypesSplit DEF Mapped, Types, RuntimeTypes
<1>2. \A o \in Runtimes : Held(o) => Opening(o) \/ Stage(o) \in {"live", "disposing"}
  BY <1>1 DEF Held, Opening, Stage, RuntimeRecord
<1>3. \A o \in Runtimes : o # 0
  BY Numbers
<1> QED BY <1>2, <1>3 DEF Mapped, MapInv

(* The runtime that Open takes, with the session it is opened for.          *)
LEMMA Opened ==
  ASSUME RuntimeTypes, ServerTypes, NEW n \in Runtimes, NEW s \in Sessions, Open(s, n),
         runtime' = [runtime EXCEPT ![n].stage = "acquiring", ![n].of = s]
  PROVE  /\ RuntimeTypes' /\ Stage(n) = "none"
         /\ Stage(n)' = "acquiring" /\ runtime'[n].of = s
         /\ runtime'[n].connections = runtime[n].connections
         /\ runtime'[n].operations = runtime[n].operations
         /\ \A o \in Runtimes \ {n} : runtime'[o] = runtime[o]
         /\ openingSessions' \in [Sessions -> 0..MaxRuntimes]
         /\ openingSessions'[s] = n
         /\ \A t \in Sessions \ {s} : openingSessions'[t] = openingSessions[t]
<1>1. runtime[n] \in RuntimeRecord /\ runtime[n].stage = "none"
  BY DEF RuntimeTypes, Open, Unused
<1>2. /\ runtime'[n] = [runtime[n] EXCEPT !.stage = "acquiring", !.of = s]
      /\ \A o \in Runtimes \ {n} : runtime'[o] = runtime[o]
  BY DEF RuntimeTypes
<1>3. /\ runtime'[n] \in RuntimeRecord
      /\ runtime'[n].stage = "acquiring" /\ runtime'[n].of = s
      /\ runtime'[n].connections = runtime[n].connections
      /\ runtime'[n].operations = runtime[n].operations
  <2>1. PICK y : y = [runtime[n] EXCEPT !.stage = "acquiring", !.of = s]
    OBVIOUS
  <2>2. /\ y \in RuntimeRecord /\ y.stage = "acquiring" /\ y.of = s
        /\ y.connections = runtime[n].connections /\ y.operations = runtime[n].operations
    BY <1>1, <2>1 DEF RuntimeRecord
  <2> QED BY <1>2, <2>1, <2>2
<1>4. RuntimeTypes'
  BY <1>2, <1>3 DEF RuntimeTypes
<1>5. n \in 0..MaxRuntimes
  BY Numbers
<1>6. /\ openingSessions' \in [Sessions -> 0..MaxRuntimes]
      /\ openingSessions'[s] = n
      /\ \A t \in Sessions \ {s} : openingSessions'[t] = openingSessions[t]
  BY <1>5 DEF ServerTypes, Open
<1> QED BY <1>1, <1>2, <1>3, <1>4, <1>6 DEF Stage

(* The first request for a session opens a runtime.                         *)
OpensFor(q, c, s, n) ==
  /\ Receive(q, c, s) /\ liveSessions[s] = 0 /\ openingSessions[s] = 0
  /\ Open(s, n) /\ runtime' = [runtime EXCEPT ![n].stage = "acquiring", ![n].of = s]
  /\ request' = [request EXCEPT ![q] = At("opening", c, s, n)]
  /\ UNCHANGED <<conn, sessionIds, liveSessions, server, closeWaits>>

(* A request for a session that is not open opens it.                       *)
LEMMA AttachOpens ==
  ASSUME Mapped, Attached, NEW q \in Requests, NEW c \in Conns, NEW s \in Sessions,
         NEW n \in Runtimes, OpensFor(q, c, s, n)
  PROVE  Mapped' /\ Attached'
<1>1. Types /\ MapInv /\ OpenInv /\ RequestInv /\ CountInv
  BY TypesSplit DEF Mapped
<1>2. /\ request[q].pc = "none" /\ server \in {"open", "closing"}
      /\ liveSessions[s] = 0 /\ openingSessions[s] = 0
      /\ UNCHANGED <<conn, sessionIds, liveSessions, server, closeWaits>>
  BY DEF OpensFor, Receive
<1>3. /\ RuntimeTypes' /\ Stage(n) = "none"
      /\ Stage(n)' = "acquiring" /\ runtime'[n].of = s
      /\ runtime'[n].connections = runtime[n].connections
      /\ runtime'[n].operations = runtime[n].operations
      /\ \A o \in Runtimes \ {n} : runtime'[o] = runtime[o]
      /\ openingSessions' \in [Sessions -> 0..MaxRuntimes]
      /\ openingSessions'[s] = n
      /\ \A t \in Sessions \ {s} : openingSessions'[t] = openingSessions[t]
  BY <1>1, Opened DEF OpensFor, Types
<1>4. /\ RequestTypes'
      /\ request'[q].pc = "opening" /\ request'[q].of = s /\ request'[q].live = n
      /\ \A p \in Requests \ {q} : request'[p] = request[p]
  BY <1>1, Arrives, Numbers DEF OpensFor, Types, Places
<1>5. Types'
  BY <1>1, <1>2, <1>3, <1>4 DEF Types, ConnTypes, ServerTypes
<1>6. \A o \in Runtimes : Held(o) => runtime[o].of # s
  BY <1>2, NobodyElse
<1>7. /\ ~Held(n) /\ ~Opening(n) /\ Held(n)' /\ Opening(n)'
      /\ \A o \in Runtimes \ {n} :
           /\ Stage(o)' = Stage(o) /\ (Held(o)' <=> Held(o))
           /\ (Opening(o)' <=> Opening(o)) /\ runtime'[o] = runtime[o]
  BY <1>3 DEF Held, Opening, Stage
<1>8. MapInv'
  <2>1. \A r, o \in Runtimes :
          (Held(r) /\ Held(o) /\ runtime[r].of = runtime[o].of => r = o)'
    BY <1>1, <1>3, <1>6, <1>7 DEF MapInv
  <2>2. \A t \in Sessions :
          (openingSessions[t] # 0 =>
             Opening(openingSessions[t]) /\ runtime[openingSessions[t]].of = t)'
    <3> SUFFICES ASSUME NEW t \in Sessions, openingSessions'[t] # 0
                 PROVE  (Opening(openingSessions[t]) /\ runtime[openingSessions[t]].of = t)'
      OBVIOUS
    <3>1. CASE t = s
      BY <1>3, <1>7, <3>1
    <3>2. CASE t # s
      BY <1>3, <1>7, <3>2, InMaps
    <3> QED BY <3>1, <3>2
  <2>3. \A t \in Sessions :
          (liveSessions[t] # 0 => /\ Stage(liveSessions[t]) \in {"live", "disposing"}
                                  /\ runtime[liveSessions[t]].of = t)'
    BY <1>2, <1>3, <1>7, InMaps
  <2>4. \A r \in Runtimes : (Opening(r) => openingSessions[runtime[r].of] = r)'
    <3> SUFFICES ASSUME NEW r \in Runtimes, Opening(r)'
                 PROVE  openingSessions'[runtime'[r].of] = r
      OBVIOUS
    <3>1. CASE r = n
      BY <1>3, <3>1
    <3>2. CASE r # n
      <4>1. Opening(r) /\ runtime'[r].of = runtime[r].of /\ runtime[r].of \in Sessions
        BY <1>1, <1>7, <3>2 DEF Types, RuntimeTypes, RuntimeRecord
      <4>2. Held(r)
        BY <4>1 DEF Held, Opening, Stage
      <4> QED BY <1>1, <1>3, <1>6, <4>1, <4>2 DEF MapInv
    <3> QED BY <3>1, <3>2
  <2>5. \A r \in Runtimes :
          (Stage(r) \in {"live", "disposing"} /\ server # "closed" =>
             liveSessions[runtime[r].of] = r)'
    BY <1>1, <1>2, <1>3, <1>7 DEF MapInv
  <2> QED BY <2>1, <2>2, <2>3, <2>4, <2>5 DEF MapInv
<1>9. OpenInv'
  <2> SUFFICES ASSUME NEW r \in Runtimes
               PROVE  /\ Stage(r)' = "none" \/ Opening(r)' => runtime'[r].connections = {}
                      /\ Opening(r)' => \E p \in Requests : request'[p].pc = "opening"
                                                           /\ request'[p].live = r
    BY DEF OpenInv
  <2>1. CASE r = n
    BY <1>1, <1>3, <1>4, <2>1 DEF OpenInv
  <2>2. CASE r # n
    BY <1>1, <1>2, <1>4, <1>7, <2>2 DEF OpenInv
  <2> QED BY <2>1, <2>2
<1>10. RequestInv'
  <2> SUFFICES ASSUME NEW p \in Requests PROVE RequestOf(p)'
    BY DEF RequestInv
  <2>1. CASE p = q
    BY <1>3, <1>4, <2>1 DEF RequestOf
  <2>2. CASE p # q
    <3>1. RequestOf(p) /\ request'[p] = request[p]
      BY <1>1, <1>4, <2>2 DEF RequestInv
    <3> QED BY <1>3, <1>7, <3>1 DEF RequestOf
  <2> QED BY <2>1, <2>2
<1>11. CountInv'
  <2>1. \A r \in Runtimes : runtime'[r].operations = runtime[r].operations
    BY <1>3
  <2> QED BY <1>1, <1>2, <1>4, <2>1, CountStays
<1>12. Attached'
  <2>1. GoneInv' /\ ToldOnlyIfAttached'
    BY <1>2, <1>3, <1>7 DEF Attached, GoneInv, ToldOnlyIfAttached, Stage
  <2>2. NotTooEarly'
    <3> SUFFICES ASSUME NEW p \in Requests, request'[p].pc = "operating"
                 PROVE  runtime'[request'[p].live].stage = "live"
      BY <1>2 DEF NotTooEarly
    <3>1. p # q /\ request'[p] = request[p]
      BY <1>4
    <3>2. RequestOf(p) /\ Stage(request[p].live) = "live"
      BY <1>1, <1>2, <3>1 DEF RequestInv, Attached, NotTooEarly, Stage
    <3>3. request[p].live \in Runtimes \ {n}
      BY <1>3, <3>1, <3>2 DEF RequestOf
    <3> QED BY <1>7, <3>1, <3>2, <3>3 DEF Stage
  <2>3. NotTooLate'
    <3> SUFFICES ASSUME NEW r \in Runtimes, Disposable(runtime[r])'
                 PROVE  \E p \in Requests : request'[p].pc \in {"acquired", "detached"}
                                            /\ request'[p].live = r
      BY DEF NotTooLate
    <3>1. r # n
      BY <1>3 DEF Disposable, Stage
    <3>2. Disposable(runtime[r])
      BY <1>2, <1>7, <3>1 DEF Disposable, isClosing
    <3> QED BY <1>2, <1>4, <3>2 DEF Attached, NotTooLate
  <2> QED BY <2>1, <2>2, <2>3 DEF Attached
<1> QED BY <1>5, <1>8, <1>9, <1>10, <1>11, <1>12, TypesSplit DEF Mapped

(* Attach keeps Mapped and Attached.                                        *)
LEMMA AttachAttached ==
  ASSUME Mapped, Attached, NEW q \in Requests, NEW c \in Conns, NEW s \in Sessions,
         Attach(q, c, s)
  PROVE  Mapped' /\ Attached'
<1>1. /\ Receive(q, c, s) /\ request[q].pc = "none"
      /\ UNCHANGED <<conn, sessionIds, liveSessions, server, closeWaits>>
  BY DEF Attach, Receive
<1>2. Types /\ ConnTypes'
  BY <1>1, TypesSplit DEF Mapped, Types, ConnTypes
<1>3. /\ liveSessions[s] \in 0..MaxRuntimes /\ openingSessions[s] \in 0..MaxRuntimes
      /\ liveSessions[s] # 0 => liveSessions[s] \in Runtimes
           /\ runtime[liveSessions[s]].of = s /\ Stage(liveSessions[s]) # "none"
      /\ openingSessions[s] # 0 => openingSessions[s] \in Runtimes
           /\ runtime[openingSessions[s]].of = s /\ Stage(openingSessions[s]) # "none"
  BY <1>2, InMaps DEF Types, ServerTypes, Opening, Stage
<1>4. \A r \in Runtimes : Stage(r) = "live" =>
        \A d \in runtime[r].connections : runtime[r].of \in sessionIds'[d]
  BY <1>1, StillTold
<1>5. ASSUME NEW pc \in {"done", "wait", "acquired", "opening"}, NEW r \in 0..MaxRuntimes,
             request' = [request EXCEPT ![q] = At(pc, c, s, r)],
             r # 0 /\ r \in {liveSessions[s], openingSessions[s]},
             pc = "acquired" => Stage(r) = "live",
             UNCHANGED <<openingSessions, runtime>>
      PROVE  Mapped' /\ Attached'
  <2>1. pc = "acquired" => ~Opening(r)
    BY <1>5 DEF Opening, Stage
  <2>2. r \in Runtimes /\ Stage(r) # "none" /\ runtime[r].of = s
    BY <1>3, <1>5
  <2>3. UNCHANGED <<conn, liveSessions, openingSessions, runtime, server, closeWaits>>
    BY <1>1, <1>5
  <2> QED BY <1>1, <1>2, <1>4, <1>5, <2>1, <2>2, <2>3, RefusedAttached
<1>6. ASSUME NEW n \in Runtimes, liveSessions[s] = 0, openingSessions[s] = 0,
             Open(s, n), runtime' = [runtime EXCEPT ![n].stage = "acquiring", ![n].of = s],
             request' = [request EXCEPT ![q] = At("opening", c, s, n)]
      PROVE  Mapped' /\ Attached'
  BY <1>1, <1>6, AttachOpens DEF OpensFor
<1> QED BY <1>3, <1>5, <1>6 DEF Attach, Stage

(* The step that changes one runtime.                                       *)
LEMMA OneTouched ==
  ASSUME RuntimeTypes, NEW r \in Runtimes, NEW y \in RuntimeRecord,
         runtime' = [runtime EXCEPT ![r] = y], y.of = runtime[r].of,
         \/ y.stage = Stage(r)
         \/ Stage(r) = "live" /\ y.stage = "disposing" /\ y.operations = 0,
         Stage(r) = "none" \/ Opening(r) => y.connections = runtime[r].connections
  PROVE  /\ RuntimeTypes' /\ runtime'[r] = y
         /\ \A o \in Runtimes \ {r} : runtime'[o] = runtime[o]
         /\ \A o \in Runtimes : Touched(o)
<1>1. /\ RuntimeTypes' /\ runtime'[r] = y
      /\ \A o \in Runtimes \ {r} : runtime'[o] = runtime[o]
  BY Updated
<1>2. Touched(r)
  BY <1>1 DEF Touched, Stage
<1>3. \A o \in Runtimes \ {r} : Touched(o)
  BY <1>1 DEF Touched, Stage
<1> QED BY <1>1, <1>2, <1>3

(* A request calls maybeDispose for its runtime, and has come to its end.   *)
LEMMA Released ==
  ASSUME Mapped, Attached, NEW q \in Requests, NEW r \in Runtimes,
         request[q].pc \in {"acquired", "detached"}, request[q].live = r,
         runtime' = [runtime EXCEPT ![r] = MaybeDispose(@)], Finish(q),
         UNCHANGED <<conn, sessionIds, liveSessions, openingSessions, server, closeWaits>>
  PROVE  Mapped' /\ Attached'
<1>1. Types /\ RequestOf(q) /\ CountInv /\ runtime[r] \in RuntimeRecord
  BY TypesSplit DEF Mapped, RequestInv, Types, RuntimeTypes
<1>2. PICK y : y = MaybeDispose(runtime[r])
  OBVIOUS
<1>3. /\ y \in RuntimeRecord /\ ~Disposable(y)
      /\ y.of = runtime[r].of /\ y.connections = runtime[r].connections
      /\ y.operations = runtime[r].operations
      /\ \/ y.stage = Stage(r)
         \/ Stage(r) = "live" /\ y.stage = "disposing" /\ runtime[r].operations = 0
  BY <1>1, <1>2, Disposal DEF Stage
<1>4. runtime' = [runtime EXCEPT ![r] = y]
  BY <1>2
<1>5. /\ RuntimeTypes' /\ runtime'[r] = y
      /\ \A o \in Runtimes \ {r} : runtime'[o] = runtime[o]
      /\ \A o \in Runtimes : Touched(o)
  <2>1. RuntimeTypes
    BY <1>1 DEF Types
  <2>2. \/ y.stage = Stage(r)
        \/ Stage(r) = "live" /\ y.stage = "disposing" /\ y.operations = 0
    BY <1>3
  <2>3. Stage(r) = "none" \/ Opening(r) => y.connections = runtime[r].connections
    BY <1>3
  <2> QED BY <1>3, <1>4, <2>1, <2>2, <2>3, OneTouched
<1>6. Moved(q, "done")
  BY <1>1, Moves DEF Types, Finish
<1>7. Types'
  BY <1>1, <1>5, <1>6 DEF Types, ConnTypes, ServerTypes, Moved
<1>8. CountInv'
  <2>1. \A o \in Runtimes : runtime'[o].operations = runtime[o].operations
    BY <1>3, <1>5
  <2> QED BY <1>1, <1>6, <2>1, CountStays DEF Moved
<1>9. Mapped'
  <2>1. \A p \in Requests : request[p].pc = "opening" => request'[p] = request[p]
    BY <1>6 DEF Moved
  <2>2. \A p \in Requests : request'[p] = request[p] \/ RequestOf(p)'
    BY <1>6 DEF Moved, RequestOf
  <2> QED BY <1>5, <1>7, <1>8, <2>1, <2>2, TouchMapped
<1>10. GoneInv'
  BY DEF Attached, GoneInv
<1>11. \A p \in Requests : request'[p].pc = "operating" =>
         request[p].pc = "operating" /\ request'[p].live = request[p].live
  BY <1>6 DEF Moved
<1>12. \A o \in Runtimes : Disposable(runtime'[o]) =>
         /\ Disposable(runtime[o])
         /\ \A p \in Requests :
              request[p].pc \in {"acquired", "detached"} /\ request[p].live = o
                => request'[p] = request[p]
  BY <1>3, <1>5, <1>6 DEF Moved
<1>13. \A o \in Runtimes : Stage(o)' = "live" =>
         \A c \in runtime'[o].connections : runtime[o].of \in sessionIds'[c]
  BY <1>3, <1>5, StillTold DEF Stage
<1> QED BY <1>5, <1>9, <1>10, <1>11, <1>12, <1>13, TouchAttached

(* AfterDetach keeps Mapped and Attached.                                   *)
LEMMA AfterDetachAttached ==
  ASSUME Mapped, Attached, NEW q \in Requests, AfterDetach(q)
  PROVE  Mapped' /\ Attached'
<1>1. RequestOf(q)
  BY DEF Mapped, RequestInv
<1> QED BY <1>1, Released DEF AfterDetach, RequestOf

(* RecordAttachment keeps Mapped and Attached.                              *)
LEMMA RecordAttachmentAttached ==
  ASSUME Mapped, Attached, NEW q \in Requests, RecordAttachment(q)
  PROVE  Mapped' /\ Attached'
<1>1. Types /\ RequestOf(q) /\ CountInv
  BY TypesSplit DEF Mapped, RequestInv
<1>2. PICK r \in Runtimes, c \in Conns : r = request[q].live /\ c = request[q].from
  BY <1>1 DEF RecordAttachment, RequestOf, Types, RequestTypes, RequestRecord
<1>3. /\ request[q].pc = "acquired" /\ ~Opening(r) /\ Stage(r) # "none"
      /\ request[q].of = runtime[r].of /\ runtime[r] \in RuntimeRecord
      /\ UNCHANGED <<conn, liveSessions, openingSessions, server, closeWaits>>
  BY <1>1, <1>2 DEF RecordAttachment, RequestOf, Types, RuntimeTypes
<1>4. CASE /\ conn[c] # "ready" /\ Finish(q) /\ UNCHANGED sessionIds
           /\ runtime' = [runtime EXCEPT ![r] = MaybeDispose(@)]
  BY <1>2, <1>3, <1>4, Released
<1>5. CASE /\ sessionIds' = [sessionIds EXCEPT ![c] = @ \cup {request[q].of}]
           /\ runtime' = [runtime EXCEPT ![r].connections = @ \cup {c}]
           /\ Move(q, "answer")
  <2>1. PICK y : y = [runtime[r] EXCEPT !.connections = @ \cup {c}]
    OBVIOUS
  <2>2. /\ y \in RuntimeRecord /\ y.of = runtime[r].of /\ y.stage = Stage(r)
        /\ y.operations = runtime[r].operations
        /\ y.connections = runtime[r].connections \cup {c}
    BY <1>3, <2>1 DEF RuntimeRecord, Stage
  <2>3. runtime' = [runtime EXCEPT ![r] = y]
    BY <1>5, <2>1
  <2>4. /\ RuntimeTypes' /\ runtime'[r] = y
        /\ \A o \in Runtimes \ {r} : runtime'[o] = runtime[o]
        /\ \A o \in Runtimes : Touched(o)
    BY <1>1, <1>3, <2>2, <2>3, OneTouched DEF Types
  <2>5. Moved(q, "answer")
    BY <1>1, <1>5, Moves DEF Types
  <2>6. /\ ConnTypes' /\ sessionIds'[c] = sessionIds[c] \cup {runtime[r].of}
        /\ \A d \in Conns : sessionIds[d] \subseteq sessionIds'[d]
    BY <1>1, <1>3, <1>5 DEF Types, ConnTypes, RuntimeRecord
  <2>7. Types'
    BY <1>1, <1>3, <2>4, <2>5, <2>6 DEF Types, ServerTypes, Moved
  <2>8. CountInv'
    <3>1. \A o \in Runtimes : runtime'[o].operations = runtime[o].operations
      BY <2>2, <2>4
    <3> QED BY <1>1, <1>3, <2>5, <3>1, CountStays DEF Moved
  <2>9. Mapped'
    <3>1. \A p \in Requests : request[p].pc = "opening" => request'[p] = request[p]
      BY <1>3, <2>5 DEF Moved
    <3>2. \A p \in Requests : request'[p] = request[p] \/ RequestOf(p)'
      BY <2>5 DEF Moved, RequestOf
    <3> QED BY <1>3, <2>4, <2>7, <2>8, <3>1, <3>2, TouchMapped
  <2>10. GoneInv'
    BY <1>3 DEF Attached, GoneInv
  <2>11. \A p \in Requests : request'[p].pc = "operating" =>
           request[p].pc = "operating" /\ request'[p].live = request[p].live
    BY <2>5 DEF Moved
  <2>12. ~Disposable(y)
    BY <2>2 DEF Disposable
  <2>13. \A o \in Runtimes : Disposable(runtime'[o]) =>
           /\ Disposable(runtime[o])
           /\ \A p \in Requests :
                request[p].pc \in {"acquired", "detached"} /\ request[p].live = o
                  => request'[p] = request[p]
    BY <1>2, <2>4, <2>5, <2>12 DEF Moved
  <2>14. \A o \in Runtimes : Stage(o)' = "live" =>
           \A d \in runtime'[o].connections : runtime[o].of \in sessionIds'[d]
    <3> SUFFICES ASSUME NEW o \in Runtimes, Stage(o)' = "live",
                        NEW d \in runtime'[o].connections
                 PROVE  runtime[o].of \in sessionIds'[d]
      OBVIOUS
    <3>1. d \in Conns
      BY <2>4 DEF RuntimeTypes, RuntimeRecord
    <3>2. CASE o = r
      BY <2>2, <2>4, <2>6, <3>1, <3>2, StillTold DEF Stage
    <3>3. CASE o # r
      BY <2>4, <2>6, <3>1, <3>3, StillTold DEF Stage
    <3> QED BY <3>2, <3>3
  <2> QED BY <1>3, <2>4, <2>9, <2>10, <2>11, <2>13, <2>14, TouchAttached
<1> QED BY <1>2, <1>4, <1>5 DEF RecordAttachment

(* A request that arrives, or ends its operation, and changes one runtime   *)
(* to one that is not to be disposed of.                                    *)
LEMMA Stepped ==
  ASSUME Mapped, Attached, NEW q \in Requests, NEW r \in Runtimes, NEW y \in RuntimeRecord,
         runtime' = [runtime EXCEPT ![r] = y], y.of = runtime[r].of,
         \/ y.stage = Stage(r)
         \/ Stage(r) = "live" /\ y.stage = "disposing" /\ y.operations = 0,
         ~Opening(r), Stage(r) # "none", ~Disposable(y),
         y.connections \subseteq runtime[r].connections,
         RequestTypes', \A p \in Requests \ {q} : request'[p] = request[p],
         request[q].pc \in {"none", "operating"}, RequestOf(q)',
         request'[q].pc = "operating" => Stage(request'[q].live) = "live",
         ConnTypes', CountInv',
         UNCHANGED <<conn, liveSessions, openingSessions, server, closeWaits>>,
         \A o \in Runtimes : Stage(o) = "live" =>
           \A d \in IF o = r THEN y.connections ELSE runtime[o].connections :
             runtime[o].of \in sessionIds'[d]
  PROVE  Mapped' /\ Attached'
<1>1. Types
  BY TypesSplit DEF Mapped
<1>2. /\ RuntimeTypes' /\ runtime'[r] = y
      /\ \A o \in Runtimes \ {r} : runtime'[o] = runtime[o]
      /\ \A o \in Runtimes : Touched(o)
  BY <1>1, OneTouched DEF Types
<1>3. Types'
  BY <1>1, <1>2 DEF Types, ServerTypes
<1>4. Mapped'
  <2>1. \A p \in Requests : request[p].pc = "opening" => request'[p] = request[p]
    OBVIOUS
  <2>2. \A p \in Requests : request'[p] = request[p] \/ RequestOf(p)'
    OBVIOUS
  <2> QED BY <1>2, <1>3, <2>1, <2>2, TouchMapped
<1>5. GoneInv'
  BY DEF Attached, GoneInv
<1>6. \A p \in Requests : request'[p].pc = "operating" =>
        \/ request[p].pc = "operating" /\ request'[p].live = request[p].live
        \/ Stage(request'[p].live) = "live"
  OBVIOUS
<1>7. \A o \in Runtimes : Disposable(runtime'[o]) =>
        /\ Disposable(runtime[o])
        /\ \A p \in Requests :
             request[p].pc \in {"acquired", "detached"} /\ request[p].live = o
               => request'[p] = request[p]
  BY <1>2
<1>8. \A o \in Runtimes : Stage(o)' = "live" =>
        \A d \in runtime'[o].connections : runtime[o].of \in sessionIds'[d]
  BY <1>2 DEF Stage
<1> QED BY <1>2, <1>4, <1>5, <1>6, <1>7, <1>8, TouchAttached

(* EndOperation keeps Mapped and Attached.                                  *)
LEMMA EndOperationAttached ==
  ASSUME Mapped, Attached, NEW q \in Requests, EndOperation(q)
  PROVE  Mapped' /\ Attached'
<1>1. Types /\ RequestOf(q) /\ CountInv /\ request[q].pc = "operating"
  BY TypesSplit DEF Mapped, RequestInv, EndOperation
<1>2. PICK r \in Runtimes : r = request[q].live
  BY <1>1 DEF RequestOf
<1>3. runtime[r] \in RuntimeRecord /\ ~Opening(r) /\ Stage(r) # "none"
  BY <1>1, <1>2 DEF Types, RuntimeTypes, RequestOf
<1>4. runtime[r].operations \in 0..MaxRequests /\ runtime[r].operations # 0
  <2>1. Operations(r) \in SUBSET Requests /\ q \in Operations(r)
    BY <1>1, <1>2 DEF Operations
  <2> QED BY <1>1, <1>3, <2>1, Sizes DEF CountInv, RuntimeRecord
<1>5. PICK x : x = [runtime[r] EXCEPT !.operations = @ - 1]
  OBVIOUS
<1>6. /\ x \in RuntimeRecord /\ x.of = runtime[r].of /\ x.stage = Stage(r)
      /\ x.connections = runtime[r].connections
      /\ x.operations = runtime[r].operations - 1
  <2>1. runtime[r].operations - 1 \in 0..MaxRequests
    BY <1>4, LiveAssumption, SMT
  <2> QED BY <1>3, <1>5, <2>1 DEF RuntimeRecord, Stage
<1>7. PICK y : y = MaybeDispose(x)
  OBVIOUS
<1>8. /\ y \in RuntimeRecord /\ ~Disposable(y) /\ y.of = runtime[r].of
      /\ y.connections = runtime[r].connections
      /\ y.operations = runtime[r].operations - 1
      /\ \/ y.stage = Stage(r)
         \/ Stage(r) = "live" /\ y.stage = "disposing" /\ y.operations = 0
  BY <1>6, <1>7, Disposal
<1>9. /\ runtime' = [runtime EXCEPT ![r] = y] /\ Finish(q)
      /\ UNCHANGED <<conn, sessionIds, liveSessions, openingSessions, server, closeWaits>>
  <2>1. runtime' = [runtime EXCEPT ![r] =
                      MaybeDispose([runtime[r] EXCEPT !.operations = @ - 1])]
    BY <1>2, Zenon DEF EndOperation
  <2> QED BY <1>5, <1>7, <2>1 DEF EndOperation
<1>10. Moved(q, "done") /\ RequestOf(q)'
  BY <1>1, <1>9, Moves DEF Types, Finish, Moved, RequestOf
<1>11. runtime'[r] = y /\ \A o \in Runtimes \ {r} : runtime'[o] = runtime[o]
  BY <1>1, <1>8, <1>9, Updated DEF Types
<1>12. CountInv'
  <2>1. /\ Operations(r)' = Operations(r) \ {q} /\ q \in Operations(r)
        /\ Operations(r) \in SUBSET Requests
        /\ \A o \in Runtimes \ {r} : Operations(o)' = Operations(o)
    BY <1>1, <1>2, <1>10 DEF Operations, Moved
  <2>2. Cardinality(Operations(r)') = Cardinality(Operations(r)) - 1
    BY <2>1, Sizes
  <2> QED BY <1>1, <1>8, <1>11, <2>1, <2>2 DEF CountInv
<1>13. ConnTypes'
  BY <1>1, <1>9 DEF Types, ConnTypes
<1>14. \A o \in Runtimes : Stage(o) = "live" =>
         \A d \in IF o = r THEN y.connections ELSE runtime[o].connections :
           runtime[o].of \in sessionIds'[d]
  BY <1>8, <1>9, StillTold
<1> QED BY <1>1, <1>3, <1>8, <1>9, <1>10, <1>12, <1>13, <1>14, Stepped DEF Moved

(* RunOperation keeps Mapped and Attached.                                  *)
LEMMA RunOperationAttached ==
  ASSUME Mapped, Attached, NEW q \in Requests, NEW c \in Conns, NEW s \in Sessions,
         RunOperation(q, c, s)
  PROVE  Mapped' /\ Attached'
<1>1. /\ request[q].pc = "none" /\ server \in {"open", "closing"}
      /\ UNCHANGED <<conn, sessionIds, liveSessions, openingSessions, server, closeWaits>>
  BY DEF RunOperation, Receive
<1>2. Types /\ CountInv /\ ConnTypes'
  BY <1>1, TypesSplit DEF Mapped, Types, ConnTypes
<1>3. PICK r \in 0..MaxRuntimes : r = liveSessions[s]
  BY <1>2 DEF Types, ServerTypes
<1>4. CASE UNCHANGED runtime /\ request' = [request EXCEPT ![q] = At("done", c, s, r)]
  BY <1>1, <1>2, <1>4, StillTold, RefusedAttached
<1>5. CASE /\ requireAttached(c, s)
           /\ runtime' = [runtime EXCEPT ![r].operations = @ + 1]
           /\ request' = [request EXCEPT ![q] = At("operating", c, s, r)]
  <2>1. /\ r \in Runtimes /\ runtime[r].of = s /\ Stage(r) = "live" /\ ~Opening(r)
        /\ runtime[r] \in RuntimeRecord
    BY <1>2, <1>3, <1>5, InMaps DEF requireAttached, Stage, Opening, Types, RuntimeTypes
  <2>2. /\ RequestTypes'
        /\ request'[q].pc = "operating" /\ request'[q].of = s /\ request'[q].live = r
        /\ \A p \in Requests \ {q} : request'[p] = request[p]
    BY <1>2, <1>5, Arrives DEF Types, Places
  <2>3. /\ Operations(r)' = Operations(r) \cup {q} /\ q \in Requests \ Operations(r)
        /\ Operations(r) \in SUBSET Requests /\ Operations(r)' \in SUBSET Requests
        /\ \A o \in Runtimes \ {r} : Operations(o)' = Operations(o)
    BY <1>1, <2>2 DEF Operations
  <2>4. /\ Cardinality(Operations(r)') = Cardinality(Operations(r)) + 1
        /\ Cardinality(Operations(r)') \in 0..MaxRequests
    BY <2>3, Sizes
  <2>5. runtime[r].operations + 1 \in 0..MaxRequests /\ runtime[r].operations \in Nat
    BY <1>2, <2>1, <2>4 DEF CountInv, RuntimeRecord
  <2>6. PICK y : y = [runtime[r] EXCEPT !.operations = @ + 1]
    OBVIOUS
  <2>7. /\ y \in RuntimeRecord /\ y.of = runtime[r].of /\ y.stage = Stage(r)
        /\ y.connections = runtime[r].connections
        /\ y.operations = runtime[r].operations + 1
    BY <2>1, <2>5, <2>6 DEF RuntimeRecord, Stage
  <2>8. ~Disposable(y)
    BY <2>5, <2>7 DEF Disposable
  <2>9. runtime' = [runtime EXCEPT ![r] = y]
    BY <1>5, <2>6
  <2>10. runtime'[r] = y /\ \A o \in Runtimes \ {r} : runtime'[o] = runtime[o]
    BY <1>2, <2>1, <2>7, <2>9, Updated DEF Types
  <2>11. CountInv'
    BY <1>2, <2>1, <2>3, <2>4, <2>7, <2>10 DEF CountInv
  <2>12. RequestOf(q)'
    BY <2>1, <2>2, <2>7, <2>10 DEF RequestOf, Stage, Opening
  <2>13. \A o \in Runtimes : Stage(o) = "live" =>
           \A d \in IF o = r THEN y.connections ELSE runtime[o].connections :
             runtime[o].of \in sessionIds'[d]
    BY <1>1, <2>7, StillTold
  <2> QED BY <1>1, <1>2, <2>1, <2>2, <2>7, <2>8, <2>9, <2>11, <2>12, <2>13, Stepped
<1> QED BY <1>3, <1>4, <1>5 DEF RunOperation

(* Detach keeps Mapped and Attached.                                        *)
LEMMA DetachAttached ==
  ASSUME Mapped, Attached, NEW q \in Requests, NEW c \in Conns, NEW s \in Sessions,
         Detach(q, c, s)
  PROVE  Mapped' /\ Attached'
<1>1. /\ request[q].pc = "none" /\ server \in {"open", "closing"}
      /\ sessionIds' = [sessionIds EXCEPT ![c] = @ \ {s}]
      /\ UNCHANGED <<conn, liveSessions, openingSessions, server, closeWaits>>
  BY DEF Detach, Receive
<1>2. Types /\ CountInv
  BY TypesSplit DEF Mapped
<1>3. /\ ConnTypes'
      /\ sessionIds'[c] = sessionIds[c] \ {s}
      /\ \A d \in Conns \ {c} : sessionIds'[d] = sessionIds[d]
  BY <1>1, <1>2 DEF Types, ConnTypes
<1>4. PICK r \in 0..MaxRuntimes : r = liveSessions[s]
  BY <1>2 DEF Types, ServerTypes
<1>5. \A o \in Runtimes \ {r} : Stage(o) = "live" =>
        \A d \in runtime[o].connections : runtime[o].of \in sessionIds'[d]
  <2> SUFFICES ASSUME NEW o \in Runtimes \ {r}, Stage(o) = "live",
                      NEW d \in runtime[o].connections
               PROVE  runtime[o].of \in sessionIds'[d]
    OBVIOUS
  <2>1. runtime[o].of # s
    BY <1>1, <1>4, InMaps
  <2>2. d \in Conns /\ runtime[o].of \in sessionIds[d]
    BY <1>2, StillTold DEF Types, RuntimeTypes, RuntimeRecord
  <2> QED BY <1>3, <2>1, <2>2
<1>6. CASE /\ s \notin sessionIds[c] \/ r = 0
           /\ request' = [request EXCEPT ![q] = At("done", c, s, r)] /\ UNCHANGED runtime
  <2>1. \A o \in Runtimes : Stage(o) = "live" =>
          \A d \in runtime[o].connections : runtime[o].of \in sessionIds'[d]
    <3>1. CASE r = 0
      BY <1>5, <3>1, Numbers
    <3>2. CASE s \notin sessionIds[c]
      <4>1. sessionIds' = sessionIds
        BY <1>1, <1>2, <3>2 DEF Types, ConnTypes
      <4> QED BY <4>1, StillTold
    <3> QED BY <1>6, <3>1, <3>2
  <2> QED BY <1>1, <1>2, <1>3, <1>6, <2>1, RefusedAttached
<1>7. ASSUME s \in sessionIds[c], r # 0, NEW pc \in {"done", "detached"}, NEW y,
             request' = [request EXCEPT ![q] = At(pc, c, s, r)],
             runtime' = [runtime EXCEPT ![r] = y],
             LET left == [runtime[r] EXCEPT !.connections = @ \ {c}] IN
               \/ y = MaybeDispose(left)
               \/ y = left /\ left.connections # {}
      PROVE  Mapped' /\ Attached'
  <2>1. /\ r \in Runtimes /\ runtime[r].of = s /\ Stage(r) \in {"live", "disposing"}
        /\ ~Opening(r) /\ Stage(r) # "none" /\ runtime[r] \in RuntimeRecord
    BY <1>2, <1>4, <1>7, InMaps DEF Stage, Opening, Types, RuntimeTypes
  <2>2. PICK left : left = [runtime[r] EXCEPT !.connections = @ \ {c}]
    OBVIOUS
  <2>3. /\ left \in RuntimeRecord /\ left.of = runtime[r].of /\ left.stage = Stage(r)
        /\ left.connections = runtime[r].connections \ {c}
        /\ left.operations = runtime[r].operations
    BY <2>1, <2>2 DEF RuntimeRecord, Stage
  <2>4. /\ y \in RuntimeRecord /\ ~Disposable(y) /\ y.of = runtime[r].of
        /\ y.connections = runtime[r].connections \ {c}
        /\ y.operations = runtime[r].operations
        /\ \/ y.stage = Stage(r)
           \/ Stage(r) = "live" /\ y.stage = "disposing" /\ y.operations = 0
    <3>1. CASE y = MaybeDispose(left)
      BY <2>3, <3>1, Disposal
    <3>2. CASE y = left /\ left.connections # {}
      BY <2>3, <3>2 DEF Disposable
    <3> QED BY <1>7, <2>2, <3>1, <3>2
  <2>5. /\ RequestTypes'
        /\ request'[q].pc = pc /\ request'[q].of = s /\ request'[q].live = r
        /\ \A p \in Requests \ {q} : request'[p] = request[p]
    <3>1. pc \in Places
      BY <1>7 DEF Places
    <3>2. RequestTypes
      BY <1>2 DEF Types
    <3> QED BY <1>7, <3>1, <3>2, Arrives
  <2>6. runtime'[r] = y /\ \A o \in Runtimes \ {r} : runtime'[o] = runtime[o]
    BY <1>2, <1>7, <2>1, <2>4, Updated DEF Types
  <2>7. CountInv'
    <3>1. \A o \in Runtimes : runtime'[o].operations = runtime[o].operations
      BY <2>4, <2>6
    <3> QED BY <1>1, <1>2, <2>5, <3>1, CountStays
  <2>8. RequestOf(q)'
    BY <2>1, <2>4, <2>5, <2>6 DEF RequestOf, Stage, Opening
  <2>9. \A o \in Runtimes : Stage(o) = "live" =>
          \A d \in IF o = r THEN y.connections ELSE runtime[o].connections :
            runtime[o].of \in sessionIds'[d]
    <3> SUFFICES ASSUME Stage(r) = "live", NEW d \in y.connections
                 PROVE  runtime[r].of \in sessionIds'[d]
      BY <1>5
    <3>1. d \in Conns \ {c} /\ runtime[r].of \in sessionIds[d]
      BY <2>1, <2>4, StillTold DEF RuntimeRecord
    <3> QED BY <1>3, <3>1
  <2> QED BY <1>1, <1>3, <1>7, <2>1, <2>4, <2>5, <2>7, <2>8, <2>9, Stepped
<1>8. PICK left : left = [runtime[r] EXCEPT !.connections = @ \ {c}]
  OBVIOUS
<1>9. \/ /\ s \notin sessionIds[c] \/ r = 0
         /\ request' = [request EXCEPT ![q] = At("done", c, s, r)]
         /\ UNCHANGED runtime
      \/ /\ s \in sessionIds[c] /\ r # 0 /\ left.connections # {}
         /\ runtime' = [runtime EXCEPT ![r] = left]
         /\ request' = [request EXCEPT ![q] = At("detached", c, s, r)]
      \/ /\ s \in sessionIds[c] /\ r # 0
         /\ runtime' = [runtime EXCEPT ![r] = MaybeDispose(left)]
         /\ request' = [request EXCEPT ![q] = At("done", c, s, r)]
  BY <1>4, <1>8, Zenon DEF Detach
<1>10. CASE /\ s \in sessionIds[c] /\ r # 0 /\ left.connections # {}
            /\ runtime' = [runtime EXCEPT ![r] = left]
            /\ request' = [request EXCEPT ![q] = At("detached", c, s, r)]
  BY <1>7, <1>8, <1>10
<1>11. CASE /\ s \in sessionIds[c] /\ r # 0
            /\ runtime' = [runtime EXCEPT ![r] = MaybeDispose(left)]
            /\ request' = [request EXCEPT ![q] = At("done", c, s, r)]
  BY <1>7, <1>8, <1>11
<1> QED BY <1>6, <1>9, <1>10, <1>11

-----------------------------------------------------------------------------
(* Runtimes that work.                                                      *)

(* A runtime changes on its own.                                            *)
LEMMA Worked ==
  ASSUME Mapped, Attached, NEW r \in Runtimes, NEW y \in RuntimeRecord,
         runtime' = [runtime EXCEPT ![r] = y], y.of = runtime[r].of,
         y.connections = runtime[r].connections,
         y.operations = runtime[r].operations,
         \/ y.stage = Stage(r)
         \/ Stage(r) = "live" /\ y.stage = "disposing" /\ y.operations = 0,
         Disposable(y) => Disposable(runtime[r]),
         ConnTypes', \A c \in Conns : conn[c] = "gone" => conn'[c] = "gone",
         UNCHANGED <<sessionIds, liveSessions, openingSessions, request, server, closeWaits>>
  PROVE  Mapped' /\ Attached'
<1>1. Types /\ CountInv
  BY TypesSplit DEF Mapped
<1>2. /\ RuntimeTypes' /\ runtime'[r] = y
      /\ \A o \in Runtimes \ {r} : runtime'[o] = runtime[o]
      /\ \A o \in Runtimes : Touched(o)
  BY <1>1, OneTouched DEF Types
<1>3. Types'
  BY <1>1, <1>2 DEF Types, ServerTypes, RequestTypes
<1>4. CountInv'
  <2>1. \A o \in Runtimes : runtime'[o].operations = runtime[o].operations
    BY <1>2
  <2> QED BY <1>1, <2>1, CountStays
<1>5. Mapped'
  BY <1>2, <1>3, <1>4, TouchMapped
<1>6. GoneInv'
  BY DEF Attached, GoneInv
<1>7. \A o \in Runtimes : Disposable(runtime'[o]) => Disposable(runtime[o])
  BY <1>2
<1>8. \A o \in Runtimes : Stage(o)' = "live" =>
        \A d \in runtime'[o].connections : runtime[o].of \in sessionIds'[d]
  BY <1>2, StillTold DEF Stage
<1> QED BY <1>2, <1>5, <1>6, <1>7, <1>8, TouchAttached

(* Work keeps Mapped and Attached.                                          *)
LEMMA WorkAttached ==
  ASSUME Mapped, Attached, NEW q \in Requests, Work(q)
  PROVE  Mapped' /\ Attached'
<1>1. Types /\ RequestOf(q) /\ CountInv /\ request[q].pc = "operating"
  BY TypesSplit DEF Mapped, RequestInv, Work
<1>2. PICK r \in Runtimes : r = request[q].live
  BY <1>1 DEF RequestOf
<1>3. runtime[r] \in RuntimeRecord /\ runtime[r].operations # 0
  <2>1. Operations(r) \in SUBSET Requests /\ q \in Operations(r)
    BY <1>1, <1>2 DEF Operations
  <2> QED BY <1>1, <2>1, Sizes DEF CountInv, Types, RuntimeTypes
<1>4. PICK y : y = [runtime[r] EXCEPT !.busy = TRUE]
  OBVIOUS
<1>5. /\ y \in RuntimeRecord /\ y.of = runtime[r].of /\ y.stage = Stage(r)
      /\ y.connections = runtime[r].connections
      /\ y.operations = runtime[r].operations
  BY <1>3, <1>4 DEF RuntimeRecord, Stage
<1>6. ~Disposable(y)
  BY <1>3, <1>5 DEF Disposable
<1>7. /\ runtime' = [runtime EXCEPT ![r] = y]
      /\ UNCHANGED <<conn, sessionIds, liveSessions, openingSessions, request,
                     server, closeWaits>>
  BY <1>2, <1>4 DEF Work
<1>8. ConnTypes'
  BY <1>1, <1>7 DEF Types, ConnTypes
<1> QED BY <1>5, <1>6, <1>7, <1>8, Worked

(* BecomeIdle keeps Mapped and Attached.                                    *)
LEMMA BecomeIdleAttached ==
  ASSUME Mapped, Attached, NEW r \in Runtimes, BecomeIdle(r)
  PROVE  Mapped' /\ Attached'
<1>1. Types /\ runtime[r] \in RuntimeRecord
  BY TypesSplit DEF Mapped, Types, RuntimeTypes
<1>2. PICK x : x = [runtime[r] EXCEPT !.busy = FALSE]
  OBVIOUS
<1>3. /\ x \in RuntimeRecord /\ x.of = runtime[r].of /\ x.stage = Stage(r)
      /\ x.connections = runtime[r].connections
      /\ x.operations = runtime[r].operations /\ x.terminal = runtime[r].terminal
  BY <1>1, <1>2 DEF RuntimeRecord, Stage
<1>4. PICK y : y = IF Subscribed(r) THEN MaybeDispose(x) ELSE x
  OBVIOUS
<1>5. /\ y \in RuntimeRecord /\ y.of = runtime[r].of
      /\ y.connections = runtime[r].connections
      /\ y.operations = runtime[r].operations
      /\ \/ y.stage = Stage(r)
         \/ Stage(r) = "live" /\ y.stage = "disposing" /\ y.operations = 0
      /\ Disposable(y) => Disposable(runtime[r])
  <2>1. CASE Subscribed(r)
    BY <1>3, <1>4, <2>1, Disposal
  <2>2. CASE ~Subscribed(r)
    <3>1. y = x
      BY <1>4, <2>2
    <3>2. Disposable(x) => Disposable(runtime[r])
      BY <1>3, <2>2, Zenon DEF Disposable, Subscribed, Stage
    <3> QED BY <1>3, <3>1, <3>2
  <2> QED BY <2>1, <2>2
<1>6. /\ runtime' = [runtime EXCEPT ![r] = y]
      /\ UNCHANGED <<conn, sessionIds, liveSessions, openingSessions, request,
                     server, closeWaits>>
  BY <1>2, <1>4 DEF BecomeIdle
<1>7. ConnTypes'
  BY <1>1, <1>6 DEF Types, ConnTypes
<1> QED BY <1>5, <1>6, <1>7, Worked

(* Terminate keeps Mapped and Attached.                                     *)
LEMMA TerminateAttached ==
  ASSUME Mapped, Attached, NEW r \in Runtimes, Terminate(r)
  PROVE  Mapped' /\ Attached'
<1>1. Types /\ runtime[r] \in RuntimeRecord
  BY TypesSplit DEF Mapped, Types, RuntimeTypes
<1>2. PICK x : x = [runtime[r] EXCEPT !.terminal = TRUE]
  OBVIOUS
<1>3. /\ x \in RuntimeRecord /\ x.of = runtime[r].of /\ x.stage = Stage(r)
      /\ x.connections = runtime[r].connections
      /\ x.operations = runtime[r].operations
  BY <1>1, <1>2 DEF RuntimeRecord, Stage
<1>4. PICK y : y = MaybeDispose(x)
  OBVIOUS
<1>5. /\ y \in RuntimeRecord /\ y.of = runtime[r].of
      /\ y.connections = runtime[r].connections
      /\ y.operations = runtime[r].operations /\ ~Disposable(y)
      /\ \/ y.stage = Stage(r)
         \/ Stage(r) = "live" /\ y.stage = "disposing" /\ y.operations = 0
  BY <1>3, <1>4, Disposal
<1>6. /\ runtime' = [runtime EXCEPT ![r] = y]
      /\ conn' = [c \in Conns |->
                    IF c \in runtime[r].connections /\ conn[c] = "ready"
                    THEN "failing" ELSE conn[c]]
      /\ UNCHANGED <<sessionIds, liveSessions, openingSessions, request,
                     server, closeWaits>>
  BY <1>2, <1>4 DEF Terminate
<1>7. ConnTypes' /\ \A c \in Conns : conn[c] = "gone" => conn'[c] = "gone"
  BY <1>1, <1>6 DEF Types, ConnTypes
<1> QED BY <1>5, <1>6, <1>7, Worked

-----------------------------------------------------------------------------
(* Connections and the server.                                              *)

(* A connection or the server changes, and nothing else.                    *)
LEMMA Quiet ==
  ASSUME Mapped, Attached, ConnTypes', ServerTypes', GoneInv',
         UNCHANGED <<sessionIds, liveSessions, openingSessions, runtime, request>>,
         server' = "open" => server = "open", server' = "closed" <=> server = "closed"
  PROVE  Mapped' /\ Attached'
<1>1. Types /\ CountInv
  BY TypesSplit DEF Mapped
<1>2. Types'
  BY <1>1 DEF Types, RuntimeTypes, RequestTypes
<1>3. \A r \in Runtimes : Touched(r)
  BY DEF Touched, Stage
<1>4. CountInv'
  BY <1>1, CountStays
<1>5. Mapped'
  BY <1>2, <1>3, <1>4, TouchMapped
<1>6. ToldOnlyIfAttached' /\ NotTooEarly'
  BY DEF Attached, ToldOnlyIfAttached, NotTooEarly
<1>7. NotTooLate'
  <2>1. \A r \in Runtimes : Disposable(runtime[r])' => Disposable(runtime[r])
    BY DEF Disposable, isClosing
  <2> QED BY <2>1 DEF Attached, NotTooLate
<1> QED BY <1>5, <1>6, <1>7 DEF Attached

(* Fail keeps Mapped and Attached.                                          *)
LEMMA FailAttached ==
  ASSUME Mapped, Attached, NEW c \in Conns, Fail(c)
  PROVE  Mapped' /\ Attached'
<1>1. Types
  BY TypesSplit DEF Mapped
<1>2. ConnTypes' /\ ServerTypes' /\ GoneInv'
  BY <1>1 DEF Fail, Types, ConnTypes, ServerTypes, Attached, GoneInv
<1> QED BY <1>2, Quiet DEF Fail

(* Close keeps Mapped and Attached.                                         *)
LEMMA CloseAttached ==
  ASSUME Mapped, Attached, Close
  PROVE  Mapped' /\ Attached'
<1>1. Types
  BY TypesSplit DEF Mapped
<1>2. ConnTypes' /\ ServerTypes' /\ GoneInv'
  BY <1>1 DEF Close, Types, ConnTypes, ServerTypes, GoneInv
<1> QED BY <1>2, Quiet DEF Close

(* CloseConnections keeps Mapped and Attached.                              *)
LEMMA CloseConnectionsAttached ==
  ASSUME Mapped, Attached, CloseConnections
  PROVE  Mapped' /\ Attached'
<1>1. Types
  BY TypesSplit DEF Mapped
<1>2. ConnTypes' /\ ServerTypes' /\ GoneInv'
  BY <1>1 DEF CloseConnections, Types, ConnTypes, ServerTypes, GoneInv
<1> QED BY <1>2, Quiet DEF CloseConnections

(* WaitForOpenings keeps Mapped and Attached.                               *)
LEMMA WaitForOpeningsAttached ==
  ASSUME Mapped, Attached, WaitForOpenings
  PROVE  Mapped' /\ Attached'
<1>1. Types
  BY TypesSplit DEF Mapped
<1>2. Openings \subseteq Runtimes
  BY <1>1, Numbers DEF Openings, Types, ServerTypes
<1>3. ConnTypes' /\ ServerTypes' /\ GoneInv'
  BY <1>1, <1>2 DEF WaitForOpenings, Types, ConnTypes, ServerTypes, GoneInv
<1> QED BY <1>3, Quiet DEF WaitForOpenings

(* Disconnect keeps Mapped and Attached.                                    *)
LEMMA DisconnectAttached ==
  ASSUME Mapped, Attached, NEW c \in Conns, Disconnect(c)
  PROVE  Mapped' /\ Attached'
<1>1. Types /\ CountInv
  BY TypesSplit DEF Mapped
<1>2. server # "closed"
  BY DEF Disconnect, Attached, GoneInv
<1>3. PICK of : of = {liveSessions[s] : s \in sessionIds[c]}
  OBVIOUS
<1>4. /\ runtime' = [r \in Runtimes |->
                       IF r \in of
                       THEN MaybeDispose([runtime[r] EXCEPT !.connections = @ \ {c}])
                       ELSE runtime[r]]
      /\ conn' = [conn EXCEPT ![c] = "gone"]
      /\ sessionIds' = [sessionIds EXCEPT ![c] = {}]
      /\ UNCHANGED <<liveSessions, openingSessions, request, server, closeWaits>>
  BY <1>3 DEF Disconnect
<1>5. /\ ConnTypes' /\ ServerTypes' /\ RequestTypes'
      /\ \A d \in Conns \ {c} : sessionIds'[d] = sessionIds[d]
  BY <1>1, <1>4 DEF Types, ConnTypes, ServerTypes, RequestTypes
<1>6. ASSUME NEW r \in Runtimes \cap of
      PROVE  /\ runtime'[r] \in RuntimeRecord /\ ~Disposable(runtime'[r])
             /\ runtime'[r].operations = runtime[r].operations
             /\ runtime'[r].connections = runtime[r].connections \ {c}
             /\ Stage(r)' = "live" => Stage(r) = "live"
             /\ Touched(r)
  <2>1. Stage(r) \in {"live", "disposing"}
    <3>1. sessionIds[c] \subseteq Sessions /\ r # 0
      BY <1>1, Numbers DEF Types, ConnTypes
    <3> QED BY <1>3, <3>1, InMaps
  <2>2. PICK x : x = [runtime[r] EXCEPT !.connections = @ \ {c}]
    OBVIOUS
  <2>3. /\ x \in RuntimeRecord /\ x.of = runtime[r].of /\ x.stage = Stage(r)
        /\ x.connections = runtime[r].connections \ {c}
        /\ x.operations = runtime[r].operations
    BY <1>1, <2>2 DEF Types, RuntimeTypes, RuntimeRecord, Stage
  <2>4. PICK y : y = MaybeDispose(x)
    OBVIOUS
  <2>5. /\ y \in RuntimeRecord /\ ~Disposable(y) /\ y.of = x.of
        /\ y.connections = x.connections /\ y.operations = x.operations
        /\ \/ y.stage = x.stage
           \/ x.stage = "live" /\ y.stage = "disposing" /\ x.operations = 0
    BY <2>3, <2>4, Disposal
  <2>6. runtime'[r] = y
    BY <1>4, <2>2, <2>4
  <2> QED BY <2>1, <2>3, <2>5, <2>6 DEF Touched, Opening, Stage
<1>7. \A r \in Runtimes \ of : runtime'[r] = runtime[r] /\ Touched(r)
  BY <1>4 DEF Touched, Stage
<1>8. \A r \in Runtimes : Touched(r)
  BY <1>6, <1>7
<1>9. Types'
  <2>1. \A r \in Runtimes : runtime'[r] \in RuntimeRecord
    BY <1>1, <1>6, <1>7 DEF Types, RuntimeTypes
  <2>2. RuntimeTypes'
    BY <1>4, <2>1 DEF RuntimeTypes
  <2> QED BY <1>5, <2>2 DEF Types
<1>10. CountInv'
  <2>1. \A r \in Runtimes : runtime'[r].operations = runtime[r].operations
    BY <1>6, <1>7
  <2> QED BY <1>1, <1>4, <2>1, CountStays
<1>11. Mapped'
  BY <1>4, <1>8, <1>9, <1>10, TouchMapped
<1>12. GoneInv'
  BY <1>1, <1>4 DEF Attached, GoneInv, Types, ConnTypes
<1>13. \A r \in Runtimes : Disposable(runtime'[r]) => Disposable(runtime[r])
  BY <1>6, <1>7
<1>14. \A r \in Runtimes : Stage(r)' = "live" =>
         \A d \in runtime'[r].connections : runtime[r].of \in sessionIds'[d]
  <2> SUFFICES ASSUME NEW r \in Runtimes, Stage(r)' = "live",
                      NEW d \in runtime'[r].connections
               PROVE  runtime[r].of \in sessionIds'[d]
    OBVIOUS
  <2>1. d \in Conns
    BY <1>9 DEF Types, RuntimeTypes, RuntimeRecord
  <2>2. Stage(r) = "live"
    BY <1>6, <1>7 DEF Stage
  <2>3. d \in runtime[r].connections /\ runtime[r].of \in sessionIds[d]
    BY <1>6, <1>7, <2>2, StillTold
  <2>4. d # c
    <3>1. CASE r \in of
      BY <1>6, <3>1
    <3>2. CASE r \notin of
      <4>1. liveSessions[runtime[r].of] = r
        BY <1>2, <2>2, InMaps
      <4> QED BY <1>3, <2>3, <3>2, <4>1
    <3> QED BY <3>1, <3>2
  <2> QED BY <1>5, <2>1, <2>3, <2>4
<1> QED BY <1>4, <1>8, <1>11, <1>12, <1>13, <1>14, TouchAttached

(* DisposeAll keeps Mapped and Attached.                                    *)
LEMMA DisposeAllAttached ==
  ASSUME Mapped, Attached, DisposeAll
  PROVE  Mapped' /\ Attached'
<1>1. Types /\ MapInv /\ OpenInv /\ RequestInv /\ CountInv
  BY TypesSplit DEF Mapped
<1>2. PICK all : all = {liveSessions[s] : s \in Sessions} \ {0}
  OBVIOUS
<1>3. /\ runtime' = [r \in Runtimes |-> IF r \in all
                       THEN [runtime[r] EXCEPT !.stage = "disposing"] ELSE runtime[r]]
      /\ closeWaits' = all /\ liveSessions' = [s \in Sessions |-> 0]
      /\ server = "disposing" /\ server' = "closed"
      /\ UNCHANGED <<conn, sessionIds, openingSessions, request>>
  BY <1>2 DEF DisposeAll
<1>4. all \subseteq Runtimes /\ \A r \in all : Stage(r) \in {"live", "disposing"}
  BY <1>2, InMaps
<1>5. /\ RuntimeTypes'
      /\ \A r \in Runtimes :
           /\ runtime'[r].of = runtime[r].of
           /\ runtime'[r].connections = runtime[r].connections
           /\ runtime'[r].operations = runtime[r].operations
           /\ IF r \in all THEN Stage(r)' = "disposing" ELSE Stage(r)' = Stage(r)
  BY <1>1, <1>3 DEF Types, RuntimeTypes, RuntimeRecord, Stage
<1>6. Types'
  BY <1>1, <1>3, <1>4, <1>5, Numbers DEF Types, ConnTypes, ServerTypes, RequestTypes
<1>7. \A r \in Runtimes :
        /\ Opening(r)' <=> Opening(r)
        /\ Held(r)' <=> Held(r)
        /\ Stage(r)' = "none" <=> Stage(r) = "none"
        /\ Stage(r)' = "live" => Stage(r) = "live"
  BY <1>4, <1>5 DEF Opening, Held, Stage
<1>8. MapInv'
  BY <1>1, <1>3, <1>5, <1>7, InMaps DEF MapInv
<1>9. OpenInv'
  BY <1>1, <1>3, <1>5, <1>7 DEF OpenInv
<1>10. RequestInv'
  BY <1>1, <1>3, <1>5, <1>7 DEF RequestInv, RequestOf
<1>11. CountInv'
  BY <1>1, <1>3, <1>5, CountStays
<1>12. GoneInv' /\ NotTooEarly' /\ NotTooLate'
  BY <1>3 DEF Attached, GoneInv, NotTooEarly, NotTooLate, Disposable, isClosing
<1>13. ToldOnlyIfAttached'
  BY <1>3, <1>5, <1>7, StillTold DEF ToldOnlyIfAttached, Stage
<1> QED BY <1>6, <1>8, <1>9, <1>10, <1>11, <1>12, <1>13, TypesSplit DEF Mapped, Attached

-----------------------------------------------------------------------------
(* Runtimes that are opened, fail to open, and are over.                    *)

(* AcquireSucceeds keeps Mapped and Attached.                               *)
LEMMA AcquireSucceedsAttached ==
  ASSUME Mapped, Attached, NEW r \in Runtimes,
         AcquireSucceeds(r) \/ SnapshotFails(r)
  PROVE  Mapped' /\ Attached'
<1>1. Types /\ CountInv /\ runtime[r] \in RuntimeRecord
  BY TypesSplit DEF Mapped, Types, RuntimeTypes
<1>2. PICK stage \in {"abandoned", "reading"} :
        /\ runtime' = [runtime EXCEPT ![r].stage = stage]
        /\ Stage(r) \in {"acquiring", "reading"}
        /\ UNCHANGED <<conn, sessionIds, liveSessions, openingSessions, request,
                       server, closeWaits>>
  BY DEF AcquireSucceeds, SnapshotFails, Stage
<1>3. /\ RuntimeTypes' /\ Stage(r)' = stage /\ runtime'[r].of = runtime[r].of
      /\ runtime'[r].connections = runtime[r].connections
      /\ runtime'[r].operations = runtime[r].operations
      /\ \A o \in Runtimes \ {r} : runtime'[o] = runtime[o]
  BY <1>1, <1>2 DEF Types, RuntimeTypes, RuntimeRecord, Stage
<1>4. \A o \in Runtimes : Touched(o)
  BY <1>2, <1>3 DEF Touched, Opening, Stage
<1>5. Types'
  BY <1>1, <1>2, <1>3 DEF Types, ConnTypes, ServerTypes, RequestTypes
<1>6. CountInv'
  BY <1>1, <1>2, <1>3, CountStays
<1>7. Mapped'
  BY <1>2, <1>4, <1>5, <1>6, TouchMapped
<1>8. GoneInv'
  BY <1>2 DEF Attached, GoneInv
<1>9. \A o \in Runtimes : Disposable(runtime'[o]) => Disposable(runtime[o])
  BY <1>2, <1>3 DEF Disposable, Stage
<1>10. \A o \in Runtimes : Stage(o)' = "live" =>
         \A d \in runtime'[o].connections : runtime[o].of \in sessionIds'[d]
  BY <1>2, <1>3, StillTold DEF Stage
<1> QED BY <1>2, <1>4, <1>7, <1>8, <1>9, <1>10, TouchAttached

(* An opening ends: its runtime is live or over, and its requests go on.    *)
LEMMA Settled ==
  ASSUME Types, NEW r \in Runtimes, NEW pc \in {"acquired", "done"}, Settle(r, pc)
  PROVE  /\ RequestTypes'
         /\ \A q \in Requests :
              \/ /\ request[q].pc = "opening" /\ request[q].live = r
                 /\ request'[q].pc = pc /\ request'[q].live = r
                 /\ request'[q].of = request[q].of
              \/ /\ ~(request[q].pc = "opening" /\ request[q].live = r)
                 /\ request'[q] = request[q]
         /\ runtime[r].of \in Sessions
         /\ openingSessions' \in [Sessions -> 0..MaxRuntimes]
         /\ openingSessions'[runtime[r].of] = 0
         /\ \A s \in Sessions \ {runtime[r].of} : openingSessions'[s] = openingSessions[s]
<1>1. ASSUME NEW q \in Requests
      PROVE  /\ request'[q] \in RequestRecord
             /\ \/ /\ request[q].pc = "opening" /\ request[q].live = r
                   /\ request'[q].pc = pc /\ request'[q].live = r
                   /\ request'[q].of = request[q].of
                \/ /\ ~(request[q].pc = "opening" /\ request[q].live = r)
                   /\ request'[q] = request[q]
  <2>1. request[q] \in RequestRecord
    BY DEF Types, RequestTypes
  <2>2. request'[q] = IF request[q].pc = "opening" /\ request[q].live = r
                      THEN [request[q] EXCEPT !.pc = pc] ELSE request[q]
    BY DEF Settle
  <2> QED BY <2>1, <2>2 DEF RequestRecord
<1>2. RequestTypes'
  BY <1>1 DEF Settle, RequestTypes
<1>3. runtime[r].of \in Sessions
  BY DEF Types, RuntimeTypes, RuntimeRecord
<1>4. /\ openingSessions' \in [Sessions -> 0..MaxRuntimes]
      /\ openingSessions'[runtime[r].of] = 0
      /\ \A s \in Sessions \ {runtime[r].of} : openingSessions'[s] = openingSessions[s]
  BY <1>3, Numbers DEF Types, ServerTypes, Settle
<1> QED BY <1>1, <1>2, <1>3, <1>4

(* An opening that ends, well or not, lets go all who waited for it.        *)
LEMMA EndsOpening ==
  ASSUME Mapped, Attached, NEW r \in Runtimes, Opening(r),
         NEW stage \in {"live", "over"},
         runtime' = [runtime EXCEPT ![r].stage = stage],
         Settle(r, IF stage = "live" THEN "acquired" ELSE "done"),
         liveSessions' = IF stage = "live" THEN [liveSessions EXCEPT ![runtime[r].of] = r]
                         ELSE liveSessions,
         UNCHANGED <<conn, sessionIds, server, closeWaits>>
  PROVE  Mapped' /\ Attached'
<1>1. Types /\ MapInv /\ OpenInv /\ RequestInv /\ CountInv
  BY TypesSplit DEF Mapped
<1>2. PICK s \in Sessions : s = runtime[r].of
  BY <1>1 DEF Types, RuntimeTypes, RuntimeRecord
<1>3. PICK pc \in {"acquired", "done"} : pc = IF stage = "live" THEN "acquired" ELSE "done"
  OBVIOUS
<1>4. /\ RequestTypes'
      /\ \A q \in Requests :
           \/ /\ request[q].pc = "opening" /\ request[q].live = r
              /\ request'[q].pc = pc /\ request'[q].live = r
              /\ request'[q].of = request[q].of
           \/ /\ ~(request[q].pc = "opening" /\ request[q].live = r)
              /\ request'[q] = request[q]
      /\ openingSessions' \in [Sessions -> 0..MaxRuntimes]
      /\ openingSessions'[s] = 0
      /\ \A t \in Sessions \ {s} : openingSessions'[t] = openingSessions[t]
  BY <1>1, <1>2, <1>3, Settled
<1>5. /\ RuntimeTypes' /\ Stage(r)' = stage /\ runtime'[r].of = s
      /\ runtime'[r].connections = runtime[r].connections
      /\ runtime'[r].operations = runtime[r].operations
      /\ \A o \in Runtimes \ {r} : runtime'[o] = runtime[o]
  BY <1>1, <1>2 DEF Types, RuntimeTypes, RuntimeRecord, Stage
<1>6. r # 0 /\ r \in 0..MaxRuntimes
  BY Numbers
<1>7. /\ liveSessions' \in [Sessions -> 0..MaxRuntimes]
      /\ liveSessions'[s] = IF stage = "live" THEN r ELSE liveSessions[s]
      /\ \A t \in Sessions \ {s} : liveSessions'[t] = liveSessions[t]
  BY <1>1, <1>2, <1>6 DEF Types, ServerTypes
<1>8. Types'
  BY <1>1, <1>4, <1>5, <1>7 DEF Types, ConnTypes, ServerTypes
<1>9. /\ Held(r) /\ ~Opening(r)' /\ Stage(r)' \in {"live", "over"}
      /\ \A o \in Runtimes \ {r} :
           /\ Stage(o)' = Stage(o) /\ (Held(o)' <=> Held(o))
           /\ (Opening(o)' <=> Opening(o)) /\ runtime'[o] = runtime[o]
  BY <1>5 DEF Held, Opening, Stage
<1>10. \A o \in Runtimes \ {r} : Held(o) => runtime[o].of # s
  BY <1>1, <1>2, <1>9 DEF MapInv
<1>11. liveSessions[s] = 0 /\ openingSessions[s] = r
  <2>1. ~(Stage(r) \in {"live", "disposing"})
    BY DEF Opening, Stage
  <2>2. \A o \in Runtimes : Stage(o) \in {"live", "disposing"} => Held(o)
    BY DEF Held
  <2> QED BY <1>1, <1>2, <1>10, <2>1, <2>2, InMaps DEF MapInv
<1>12. MapInv'
  <2>1. \A a, b \in Runtimes :
          (Held(a) /\ Held(b) /\ runtime[a].of = runtime[b].of => a = b)'
    BY <1>1, <1>2, <1>5, <1>9 DEF MapInv
  <2>2. \A t \in Sessions :
          (openingSessions[t] # 0 =>
             Opening(openingSessions[t]) /\ runtime[openingSessions[t]].of = t)'
    <3> SUFFICES ASSUME NEW t \in Sessions, openingSessions'[t] # 0
                 PROVE  (Opening(openingSessions[t]) /\ runtime[openingSessions[t]].of = t)'
      OBVIOUS
    <3>1. t # s /\ openingSessions'[t] = openingSessions[t]
      BY <1>4
    <3>2. PICK o \in Runtimes : o = openingSessions[t] /\ runtime[o].of = t /\ Opening(o)
      BY <3>1, InMaps
    <3> QED BY <1>2, <1>9, <3>1, <3>2
  <2>3. \A t \in Sessions :
          (liveSessions[t] # 0 => /\ Stage(liveSessions[t]) \in {"live", "disposing"}
                                  /\ runtime[liveSessions[t]].of = t)'
    <3> SUFFICES ASSUME NEW t \in Sessions, liveSessions'[t] # 0
                 PROVE  (/\ Stage(liveSessions[t]) \in {"live", "disposing"}
                         /\ runtime[liveSessions[t]].of = t)'
      OBVIOUS
    <3>1. CASE t = s
      BY <1>5, <1>7, <1>11, <3>1
    <3>2. CASE t # s
      <4>1. PICK o \in Runtimes : /\ o = liveSessions'[t] /\ runtime[o].of = t
                                  /\ Stage(o) \in {"live", "disposing"}
        BY <1>7, <3>2, InMaps
      <4> QED BY <1>2, <1>9, <3>2, <4>1
    <3> QED BY <3>1, <3>2
  <2>4. \A o \in Runtimes : (Opening(o) => openingSessions[runtime[o].of] = o)'
    <3> SUFFICES ASSUME NEW o \in Runtimes, Opening(o)'
                 PROVE  openingSessions'[runtime'[o].of] = o
      OBVIOUS
    <3>1. o # r /\ Opening(o) /\ runtime'[o] = runtime[o] /\ runtime[o].of \in Sessions
      BY <1>1, <1>9 DEF Types, RuntimeTypes, RuntimeRecord
    <3>2. runtime[o].of # s
      BY <1>10, <3>1 DEF Held, Opening, Stage
    <3> QED BY <1>1, <1>4, <3>1, <3>2 DEF MapInv
  <2>5. \A o \in Runtimes :
          (Stage(o) \in {"live", "disposing"} /\ server # "closed" =>
             liveSessions[runtime[o].of] = o)'
    <3> SUFFICES ASSUME NEW o \in Runtimes, Stage(o)' \in {"live", "disposing"},
                        server # "closed"
                 PROVE  liveSessions'[runtime'[o].of] = o
      OBVIOUS
    <3>1. CASE o = r
      BY <1>5, <1>7, <3>1
    <3>2. CASE o # r
      <4>1. /\ Stage(o) \in {"live", "disposing"} /\ runtime'[o] = runtime[o]
            /\ runtime[o].of \in Sessions
        BY <1>1, <1>9, <3>2 DEF Types, RuntimeTypes, RuntimeRecord
      <4>2. runtime[o].of # s
        BY <1>10, <3>2, <4>1 DEF Held
      <4> QED BY <1>7, <4>1, <4>2, InMaps
    <3> QED BY <3>1, <3>2
  <2> QED BY <2>1, <2>2, <2>3, <2>4, <2>5 DEF MapInv
<1>13. OpenInv'
  <2> SUFFICES ASSUME NEW o \in Runtimes
               PROVE  /\ Stage(o)' = "none" \/ Opening(o)' => runtime'[o].connections = {}
                      /\ Opening(o)' => \E p \in Requests : request'[p].pc = "opening"
                                                           /\ request'[p].live = o
    BY DEF OpenInv
  <2>1. CASE o = r
    BY <1>5, <1>9, <2>1
  <2>2. CASE o # r
    BY <1>1, <1>4, <1>9, <2>2 DEF OpenInv
  <2> QED BY <2>1, <2>2
<1>14. RequestInv'
  <2> SUFFICES ASSUME NEW q \in Requests PROVE RequestOf(q)'
    BY DEF RequestInv
  <2>1. RequestOf(q)
    BY <1>1 DEF RequestInv
  <2>2. CASE request[q].pc = "opening" /\ request[q].live = r
    BY <1>2, <1>4, <1>5, <1>9, <2>1, <2>2 DEF RequestOf
  <2>3. CASE ~(request[q].pc = "opening" /\ request[q].live = r)
    <3>1. request'[q] = request[q]
      BY <1>4, <2>3
    <3>2. \A o \in Runtimes : /\ runtime'[o].of = runtime[o].of
                              /\ (Opening(o)' => Opening(o))
                              /\ (Stage(o)' = "none" => Stage(o) = "none")
      BY <1>2, <1>5, <1>9
    <3> QED BY <2>1, <3>1, <3>2 DEF RequestOf
  <2> QED BY <2>2, <2>3
<1>15. CountInv'
  <2>1. \A o \in Runtimes : runtime'[o].operations = runtime[o].operations
    BY <1>5
  <2>2. \A q \in Requests : \/ request'[q] = request[q]
                            \/ request[q].pc # "operating" /\ request'[q].pc # "operating"
    BY <1>4
  <2> QED BY <1>1, <2>1, <2>2, CountStays
<1>16. GoneInv'
  BY DEF Attached, GoneInv
<1>17. ToldOnlyIfAttached'
  <2> SUFFICES ASSUME NEW o \in Runtimes, Stage(o)' = "live",
                      NEW c \in runtime'[o].connections
               PROVE  runtime'[o].of \in sessionIds[c]
    BY DEF ToldOnlyIfAttached, Stage
  <2>1. o # r
    BY <1>1, <1>5 DEF OpenInv
  <2> QED BY <1>9, <2>1, StillTold
<1>18. NotTooEarly'
  <2> SUFFICES ASSUME NEW q \in Requests, request'[q].pc = "operating", server # "closed"
               PROVE  runtime'[request'[q].live].stage = "live"
    BY DEF NotTooEarly, Stage
  <2>1. request'[q] = request[q] /\ RequestOf(q)
    BY <1>1, <1>4 DEF RequestInv
  <2>2. Stage(request[q].live) = "live" /\ request[q].live \in Runtimes
    BY <2>1 DEF Attached, NotTooEarly, Stage, RequestOf
  <2>3. request[q].live # r
    BY <2>2 DEF Opening, Stage
  <2> QED BY <1>9, <2>1, <2>2, <2>3 DEF Stage
<1>19. NotTooLate'
  <2> SUFFICES ASSUME NEW o \in Runtimes, Disposable(runtime[o])'
               PROVE  \E q \in Requests : /\ request'[q].pc \in {"acquired", "detached"}
                                          /\ request'[q].live = o
    BY DEF NotTooLate
  <2>1. CASE o = r
    <3>1. stage = "live"
      BY <1>5, <2>1 DEF Disposable, Stage
    <3>2. PICK q \in Requests : request[q].pc = "opening" /\ request[q].live = r
      BY <1>1 DEF OpenInv
    <3> QED BY <1>3, <1>4, <2>1, <3>1, <3>2
  <2>2. CASE o # r
    <3>1. Disposable(runtime[o])
      BY <1>9, <2>2 DEF Disposable, isClosing
    <3>2. PICK q \in Requests : /\ request[q].pc \in {"acquired", "detached"}
                                /\ request[q].live = o
      BY <3>1 DEF Attached, NotTooLate
    <3> QED BY <1>4, <3>2
  <2> QED BY <2>1, <2>2
<1> QED BY <1>8, <1>12, <1>13, <1>14, <1>15, <1>16, <1>17, <1>18, <1>19, TypesSplit
        DEF Mapped, Attached

(* Opening keeps Mapped and Attached.                                       *)
LEMMA OpeningAttached ==
  ASSUME Mapped, Attached, NEW r \in Runtimes,
         AcquireFails(r) \/ Abandon(r) \/ BecomeLive(r)
  PROVE  Mapped' /\ Attached'
<1>1. CASE AcquireFails(r) \/ Abandon(r)
  BY <1>1, EndsOpening DEF AcquireFails, Abandon, Opening
<1>2. CASE BecomeLive(r)
  BY <1>2, EndsOpening DEF BecomeLive, Opening
<1> QED BY <1>1, <1>2

(* The end of a disposal: its runtime is over, and no map has it any more.  *)
LEMMA EndDisposalAttached ==
  ASSUME Mapped, Attached, NEW r \in Runtimes, EndDisposal(r)
  PROVE  Mapped' /\ Attached'
<1>1. Types /\ MapInv /\ OpenInv /\ RequestInv /\ CountInv
  BY TypesSplit DEF Mapped
<1>2. PICK s \in Sessions : s = runtime[r].of
  BY <1>1 DEF Types, RuntimeTypes, RuntimeRecord
<1>3. /\ Stage(r) = "disposing" /\ Held(r) /\ ~Opening(r)
      /\ liveSessions' = [t \in Sessions |-> IF liveSessions[t] = r THEN 0
                                             ELSE liveSessions[t]]
      /\ UNCHANGED <<conn, sessionIds, server, closeWaits>>
  BY DEF EndDisposal, Stage, Held, Opening
<1>4. /\ liveSessions' \in [Sessions -> 0..MaxRuntimes] /\ liveSessions'[s] = 0
      /\ \A t \in Sessions : liveSessions'[t] # 0 =>
           liveSessions'[t] = liveSessions[t] /\ liveSessions[t] # r
      /\ \A t \in Sessions : liveSessions[t] # r => liveSessions'[t] = liveSessions[t]
  <2>1. \A t \in Sessions : liveSessions[t] \in 0..MaxRuntimes
    BY <1>1 DEF Types, ServerTypes
  <2>2. liveSessions[s] = 0 \/ liveSessions[s] = r
    <3>1. ASSUME liveSessions[s] # 0 PROVE liveSessions[s] = r
      BY <1>1, <1>2, <1>3, <3>1, InMaps DEF MapInv, Held
    <3> QED BY <3>1
  <2> QED BY <1>3, <2>1, <2>2, Numbers
<1>5. \A o \in Runtimes \ {r} : Held(o) => runtime[o].of # s
  BY <1>1, <1>2, <1>3 DEF MapInv
<1>6. openingSessions[s] = 0
  BY <1>3, <1>5, InMaps DEF Held, Opening, Stage
<1>7. \A q \in Requests : RequestOf(q)
  BY <1>1 DEF RequestInv
<1>8. \A q \in Requests : request[q].pc = "operating" /\ server # "closed" =>
        request[q].live # r /\ Stage(request[q].live) = "live"
  BY <1>3 DEF Attached, NotTooEarly, Stage
<1>9. ASSUME /\ runtime' = [runtime EXCEPT ![r].stage = "over"]
             /\ request' = [q \in Requests |-> IF q \in Waiting(r)
                              THEN [request[q] EXCEPT !.pc = "done"] ELSE request[q]]
             /\ UNCHANGED openingSessions
      PROVE  Mapped' /\ Attached'
  <2>1. /\ RuntimeTypes' /\ Stage(r)' = "over"
        /\ runtime'[r].of = s /\ runtime'[r].operations = runtime[r].operations
        /\ \A o \in Runtimes \ {r} : runtime'[o] = runtime[o]
    BY <1>1, <1>2, <1>9 DEF Types, RuntimeTypes, RuntimeRecord, Stage
  <2>2. \A q \in Requests :
          /\ request'[q] \in RequestRecord
          /\ \/ request'[q] = request[q]
             \/ request[q].pc = "wait" /\ request'[q].pc = "done"
    <3> SUFFICES ASSUME NEW q \in Requests
                 PROVE  /\ request'[q] \in RequestRecord
                        /\ \/ request'[q] = request[q]
                           \/ request[q].pc = "wait" /\ request'[q].pc = "done"
      OBVIOUS
    <3>1. request[q] \in RequestRecord
      BY <1>1 DEF Types, RequestTypes
    <3>2. request'[q] = IF q \in Waiting(r) THEN [request[q] EXCEPT !.pc = "done"]
                        ELSE request[q]
      BY <1>9
    <3> QED BY <3>1, <3>2 DEF Waiting, RequestRecord
  <2>3. Types'
    <3>1. RequestTypes'
      BY <1>9, <2>2 DEF RequestTypes
    <3> QED BY <1>1, <1>3, <1>4, <1>9, <2>1, <3>1 DEF Types, ConnTypes, ServerTypes
  <2>4. /\ ~Opening(r)' /\ ~Held(r)'
        /\ \A o \in Runtimes \ {r} :
             /\ Stage(o)' = Stage(o) /\ (Held(o)' <=> Held(o))
             /\ (Opening(o)' <=> Opening(o)) /\ runtime'[o] = runtime[o]
    BY <2>1 DEF Held, Opening, Stage
  <2>5. MapInv'
    <3>1. \A a, b \in Runtimes :
            (Held(a) /\ Held(b) /\ runtime[a].of = runtime[b].of => a = b)'
      BY <1>1, <2>4 DEF MapInv
    <3>2. \A t \in Sessions :
            (openingSessions[t] # 0 =>
               Opening(openingSessions[t]) /\ runtime[openingSessions[t]].of = t)'
      BY <1>3, <1>9, <2>4, InMaps
    <3>3. \A t \in Sessions :
            (liveSessions[t] # 0 => /\ Stage(liveSessions[t]) \in {"live", "disposing"}
                                    /\ runtime[liveSessions[t]].of = t)'
      BY <1>4, <2>4, InMaps
    <3>4. \A o \in Runtimes : (Opening(o) => openingSessions[runtime[o].of] = o)'
      BY <1>1, <1>9, <2>4 DEF MapInv
    <3>5. \A o \in Runtimes :
            (Stage(o) \in {"live", "disposing"} /\ server # "closed" =>
               liveSessions[runtime[o].of] = o)'
      <4> SUFFICES ASSUME NEW o \in Runtimes, Stage(o)' \in {"live", "disposing"},
                          server # "closed"
                   PROVE  liveSessions'[runtime'[o].of] = o
        BY <1>3
      <4>1. o # r /\ Stage(o) \in {"live", "disposing"} /\ runtime'[o] = runtime[o]
            /\ runtime[o].of \in Sessions
        BY <1>1, <2>1, <2>4 DEF Types, RuntimeTypes, RuntimeRecord
      <4> QED BY <1>4, <4>1, InMaps
    <3> QED BY <3>1, <3>2, <3>3, <3>4, <3>5 DEF MapInv
  <2>6. OpenInv'
    <3> SUFFICES ASSUME NEW o \in Runtimes
                 PROVE  /\ Stage(o)' = "none" \/ Opening(o)' => runtime'[o].connections = {}
                        /\ Opening(o)' => \E p \in Requests : request'[p].pc = "opening"
                                                             /\ request'[p].live = o
      BY DEF OpenInv
    <3>1. CASE o = r
      BY <2>1, <2>4, <3>1
    <3>2. CASE o # r
      BY <1>1, <2>2, <2>4, <3>2 DEF OpenInv
    <3> QED BY <3>1, <3>2
  <2>7. RequestInv'
    <3> SUFFICES ASSUME NEW q \in Requests PROVE RequestOf(q)'
      BY DEF RequestInv
    <3>1. CASE request'[q].pc = "done"
      BY <3>1 DEF RequestOf
    <3>2. CASE request'[q] = request[q]
      BY <1>2, <1>7, <2>1, <2>4, <3>2 DEF RequestOf
    <3> QED BY <2>2, <3>1, <3>2
  <2>8. CountInv'
    <3>1. \A o \in Runtimes : runtime'[o].operations = runtime[o].operations
      BY <2>1
    <3>2. \A q \in Requests : \/ request'[q] = request[q]
                              \/ request[q].pc # "operating" /\ request'[q].pc # "operating"
      BY <2>2
    <3> QED BY <1>1, <3>1, <3>2, CountStays
  <2>9. GoneInv'
    BY <1>3 DEF Attached, GoneInv
  <2>10. ToldOnlyIfAttached'
    BY <1>3, <2>1, <2>4, StillTold DEF ToldOnlyIfAttached, Stage
  <2>11. NotTooEarly'
    <3> SUFFICES ASSUME NEW q \in Requests, request'[q].pc = "operating", server # "closed"
                 PROVE  runtime'[request'[q].live].stage = "live"
      BY <1>3 DEF NotTooEarly, Stage
    <3>1. request'[q] = request[q]
      BY <2>2
    <3>2. request[q].live \in Runtimes \ {r} /\ Stage(request[q].live) = "live"
      BY <1>7, <1>8, <3>1 DEF RequestOf
    <3> QED BY <2>4, <3>1, <3>2 DEF Stage
  <2>12. NotTooLate'
    <3> SUFFICES ASSUME NEW o \in Runtimes, Disposable(runtime[o])'
                 PROVE  \E q \in Requests : /\ request'[q].pc \in {"acquired", "detached"}
                                            /\ request'[q].live = o
      BY DEF NotTooLate
    <3>1. o # r
      BY <2>1 DEF Disposable, Stage
    <3>2. Disposable(runtime[o])
      BY <1>3, <2>4, <3>1 DEF Disposable, isClosing
    <3>3. PICK q \in Requests : /\ request[q].pc \in {"acquired", "detached"}
                                /\ request[q].live = o
      BY <3>2 DEF Attached, NotTooLate
    <3> QED BY <2>2, <3>3
  <2> QED BY <2>3, <2>5, <2>6, <2>7, <2>8, <2>9, <2>10, <2>11, <2>12, TypesSplit
          DEF Mapped, Attached
<1>10. ASSUME NEW n \in Runtimes, Open(s, n),
              runtime' = [runtime EXCEPT ![r].stage = "over",
                            ![n].stage = "acquiring", ![n].of = s],
              request' = [q \in Requests |-> IF q \in Waiting(r)
                            THEN [request[q] EXCEPT !.pc = "opening", !.live = n]
                            ELSE request[q]],
              Waiting(r) # {}
       PROVE  Mapped' /\ Attached'
  <2>1. Stage(n) = "none" /\ n # r
    BY <1>3, <1>10 DEF Open, Unused, Stage
  <2>2. /\ RuntimeTypes' /\ Stage(r)' = "over" /\ Stage(n)' = "acquiring"
        /\ runtime'[r].of = s /\ runtime'[n].of = s
        /\ runtime'[r].operations = runtime[r].operations
        /\ runtime'[n].operations = runtime[n].operations
        /\ runtime'[n].connections = runtime[n].connections
        /\ \A o \in Runtimes \ {r, n} : runtime'[o] = runtime[o]
    <3>1. runtime[r] \in RuntimeRecord /\ runtime[n] \in RuntimeRecord
      BY <1>1 DEF Types, RuntimeTypes
    <3>2. /\ runtime'[r] = [runtime[r] EXCEPT !.stage = "over"]
          /\ runtime'[n] = [runtime[n] EXCEPT !.stage = "acquiring", !.of = s]
          /\ \A o \in Runtimes \ {r, n} : runtime'[o] = runtime[o]
          /\ DOMAIN runtime' = Runtimes /\ runtime' = [o \in Runtimes |-> runtime'[o]]
      BY <1>1, <1>10, <2>1 DEF Types, RuntimeTypes
    <3>3. runtime'[r] \in RuntimeRecord /\ runtime'[n] \in RuntimeRecord
      BY <3>1, <3>2 DEF RuntimeRecord
    <3>4. RuntimeTypes'
      BY <1>1, <3>2, <3>3 DEF Types, RuntimeTypes
    <3> QED BY <1>2, <3>1, <3>2, <3>4 DEF RuntimeRecord, Stage
  <2>3. n # 0 /\ n \in 0..MaxRuntimes
    BY Numbers
  <2>4. /\ openingSessions' \in [Sessions -> 0..MaxRuntimes]
        /\ openingSessions'[s] = n
        /\ \A t \in Sessions \ {s} : openingSessions'[t] = openingSessions[t]
    BY <1>1, <1>10, <2>3 DEF Types, ServerTypes, Open
  <2>5. \A q \in Requests :
          /\ request'[q] \in RequestRecord
          /\ \/ request'[q] = request[q]
             \/ /\ request[q].pc = "wait" /\ request[q].live = r
                /\ request'[q].pc = "opening" /\ request'[q].live = n
                /\ request'[q].of = request[q].of
    <3> SUFFICES ASSUME NEW q \in Requests
                 PROVE  /\ request'[q] \in RequestRecord
                        /\ \/ request'[q] = request[q]
                           \/ /\ request[q].pc = "wait" /\ request[q].live = r
                              /\ request'[q].pc = "opening" /\ request'[q].live = n
                              /\ request'[q].of = request[q].of
      OBVIOUS
    <3>1. request[q] \in RequestRecord
      BY <1>1 DEF Types, RequestTypes
    <3>2. request'[q] = IF q \in Waiting(r)
                        THEN [request[q] EXCEPT !.pc = "opening", !.live = n]
                        ELSE request[q]
      BY <1>10
    <3> QED BY <2>3, <3>1, <3>2 DEF Waiting, RequestRecord
  <2>6. \E q \in Requests : request'[q].pc = "opening" /\ request'[q].live = n
    <3>1. PICK q \in Waiting(r) : TRUE
      BY <1>10
    <3>2. request[q] \in RequestRecord /\ q \in Requests
      BY <1>1, <3>1 DEF Types, RequestTypes, Waiting
    <3>3. request'[q] = [request[q] EXCEPT !.pc = "opening", !.live = n]
      BY <1>10, <3>1, <3>2
    <3> QED BY <3>2, <3>3 DEF RequestRecord
  <2>7. Types'
    <3>1. RequestTypes'
      BY <1>10, <2>5 DEF RequestTypes
    <3> QED BY <1>1, <1>3, <1>4, <2>2, <2>4, <3>1 DEF Types, ConnTypes, ServerTypes
  <2>8. /\ ~Opening(r)' /\ ~Held(r)' /\ Opening(n)' /\ Held(n)' /\ ~Held(n)
        /\ \A o \in Runtimes \ {r, n} :
             /\ Stage(o)' = Stage(o) /\ (Held(o)' <=> Held(o))
             /\ (Opening(o)' <=> Opening(o)) /\ runtime'[o] = runtime[o]
    BY <2>1, <2>2 DEF Held, Opening, Stage
  <2>9. MapInv'
    <3>1. \A a, b \in Runtimes :
            (Held(a) /\ Held(b) /\ runtime[a].of = runtime[b].of => a = b)'
      BY <1>1, <1>5, <2>2, <2>8 DEF MapInv
    <3>2. \A t \in Sessions :
            (openingSessions[t] # 0 =>
               Opening(openingSessions[t]) /\ runtime[openingSessions[t]].of = t)'
      <4> SUFFICES ASSUME NEW t \in Sessions, openingSessions'[t] # 0
                   PROVE  (Opening(openingSessions[t]) /\ runtime[openingSessions[t]].of = t)'
        OBVIOUS
      <4>1. CASE t = s
        BY <2>2, <2>4, <2>8, <4>1
      <4>2. CASE t # s
        <5>1. PICK o \in Runtimes : o = openingSessions'[t] /\ runtime[o].of = t /\ Opening(o)
          BY <2>4, <4>2, InMaps
        <5>2. o # r /\ o # n
          BY <1>3, <2>1, <5>1 DEF Opening, Stage
        <5> QED BY <2>8, <5>1, <5>2
      <4> QED BY <4>1, <4>2
    <3>3. \A t \in Sessions :
            (liveSessions[t] # 0 => /\ Stage(liveSessions[t]) \in {"live", "disposing"}
                                    /\ runtime[liveSessions[t]].of = t)'
      <4> SUFFICES ASSUME NEW t \in Sessions, liveSessions'[t] # 0
                   PROVE  (/\ Stage(liveSessions[t]) \in {"live", "disposing"}
                           /\ runtime[liveSessions[t]].of = t)'
        OBVIOUS
      <4>1. PICK o \in Runtimes : /\ o = liveSessions'[t] /\ o # r /\ runtime[o].of = t
                                  /\ Stage(o) \in {"live", "disposing"}
        BY <1>4, InMaps
      <4>2. o # n
        BY <2>1, <4>1
      <4> QED BY <2>8, <4>1, <4>2
    <3>4. \A o \in Runtimes : (Opening(o) => openingSessions[runtime[o].of] = o)'
      <4> SUFFICES ASSUME NEW o \in Runtimes, Opening(o)'
                   PROVE  openingSessions'[runtime'[o].of] = o
        OBVIOUS
      <4>1. CASE o = n
        BY <2>2, <2>4, <4>1
      <4>2. CASE o # n
        <5>1. o # r /\ Opening(o) /\ runtime'[o] = runtime[o] /\ runtime[o].of \in Sessions
          BY <1>1, <2>8, <4>2 DEF Types, RuntimeTypes, RuntimeRecord
        <5>2. runtime[o].of # s
          BY <1>5, <5>1 DEF Held, Opening, Stage
        <5> QED BY <1>1, <2>4, <5>1, <5>2 DEF MapInv
      <4> QED BY <4>1, <4>2
    <3>5. \A o \in Runtimes :
            (Stage(o) \in {"live", "disposing"} /\ server # "closed" =>
               liveSessions[runtime[o].of] = o)'
      <4> SUFFICES ASSUME NEW o \in Runtimes, Stage(o)' \in {"live", "disposing"},
                          server # "closed"
                   PROVE  liveSessions'[runtime'[o].of] = o
        BY <1>3
      <4>1. o # r /\ o # n
        BY <2>2
      <4>2. Stage(o) \in {"live", "disposing"} /\ runtime'[o] = runtime[o]
            /\ runtime[o].of \in Sessions
        BY <1>1, <2>8, <4>1 DEF Types, RuntimeTypes, RuntimeRecord
      <4> QED BY <1>4, <4>1, <4>2, InMaps
    <3> QED BY <3>1, <3>2, <3>3, <3>4, <3>5 DEF MapInv
  <2>10. OpenInv'
    <3> SUFFICES ASSUME NEW o \in Runtimes
                 PROVE  /\ Stage(o)' = "none" \/ Opening(o)' => runtime'[o].connections = {}
                        /\ Opening(o)' => \E p \in Requests : request'[p].pc = "opening"
                                                             /\ request'[p].live = o
      BY DEF OpenInv
    <3>1. CASE o = r
      BY <2>2, <2>8, <3>1
    <3>2. CASE o = n
      BY <1>1, <2>1, <2>2, <2>6, <3>2 DEF OpenInv
    <3>3. CASE o \notin {r, n}
      BY <1>1, <2>5, <2>8, <3>3 DEF OpenInv
    <3> QED BY <3>1, <3>2, <3>3
  <2>11. RequestInv'
    <3> SUFFICES ASSUME NEW q \in Requests PROVE RequestOf(q)'
      BY DEF RequestInv
    <3>1. CASE /\ request[q].pc = "wait" /\ request[q].live = r
               /\ request'[q].pc = "opening" /\ request'[q].live = n
               /\ request'[q].of = request[q].of
      BY <1>2, <1>7, <2>2, <3>1 DEF RequestOf
    <3>2. CASE request'[q] = request[q]
      <4>1. RequestOf(q)
        BY <1>7
      <4>2. \A o \in Runtimes : Stage(o) # "none" =>
              /\ Stage(o)' # "none" /\ runtime'[o].of = runtime[o].of
              /\ Opening(o)' => Opening(o)
        BY <1>2, <2>1, <2>2, <2>8
      <4> QED BY <3>2, <4>1, <4>2 DEF RequestOf
    <3> QED BY <2>5, <3>1, <3>2
  <2>12. CountInv'
    <3>1. \A o \in Runtimes : runtime'[o].operations = runtime[o].operations
      BY <2>2
    <3>2. \A q \in Requests : \/ request'[q] = request[q]
                              \/ request[q].pc # "operating" /\ request'[q].pc # "operating"
      BY <2>5
    <3> QED BY <1>1, <3>1, <3>2, CountStays
  <2>13. GoneInv'
    BY <1>3 DEF Attached, GoneInv
  <2>14. ToldOnlyIfAttached'
    BY <1>3, <2>2, <2>8, StillTold DEF ToldOnlyIfAttached, Stage
  <2>15. NotTooEarly'
    <3> SUFFICES ASSUME NEW q \in Requests, request'[q].pc = "operating", server # "closed"
                 PROVE  runtime'[request'[q].live].stage = "live"
      BY <1>3 DEF NotTooEarly, Stage
    <3>1. request'[q] = request[q]
      BY <2>5
    <3>2. request[q].live \in Runtimes \ {r, n} /\ Stage(request[q].live) = "live"
      BY <1>7, <1>8, <2>1, <3>1 DEF RequestOf
    <3> QED BY <2>8, <3>1, <3>2 DEF Stage
  <2>16. NotTooLate'
    <3> SUFFICES ASSUME NEW o \in Runtimes, Disposable(runtime[o])'
                 PROVE  \E q \in Requests : /\ request'[q].pc \in {"acquired", "detached"}
                                            /\ request'[q].live = o
      BY DEF NotTooLate
    <3>1. o # r /\ o # n
      BY <2>2 DEF Disposable, Stage
    <3>2. Disposable(runtime[o])
      BY <1>3, <2>8, <3>1 DEF Disposable, isClosing
    <3>3. PICK q \in Requests : /\ request[q].pc \in {"acquired", "detached"}
                                /\ request[q].live = o
      BY <3>2 DEF Attached, NotTooLate
    <3> QED BY <2>5, <3>3
  <2> QED BY <2>7, <2>9, <2>10, <2>11, <2>12, <2>13, <2>14, <2>15, <2>16, TypesSplit
          DEF Mapped, Attached
<1> QED BY <1>2, <1>9, <1>10 DEF EndDisposal

-----------------------------------------------------------------------------
(* The theorems.                                                            *)

(* Every step, and stuttering, keeps Attached.                              *)
LEMMA NextAttached ==
  ASSUME Mapped, Attached, [Next]_vars
  PROVE  Mapped' /\ Attached'
<1>1. CASE UNCHANGED vars
  <2>1. UNCHANGED <<conn, sessionIds, liveSessions, openingSessions, runtime, request,
                    server, closeWaits>>
    BY <1>1 DEF vars
  <2>2. Types
    BY TypesSplit DEF Mapped
  <2>3. ConnTypes' /\ ServerTypes' /\ GoneInv'
    BY <2>1, <2>2 DEF Types, ConnTypes, ServerTypes, Attached, GoneInv
  <2> QED BY <2>1, <2>3, Quiet
<1>2. ASSUME NEW q \in Requests, Command(q) PROVE Mapped' /\ Attached'
  BY <1>2, AttachAttached, DetachAttached, RunOperationAttached DEF Command
<1>3. ASSUME NEW q \in Requests, Continue(q) PROVE Mapped' /\ Attached'
  BY <1>3, RecordAttachmentAttached, AnswerAttached, AfterDetachAttached,
     EndOperationAttached DEF Continue
<1>4. ASSUME NEW q \in Requests, Work(q) PROVE Mapped' /\ Attached'
  BY <1>4, WorkAttached
<1>5. ASSUME NEW r \in Runtimes, Serve(r) PROVE Mapped' /\ Attached'
  BY <1>5, AcquireSucceedsAttached, OpeningAttached, EndDisposalAttached DEF Serve
<1>6. ASSUME NEW r \in Runtimes, BecomeIdle(r) \/ Terminate(r) PROVE Mapped' /\ Attached'
  BY <1>6, BecomeIdleAttached, TerminateAttached
<1>7. ASSUME NEW c \in Conns, Fail(c) \/ Disconnect(c) PROVE Mapped' /\ Attached'
  BY <1>7, FailAttached, DisconnectAttached
<1>8. CASE Close \/ Shutdown
  BY <1>8, CloseAttached, CloseConnectionsAttached, WaitForOpeningsAttached,
     DisposeAllAttached DEF Shutdown
<1> QED BY <1>1, <1>2, <1>3, <1>4, <1>5, <1>6, <1>7, <1>8 DEF Next

(* The inductive invariant holds of every behaviour.                        *)
THEOREM AlwaysAttached == Spec => [](Mapped /\ Attached)
<1>1. Init => Mapped /\ Attached
  BY InitMapped
<1>2. (Mapped /\ Attached) /\ [Next]_vars => (Mapped /\ Attached)'
  BY NextAttached
<1> QED BY <1>1, <1>2, PTL DEF Spec

(* The state is typed, and the events of a live session go only to          *)
(* connections that know of their attachment.                               *)
THEOREM AttachmentsAgree == Spec => []Consistent
<1>1. Mapped /\ Attached => Consistent
  BY DEF Mapped, Attached, Consistent
<1> QED BY <1>1, AlwaysAttached, PTL

(* A durable session is never opened while a runtime of it exists.          *)
THEOREM SessionOpenedOnce == Spec => []OneRuntimePerSession
<1>1. Mapped => OneRuntimePerSession
  <2> SUFFICES ASSUME Mapped, NEW s \in Sessions
               PROVE  Cardinality({r \in Runtimes : runtime[r].of = s
                                     /\ runtime[r].stage \notin {"none", "over"}}) <= 1
    BY DEF OneRuntimePerSession
  <2>1. PICK S : S = {r \in Runtimes : runtime[r].of = s
                        /\ runtime[r].stage \notin {"none", "over"}}
    OBVIOUS
  <2>2. \A r, o \in S : r = o
    BY <2>1 DEF Mapped, MapInv, Held, Stage
  <2>3. CASE S = {}
    <3>1. Cardinality(S) = 0
      BY <2>3, FS_EmptySet
    <3> QED BY <2>1, <3>1
  <2>4. CASE S # {}
    <3>1. PICK r \in S : TRUE
      BY <2>4
    <3>2. S = {r}
      BY <2>2, <3>1
    <3>3. Cardinality(S) = 1
      BY <3>2, FS_Singleton
    <3> QED BY <2>1, <3>3
  <2> QED BY <2>3, <2>4
<1> QED BY <1>1, AlwaysAttached, PTL

(* No runtime is disposed of under an operation while the server is up, and *)
(* one that nothing needs is disposed of, or about to be looked at.         *)
THEOREM UnusedAreDisposed == Spec => []DisposedWhenUnused
<1>1. Attached => DisposedWhenUnused
  BY DEF Attached, DisposedWhenUnused
<1> QED BY <1>1, AlwaysAttached, PTL
=============================================================================

------------------------- MODULE HermesBridgeProofs -------------------------
(***************************************************************************)
(* Proofs about HermesBridge, for any visitors, turns and replies of the   *)
(* gateway: nobody waits in vain, be it for the end of a turn or for the   *)
(* answer to an RPC, and a prompt is blamed on the engine only when the    *)
(* engine has reported an error.                                           *)
(***************************************************************************)
EXTENDS HermesBridge, TLAPS

-----------------------------------------------------------------------------
(* The inductive invariant.                                                 *)

In(s) == {s[k] : k \in DOMAIN s}

(* The end of a turn is on its way from the moment it is submitted; before  *)
(* it is on record, and before the check that follows, it may also have     *)
(* been missed by the reader's last act, which the check makes good.        *)
WakerInv ==
  /\ wpc = "arm" => overtaken \/ EndToCome(turn) \/ rd \in {"clear", "over"}
  /\ wpc = "check" =>
       overtaken \/ done # "no" \/ (armed = turn /\ (EndToCome(turn) \/ isDead))
  /\ WaiterHasWaker

(* The reader is not done with a gateway that lives.                        *)
DeathInv == rd \in {"dead", "clear", "over"} => ~alive /\ isDead

(* The worker runs turns once the session is created, until it gives up.    *)
TurnInv ==
  /\ wpc \in {"create", "creating"} => turn = 0
  /\ wpc \in {"asking", "submit", "arm", "check", "wait"} => turn # 0
  /\ reason # "none" => wpc \in {"raised", "closed"}

(* An error that is on its way, or has come, has been reported.             *)
ErrorInv ==
  /\ \A f \in In(stdout) : f.kind \in {"fail", "err"} => erred
  /\ rd = "failing" \/ done = "error" => erred
  /\ DeathIsRecognised

(* A caller that waits is registered or has been answered.                  *)
Waits(c) == IF c = Worker THEN wpc \in {"creating", "asking"} ELSE rpc[c] = "wait"
CallInv ==
  \A c \in Callers : Waits(c) => Answered(c) \/ (call[c].held /\ rd # "over")

Awaited == TypeOK /\ WakerInv /\ DeathInv /\ TurnInv /\ ErrorInv /\ CallInv

-----------------------------------------------------------------------------
(* Types and sequences.                                                     *)

Places == {"create", "creating", "idle", "asking", "submit", "arm", "check", "wait",
           "raised", "closed"}
Calls == [rid : Rids, held : BOOLEAN, answer : {"none", "ok", "err"}]

GatewayTypes ==
  /\ alive \in BOOLEAN /\ erred \in BOOLEAN
  /\ stdin \in Seq(Rids) /\ stdout \in Seq(Frames)
  /\ running \in 0..MaxTurns /\ said \in [Turns -> 0..MaxText] /\ finished \subseteq Turns
WorkerTypes ==
  /\ wpc \in Places /\ turn \in 0..MaxTurns /\ reason \in {"none", "error", "gone"}
  /\ outcome \in [Turns -> {"none", "ok", "failed"}]
TurnTypes ==
  /\ armed \in 0..MaxTurns /\ done \in {"no", "ok", "error", "gone"} /\ overtaken \in BOOLEAN
  /\ interrupted \subseteq Turns
CallTypes == call \in [Callers -> Calls] /\ rpc \in [Visitors -> {"new", "wait", "over"}]
ReaderTypes ==
  /\ shown \in [Turns -> Nat] /\ isDead \in BOOLEAN
  /\ rd \in {"read", "failing", "dead", "clear", "over"}
Types == GatewayTypes /\ WorkerTypes /\ TurnTypes /\ CallTypes /\ ReaderTypes

(* The type invariant, in groups.                                           *)
LEMMA TypesSplit == (TypeOK <=> Types) /\ (TypeOK' <=> Types')
  BY DEF TypeOK, Types, GatewayTypes, WorkerTypes, TurnTypes, CallTypes, ReaderTypes,
         Places, Calls

(* What a queue holds after something is added to it or taken from it.      *)
LEMMA InAppend ==
  ASSUME NEW S, NEW s \in Seq(S), NEW x \in S
  PROVE  /\ Append(s, x) \in Seq(S) /\ In(Append(s, x)) = In(s) \cup {x}
         /\ s \o <<x>> \in Seq(S) /\ In(s \o <<x>>) = In(s) \cup {x}
<1>1. /\ Append(s, x) \in Seq(S) /\ s \o <<x>> = Append(s, x)
      /\ Len(Append(s, x)) = Len(s) + 1 /\ Append(s, x)[Len(s) + 1] = x
      /\ \A k \in 1..Len(s) : Append(s, x)[k] = s[k]
      /\ Len(s) \in Nat
  OBVIOUS
<1>2. DOMAIN s = 1..Len(s) /\ DOMAIN Append(s, x) = 1..(Len(s) + 1)
  BY <1>1
<1>3. /\ 1..(Len(s) + 1) = 1..Len(s) \cup {Len(s) + 1}
  BY <1>1
<1>4. In(Append(s, x)) = In(s) \cup {x}
  BY <1>1, <1>2, <1>3 DEF In
<1> QED BY <1>1, <1>4

(* A request appended to stdin is in it, with what was there.               *)
LEMMA RidAppended ==
  ASSUME NEW s \in Seq(Rids), NEW rid \in Rids
  PROVE  Append(s, rid) \in Seq(Rids) /\ In(Append(s, rid)) = In(s) \cup {rid}
<1>1. /\ Append(s, rid) \in Seq(Rids)
      /\ Len(Append(s, rid)) = Len(s) + 1 /\ Append(s, rid)[Len(s) + 1] = rid
      /\ \A k \in 1..Len(s) : Append(s, rid)[k] = s[k]
      /\ Len(s) \in Nat
  OBVIOUS
<1>2. DOMAIN s = 1..Len(s) /\ DOMAIN Append(s, rid) = 1..(Len(s) + 1)
  BY <1>1
<1>3. 1..(Len(s) + 1) = 1..Len(s) \cup {Len(s) + 1}
  BY <1>1
<1> QED BY <1>1, <1>2, <1>3 DEF In

(* What is read from a queue was its first element.                         *)
LEMMA InTail ==
  ASSUME NEW S, NEW s \in Seq(S), s # <<>>
  PROVE  /\ Head(s) \in S /\ Tail(s) \in Seq(S)
         /\ In(s) = {Head(s)} \cup In(Tail(s))
<1>1. /\ Head(s) \in S /\ Tail(s) \in Seq(S) /\ Head(s) = s[1]
      /\ Len(s) \in Nat \ {0} /\ Len(Tail(s)) = Len(s) - 1
      /\ \A k \in 1..(Len(s) - 1) : Tail(s)[k] = s[k + 1]
      /\ DOMAIN s = 1..Len(s) /\ DOMAIN Tail(s) = 1..(Len(s) - 1)
  OBVIOUS
<1>2. ASSUME NEW k \in DOMAIN s PROVE s[k] \in {Head(s)} \cup In(Tail(s))
  <2>1. CASE k = 1
    BY <1>1, <2>1
  <2>2. CASE k # 1
    <3>1. k - 1 \in DOMAIN Tail(s) /\ (k - 1) + 1 = k
      BY <1>1, <2>2
    <3>2. Tail(s)[k - 1] = s[k]
      BY <1>1, <3>1
    <3> QED BY <3>1, <3>2 DEF In
  <2> QED BY <2>1, <2>2
<1>3. ASSUME NEW k \in DOMAIN Tail(s) PROVE Tail(s)[k] \in In(s)
  <2>1. k + 1 \in DOMAIN s /\ Tail(s)[k] = s[k + 1]
    BY <1>1
  <2> QED BY <2>1 DEF In
<1>4. Head(s) \in In(s)
  <2>1. 1 \in DOMAIN s
    BY <1>1
  <2> QED BY <1>1, <2>1 DEF In
<1> QED BY <1>1, <1>2, <1>3, <1>4 DEF In

(* Frames and requests are what the queues hold.                            *)
LEMMA Held ==
  ASSUME GatewayTypes
  PROVE  In(stdin) \subseteq Rids /\ In(stdout) \subseteq Frames
  BY DEF In, GatewayTypes

(* How the end of turn n may be on its way, with queues seen as sets.       *)
Coming(n) ==
  \/ running = n
  \/ Rid(Worker, "submit", n) \in In(stdin)
  \/ \E f \in In(stdout) : LastFrame(f, n)
  \/ rd \in {"failing", "dead"}
  \/ ~alive /\ rd = "read"

(* EndToCome, said of the members of the queues.                            *)
LEMMA ComingIs ==
  ASSUME NEW n
  PROVE  (EndToCome(n) <=> Coming(n)) /\ (EndToCome(n)' <=> Coming(n)')
  BY DEF EndToCome, Coming, In

-----------------------------------------------------------------------------
(* How the parts of the invariant are kept.                                 *)

(* A step that leaves the worker and its turn alone, and loses no end that  *)
(* is on its way.                                                           *)
LEMMA KeepsComing ==
  ASSUME WakerInv, UNCHANGED <<wpc, turn, armed, done, overtaken>>,
         isDead => isDead', rd \in {"clear", "over"} => rd' \in {"clear", "over"},
         TurnInv, turn # 0 /\ Coming(turn) => Coming(turn)'
  PROVE  WakerInv'
<1>1. PICK n : n = turn
  OBVIOUS
<1>2. turn # 0 /\ EndToCome(n) => EndToCome(n)'
  <2>1. turn # 0 /\ Coming(n) => Coming(n)'
    BY <1>1 DEF Coming
  <2> QED BY <2>1, ComingIs
<1>3. (EndToCome(n) <=> EndToCome(turn)) /\ (EndToCome(n)' <=> EndToCome(turn)')
  BY <1>1 DEF EndToCome
<1>4. wpc \in {"arm", "check", "wait"} => turn # 0
  BY DEF TurnInv
<1> QED BY <1>2, <1>3, <1>4 DEF WakerInv, WaiterHasWaker

(* A step after which no turn is in flight.                                 *)
LEMMA NoTurn ==
  ASSUME wpc' \notin {"arm", "check", "wait"}
  PROVE  WakerInv'
  BY DEF WakerInv, WaiterHasWaker

(* _finish_turn ends the turn on record, or none.                           *)
LEMMA Finishes ==
  ASSUME TurnTypes, NEW how \in {"ok", "error", "gone"}, FinishTurn(how),
         interrupted' \subseteq Turns
  PROVE  /\ TurnTypes' /\ armed' = 0
         /\ done' = IF armed # 0 THEN how ELSE done
         /\ overtaken => overtaken'
         /\ wpc = "arm" /\ how # "gone" => overtaken' \/ EndToCome(turn)'
<1>1. armed' = 0 /\ done' = IF armed # 0 THEN how ELSE done
  BY DEF FinishTurn
<1>2. overtaken' = (overtaken \/ (wpc = "arm" /\ how # "gone" /\ ~EndToCome(turn)'))
  BY DEF FinishTurn
<1>3. overtaken' \in BOOLEAN
  BY <1>2
<1>4. 0 \in 0..MaxTurns
  BY BridgeAssumption
<1>5. TurnTypes'
  BY <1>1, <1>3, <1>4 DEF TurnTypes
<1> QED BY <1>1, <1>2, <1>5

(* Whoever ends the turn leaves nobody to wait for its end.                 *)
LEMMA FinishesWaker ==
  ASSUME WakerInv, TurnInv, TurnTypes, NEW how \in {"ok", "error", "gone"},
         FinishTurn(how), interrupted' \subseteq Turns, UNCHANGED <<wpc, turn>>,
         how = "gone" => rd' \in {"clear", "over"}
  PROVE  WakerInv'
<1>1. /\ armed' = 0 /\ done' = IF armed # 0 THEN how ELSE done
      /\ overtaken => overtaken'
      /\ wpc = "arm" /\ how # "gone" => overtaken' \/ EndToCome(turn)'
  BY Finishes
<1>2. wpc = "arm" => overtaken' \/ EndToCome(turn)' \/ rd' \in {"clear", "over"}
  BY <1>1
<1>3. wpc = "check" => overtaken' \/ done' # "no"
  BY <1>1 DEF WakerInv, TurnInv
<1>4. wpc = "wait" => overtaken' \/ done' # "no"
  BY <1>1 DEF WakerInv, WaiterHasWaker, TurnInv
<1> QED BY <1>2, <1>3, <1>4 DEF WakerInv, WaiterHasWaker

(* A call and its request are typed.                                        *)
LEMMA RidTypes ==
  ASSUME NEW c \in Callers, NEW m \in Methods, NEW n \in 0..MaxTurns
  PROVE  Rid(c, m, n) \in Rids /\ Call(c, m, n) \in Calls
<1>1. Rid(c, m, n) \in Rids
  BY DEF Rid, Rids
<1> QED BY <1>1 DEF Call, Calls

(* A caller that is in no call is registered nowhere.                       *)
LEMMA NoCalls ==
  ASSUME NEW c \in Callers
  PROVE  NoCall(c) \in Calls /\ ~NoCall(c).held /\ NoCall(c).answer = "none"
<1>1. 0 \in 0..MaxTurns /\ "create" \in Methods
  BY BridgeAssumption DEF Methods
<1>2. PICK x \in Calls : x = Call(c, "create", 0)
  BY <1>1, RidTypes
<1>3. NoCall(c) = [x EXCEPT !.held = FALSE]
  BY <1>2 DEF NoCall
<1>4. x.answer = "none"
  BY <1>2 DEF Call
<1> QED BY <1>2, <1>3, <1>4 DEF Calls

(* The initial state satisfies Awaited.                                     *)
LEMMA InitAwaited == Init => Awaited
<1> SUFFICES ASSUME Init PROVE Awaited
  OBVIOUS
<1>1. \A c \in Callers : NoCall(c) \in Calls
  BY NoCalls
<1>2. 0 \in 0..MaxTurns /\ 0 \in 0..MaxText
  BY BridgeAssumption
<1>3. Types
  <2>1. CallTypes
    BY <1>1 DEF Init, CallTypes
  <2>2. GatewayTypes /\ WorkerTypes /\ TurnTypes /\ ReaderTypes
    <3>1. GatewayTypes
      <4>1. alive \in BOOLEAN /\ erred \in BOOLEAN /\ finished \subseteq Turns
        BY DEF Init
      <4>2. <<>> \in Seq(Rids) /\ <<>> \in Seq(Frames)
        OBVIOUS
      <4>3. running \in 0..MaxTurns /\ said \in [Turns -> 0..MaxText]
        BY <1>2 DEF Init
      <4> QED BY <4>1, <4>2, <4>3 DEF Init, GatewayTypes
    <3>2. WorkerTypes /\ TurnTypes
      BY <1>2 DEF Init, WorkerTypes, TurnTypes, Places
    <3>3. ReaderTypes
      BY DEF Init, ReaderTypes
    <3> QED BY <3>1, <3>2, <3>3
  <2> QED BY <2>1, <2>2 DEF Types
<1>4. WakerInv /\ DeathInv /\ TurnInv
  BY DEF Init, WakerInv, WaiterHasWaker, DeathInv, TurnInv
<1>5. ErrorInv
  BY DEF Init, ErrorInv, DeathIsRecognised, In
<1>6. CallInv
  BY BridgeAssumption DEF Init, CallInv, Waits, Callers
<1> QED BY <1>3, <1>4, <1>5, <1>6, TypesSplit DEF Awaited

-----------------------------------------------------------------------------
(* The gateway.                                                             *)

(* Its steps touch its own state only.                                      *)
LEMMA GatewayKeeps ==
  ASSUME Awaited, GatewayTypes',
         UNCHANGED <<wkVars, turnVars, shown, call, isDead, rpc, rd>>,
         alive' => alive, turn # 0 /\ Coming(turn) => Coming(turn)', erred => erred',
         \A f \in In(stdout') : f \in In(stdout) \/ (f.kind \in {"fail", "err"} => erred')
  PROVE  Awaited'
<1>1. Types /\ WakerInv /\ DeathInv /\ TurnInv /\ ErrorInv /\ CallInv
  BY TypesSplit DEF Awaited
<1>2. Types'
  BY <1>1 DEF Types, WorkerTypes, TurnTypes, CallTypes, ReaderTypes, wkVars, turnVars
<1>3. WakerInv'
  BY <1>1, KeepsComing DEF wkVars, turnVars
<1>4. DeathInv' /\ TurnInv'
  BY <1>1 DEF DeathInv, TurnInv, wkVars
<1>5. ErrorInv'
  BY <1>1 DEF ErrorInv, DeathIsRecognised, wkVars, turnVars
<1>6. CallInv'
  BY <1>1 DEF CallInv, Waits, Answered, wkVars
<1> QED BY <1>2, <1>3, <1>4, <1>5, <1>6, TypesSplit DEF Awaited

(* Serve keeps Awaited.                                                     *)
LEMMA ServeAwaited == ASSUME Awaited, Serve PROVE Awaited'
<1>1. GatewayTypes
  BY TypesSplit DEF Awaited, Types
<1>2. /\ alive /\ stdin # <<>> /\ stdin' = Tail(stdin)
      /\ UNCHANGED <<alive, said, finished, wkVars, turnVars, shown, call,
                     isDead, rpc, rd>>
  BY DEF Serve
<1>3. PICK rid \in Rids : /\ rid = Head(stdin) /\ stdin' \in Seq(Rids)
                          /\ In(stdin) = {rid} \cup In(stdin')
  BY <1>1, <1>2, InTail DEF GatewayTypes
<1>4. PICK n : n = turn
  OBVIOUS
<1>5. /\ turn' = n /\ rd' = rd /\ alive' = alive
      /\ (Coming(turn) <=> Coming(n)) /\ (Coming(turn)' <=> Coming(n)')
  BY <1>2, <1>4 DEF Coming, wkVars
<1>6. CASE /\ rid.method = "submit" /\ running = 0 /\ running' = rid.turn
           /\ UNCHANGED <<stdout, erred>>
  <2>1. GatewayTypes'
    BY <1>1, <1>2, <1>3, <1>6 DEF GatewayTypes, Rids
  <2>2. rid = Rid(Worker, "submit", n) => running' = n
    BY <1>6 DEF Rid
  <2>3. n # 0 /\ Coming(n) => Coming(n)'
    BY <1>2, <1>3, <1>5, <1>6, <2>2 DEF Coming
  <2> QED BY <1>2, <1>4, <1>5, <1>6, <2>1, <2>3, GatewayKeeps
<1>7. ASSUME NEW kind \in {"ok", "err"}, Reply(kind, rid), UNCHANGED running,
             IF kind = "ok" THEN rid.method # "submit" /\ UNCHANGED erred ELSE erred' = TRUE
      PROVE  Awaited'
  <2>1. PICK f \in Frames : f = [kind |-> kind, rid |-> rid]
    BY DEF Frames
  <2>2. stdout' \in Seq(Frames) /\ In(stdout') = In(stdout) \cup {f}
    BY <1>1, <1>7, <2>1, InAppend DEF GatewayTypes, Reply, Write
  <2>3. erred' \in BOOLEAN /\ (erred => erred')
    BY <1>1, <1>7 DEF GatewayTypes
  <2>4. GatewayTypes'
    BY <1>1, <1>2, <1>3, <1>7, <2>2, <2>3 DEF GatewayTypes
  <2>5. rid = Rid(Worker, "submit", n) => LastFrame(f, n)
    BY <1>7, <2>1 DEF LastFrame, Rid
  <2>6. Coming(n) => Coming(n)'
    BY <1>2, <1>3, <1>5, <1>7, <2>2, <2>5 DEF Coming
  <2>7. f.kind \in {"fail", "err"} => erred'
    BY <1>7, <2>1
  <2>8. \A g \in In(stdout') : g \in In(stdout) \/ (g.kind \in {"fail", "err"} => erred')
    BY <2>2, <2>7
  <2> QED BY <1>2, <1>4, <1>5, <2>3, <2>4, <2>6, <2>8, GatewayKeeps
<1> QED BY <1>3, <1>6, <1>7 DEF Serve

(* Say keeps Awaited.                                                       *)
LEMMA SayAwaited == ASSUME Awaited, Say PROVE Awaited'
<1>1. GatewayTypes
  BY TypesSplit DEF Awaited, Types
<1>2. /\ running # 0 /\ said[running] < MaxText
      /\ said' = [said EXCEPT ![running] = @ + 1]
      /\ Write(<<[kind |-> "text", turn |-> running]>>)
      /\ UNCHANGED <<alive, stdin, running, finished, erred, wkVars, turnVars,
                     shown, call, isDead, rpc, rd>>
  BY DEF Say
<1>3. running \in Turns
  BY <1>1, <1>2, BridgeAssumption DEF GatewayTypes, Turns
<1>4. PICK f \in Frames : f = [kind |-> "text", turn |-> running]
  BY <1>3 DEF Frames
<1>5. stdout' \in Seq(Frames) /\ In(stdout') = In(stdout) \cup {f}
  BY <1>1, <1>2, <1>4, InAppend DEF GatewayTypes, Write
<1>6. said' \in [Turns -> 0..MaxText]
  <2>1. said[running] + 1 \in 0..MaxText
    BY <1>1, <1>2, <1>3, BridgeAssumption DEF GatewayTypes
  <2> QED BY <1>1, <1>2, <1>3, <2>1 DEF GatewayTypes
<1>7. GatewayTypes'
  BY <1>1, <1>2, <1>5, <1>6 DEF GatewayTypes
<1>8. Coming(turn) => Coming(turn)'
  BY <1>2, <1>5 DEF Coming, LastFrame, wkVars
<1>9. \A g \in In(stdout') : g \in In(stdout) \/ (g.kind \in {"fail", "err"} => erred')
  BY <1>4, <1>5
<1> QED BY <1>2, <1>7, <1>8, <1>9, GatewayKeeps

(* EndTurn keeps Awaited.                                                   *)
LEMMA EndTurnAwaited == ASSUME Awaited, EndTurn PROVE Awaited'
<1>1. GatewayTypes
  BY TypesSplit DEF Awaited, Types
<1>2. /\ running # 0 /\ finished' = finished \cup {running} /\ running' = 0
      /\ UNCHANGED <<alive, stdin, said, wkVars, turnVars, shown, call, isDead, rpc, rd>>
  BY DEF EndTurn
<1>3. running \in Turns
  BY <1>1, <1>2, BridgeAssumption DEF GatewayTypes, Turns
<1>4. PICK kind \in {"end", "fail"} :
        /\ Write(<<[kind |-> kind, turn |-> running]>>)
        /\ erred' = IF kind = "end" THEN erred ELSE TRUE
  <2>1. PICK end : end = [kind |-> "end", turn |-> running]
    OBVIOUS
  <2>2. [end EXCEPT !.kind = "fail"] = [kind |-> "fail", turn |-> running]
    BY <2>1
  <2>3. \/ Write(<<end>>) /\ UNCHANGED erred
        \/ Write(<<[end EXCEPT !.kind = "fail"]>>) /\ erred' = TRUE
    BY <2>1, Zenon DEF EndTurn
  <2> QED BY <2>1, <2>2, <2>3
<1>5. PICK f \in Frames : f = [kind |-> kind, turn |-> running]
  BY <1>3 DEF Frames
<1>6. stdout' \in Seq(Frames) /\ In(stdout') = In(stdout) \cup {f}
  BY <1>1, <1>4, <1>5, InAppend DEF GatewayTypes, Write
<1>7. erred' \in BOOLEAN /\ (erred => erred')
  BY <1>1, <1>4 DEF GatewayTypes
<1>8. GatewayTypes'
  <2>1. 0 \in 0..MaxTurns
    BY BridgeAssumption
  <2> QED BY <1>1, <1>2, <1>3, <1>6, <1>7, <2>1 DEF GatewayTypes
<1>9. Coming(turn) => Coming(turn)'
  <2>1. PICK n : n = turn
    OBVIOUS
  <2>2. running = n => LastFrame(f, n)
    BY <1>5 DEF LastFrame
  <2> QED BY <1>2, <1>6, <2>1, <2>2 DEF Coming, wkVars
<1>10. \A g \in In(stdout') : g \in In(stdout) \/ (g.kind \in {"fail", "err"} => erred')
  BY <1>4, <1>5, <1>6
<1> QED BY <1>2, <1>7, <1>8, <1>9, <1>10, GatewayKeeps

(* Die keeps Awaited.                                                       *)
LEMMA DieAwaited == ASSUME Awaited, Die PROVE Awaited'
<1>1. GatewayTypes /\ ReaderTypes /\ DeathInv
  BY TypesSplit DEF Awaited, Types
<1>2. /\ alive /\ ~alive' /\ stdin' = <<>> /\ running' = 0 /\ alive' \in BOOLEAN
      /\ UNCHANGED <<stdout, said, finished, erred, wkVars, turnVars, shown,
                     call, isDead, rpc, rd>>
  BY DEF Die
<1>3. GatewayTypes'
  <2>1. 0 \in 0..MaxTurns
    BY BridgeAssumption
  <2> QED BY <1>1, <1>2, <2>1 DEF GatewayTypes
<1>4. Coming(turn)'
  <2>1. rd' \in {"read", "failing"}
    BY <1>1, <1>2 DEF DeathInv, ReaderTypes
  <2> QED BY <1>2, <2>1 DEF Coming
<1> QED BY <1>2, <1>3, <1>4, GatewayKeeps

-----------------------------------------------------------------------------
(* Calls.                                                                   *)

(* A call is registered, and written to a gateway that lives.               *)
LEMMA Registers ==
  ASSUME Types, NEW c \in Callers, NEW m \in Methods, NEW n \in 0..MaxTurns,
         Register(c, m, n)
  PROVE  /\ call' \in [Callers -> Calls] /\ stdin' \in Seq(Rids)
         /\ In(stdin) \subseteq In(stdin')
         /\ call'[c].held /\ \A d \in Callers \ {c} : call'[d] = call[d]
<1>1. PICK x \in Calls : x = Call(c, m, n)
  BY RidTypes
<1>2. x.held
  BY <1>1 DEF Call
<1>3. /\ call' \in [Callers -> Calls] /\ call'[c] = x
      /\ \A d \in Callers \ {c} : call'[d] = call[d]
  BY <1>1 DEF Register, Types, CallTypes
<1>4. stdin' \in Seq(Rids) /\ In(stdin) \subseteq In(stdin')
  <2>1. PICK rid \in Rids : rid = Rid(c, m, n)
    BY RidTypes
  <2>2. stdin \in Seq(Rids) /\ stdin' = IF alive THEN Append(stdin, rid) ELSE stdin
    BY <2>1 DEF Register, Types, GatewayTypes
  <2>3. Append(stdin, rid) \in Seq(Rids) /\ In(Append(stdin, rid)) = In(stdin) \cup {rid}
    BY <2>2, RidAppended
  <2> QED BY <2>2, <2>3
<1> QED BY <1>2, <1>3, <1>4

(* To take a call back concerns nobody else.                                *)
LEMMA TakesBack ==
  ASSUME Types, NEW c \in Callers, TakeBack(c)
  PROVE  /\ call' \in [Callers -> Calls]
         /\ \A d \in Callers \ {c} : call'[d] = call[d]
  BY NoCalls DEF TakeBack, Types, CallTypes

(* The other callers wait as they did.                                      *)
LEMMA OthersWait ==
  ASSUME CallInv, NEW c \in Callers, Waits(c)' => Answered(c)' \/ (call'[c].held /\ rd' # "over"),
         \A d \in Callers \ {c} : call'[d] = call[d] /\ (Waits(d)' => Waits(d)),
         rd' = rd
  PROVE  CallInv'
  BY DEF CallInv, Answered

(* A visitor comes and goes, the worker and the reader stay.                *)
LEMMA VisitAwaited ==
  ASSUME Awaited, NEW v \in Visitors, Visit(v)
  PROVE  Awaited'
<1>1. Types /\ WakerInv /\ DeathInv /\ TurnInv /\ ErrorInv /\ CallInv
  BY TypesSplit DEF Awaited
<1>2. /\ Register(v, "catalog", 0)
      /\ rpc' = [rpc EXCEPT ![v] = IF alive THEN "wait" ELSE "over"]
      /\ UNCHANGED <<alive, stdout, running, said, finished, erred, wkVars, turnVars,
                     shown, isDead, rd>>
  BY DEF Visit
<1>3. v \in Callers /\ v # Worker
  BY BridgeAssumption DEF Callers
<1>4. /\ call' \in [Callers -> Calls] /\ stdin' \in Seq(Rids)
      /\ In(stdin) \subseteq In(stdin')
      /\ call'[v].held /\ \A d \in Callers \ {v} : call'[d] = call[d]
  <2>1. 0 \in 0..MaxTurns /\ "catalog" \in Methods
    BY BridgeAssumption DEF Methods
  <2> QED BY <1>1, <1>2, <1>3, <2>1, Registers
<1>5. Types'
  BY <1>1, <1>2, <1>4
  DEF Types, GatewayTypes, WorkerTypes, TurnTypes, CallTypes, ReaderTypes, wkVars, turnVars
<1>6. WakerInv'
  <2>1. Coming(turn) => Coming(turn)'
    BY <1>2, <1>4 DEF Coming, wkVars
  <2> QED BY <1>1, <1>2, <2>1, KeepsComing DEF wkVars, turnVars
<1>7. DeathInv' /\ TurnInv'
  BY <1>1, <1>2 DEF DeathInv, TurnInv, wkVars
<1>8. ErrorInv'
  BY <1>1, <1>2 DEF ErrorInv, DeathIsRecognised, wkVars, turnVars
<1>9. CallInv'
  <2>1. Waits(v)' => alive
    BY <1>1, <1>2, <1>3 DEF Waits, Types, CallTypes
  <2>2. alive => rd' # "over"
    BY <1>1, <1>2 DEF DeathInv
  <2>3. \A d \in Callers \ {v} : Waits(d)' => Waits(d)
    BY <1>1, <1>2 DEF Waits, Types, CallTypes, Callers, wkVars
  <2> QED BY <1>1, <1>2, <1>3, <1>4, <2>1, <2>2, <2>3, OthersWait
<1> QED BY <1>5, <1>6, <1>7, <1>8, <1>9, TypesSplit DEF Awaited

(* Leave keeps Awaited.                                                     *)
LEMMA LeaveAwaited ==
  ASSUME Awaited, NEW v \in Visitors, Leave(v)
  PROVE  Awaited'
<1>1. Types /\ WakerInv /\ DeathInv /\ TurnInv /\ ErrorInv /\ CallInv
  BY TypesSplit DEF Awaited
<1>2. /\ TakeBack(v) /\ rpc' = [rpc EXCEPT ![v] = "over"]
      /\ UNCHANGED <<gwVars, wkVars, turnVars, shown, isDead, rd>>
  BY DEF Leave
<1>3. v \in Callers /\ v # Worker
  BY BridgeAssumption DEF Callers
<1>4. call' \in [Callers -> Calls] /\ \A d \in Callers \ {v} : call'[d] = call[d]
  BY <1>1, <1>2, <1>3, TakesBack
<1>5. Types'
  BY <1>1, <1>2, <1>4
  DEF Types, GatewayTypes, WorkerTypes, TurnTypes, CallTypes, ReaderTypes, gwVars,
      wkVars, turnVars
<1>6. WakerInv'
  <2>1. Coming(turn) => Coming(turn)'
    BY <1>2 DEF Coming, wkVars, gwVars
  <2> QED BY <1>1, <1>2, <2>1, KeepsComing DEF wkVars, turnVars
<1>7. DeathInv' /\ TurnInv'
  BY <1>1, <1>2 DEF DeathInv, TurnInv, wkVars, gwVars
<1>8. ErrorInv'
  BY <1>1, <1>2 DEF ErrorInv, DeathIsRecognised, wkVars, turnVars, gwVars
<1>9. CallInv'
  <2>1. ~Waits(v)'
    BY <1>1, <1>2, <1>3 DEF Waits, Types, CallTypes
  <2>2. \A d \in Callers \ {v} : Waits(d)' => Waits(d)
    BY <1>1, <1>2 DEF Waits, Types, CallTypes, Callers, wkVars
  <2> QED BY <1>1, <1>2, <1>3, <1>4, <2>1, <2>2, OthersWait
<1> QED BY <1>5, <1>6, <1>7, <1>8, <1>9, TypesSplit DEF Awaited

-----------------------------------------------------------------------------
(* The worker.                                                              *)

(* A step of the worker after which no turn is in flight, or the same one.  *)
LEMMA WorkerKeeps ==
  ASSUME Awaited, WorkerTypes', CallTypes', stdin' \in Seq(Rids),
         wpc' \notin {"arm", "check", "wait"}, TurnInv', DeathIsRecognised',
         UNCHANGED <<alive, stdout, running, said, finished, erred, turnVars,
                     shown, isDead, rpc, rd>>,
         \A d \in Visitors : call'[d] = call[d],
         Waits(Worker)' => Answered(Worker)' \/ (call'[Worker].held /\ rd' # "over")
  PROVE  Awaited'
<1>1. Types /\ WakerInv /\ DeathInv /\ TurnInv /\ ErrorInv /\ CallInv
  BY TypesSplit DEF Awaited
<1>2. Types'
  BY <1>1 DEF Types, GatewayTypes, TurnTypes, ReaderTypes, turnVars
<1>3. WakerInv'
  BY NoTurn
<1>4. DeathInv'
  BY <1>1 DEF DeathInv
<1>5. ErrorInv'
  BY <1>1 DEF ErrorInv, turnVars
<1>6. CallInv'
  <2>1. Worker \in Callers /\ \A d \in Callers \ {Worker} : d \in Visitors
    BY DEF Callers
  <2>2. \A d \in Callers \ {Worker} : call'[d] = call[d] /\ (Waits(d)' => Waits(d))
    BY <2>1 DEF Waits
  <2> QED BY <1>1, <2>1, <2>2, OthersWait
<1> QED BY <1>2, <1>3, <1>4, <1>5, <1>6, TypesSplit DEF Awaited

(* What giving up leaves: the worker has its reason.                        *)
LEMMA GivesUp ==
  ASSUME WorkerTypes, TurnInv, NEW why \in {"error", "gone"}, GiveUp(why),
         why = "error" /\ turn # 0 => erred'
  PROVE  WorkerTypes' /\ wpc' = "raised" /\ TurnInv' /\ DeathIsRecognised'
<1>1. wpc' = "raised" /\ reason' = why /\ turn' = turn
  BY DEF GiveUp
<1>2. outcome' \in [Turns -> {"none", "ok", "failed"}]
  BY DEF GiveUp, WorkerTypes
<1>3. WorkerTypes'
  BY <1>1, <1>2 DEF WorkerTypes, Places
<1> QED BY <1>1, <1>3 DEF TurnInv, DeathIsRecognised

(* And what going on leaves.                                                *)
LEMMA GoesOn ==
  ASSUME Awaited, NEW place \in Places, WorkerAt(place), erred => erred',
         reason = "none" \/ place = "closed",
         place \in {"create", "creating"} => turn = 0,
         place \in {"asking", "submit", "arm", "check", "wait"} => turn # 0
  PROVE  WorkerTypes' /\ wpc' = place /\ TurnInv' /\ DeathIsRecognised'
<1>1. Types /\ ErrorInv
  BY TypesSplit DEF Awaited
<1>2. wpc' = place /\ UNCHANGED <<turn, reason, outcome>>
  BY DEF WorkerAt
<1> QED BY <1>1, <1>2 DEF Types, WorkerTypes, TurnInv, ErrorInv, DeathIsRecognised

(* Create keeps Awaited.                                                    *)
LEMMA CreateAwaited == ASSUME Awaited, Create PROVE Awaited'
<1>1. Types /\ TurnInv /\ DeathInv
  BY TypesSplit DEF Awaited
<1>2. /\ wpc = "create" /\ Register(Worker, "create", 0)
      /\ IF alive THEN WorkerAt("creating") ELSE GiveUp("gone")
      /\ UNCHANGED <<alive, stdout, running, said, finished, erred, turnVars,
                     shown, isDead, rpc, rd>>
  BY DEF Create
<1>3. /\ call' \in [Callers -> Calls] /\ stdin' \in Seq(Rids)
      /\ call'[Worker].held /\ \A d \in Callers \ {Worker} : call'[d] = call[d]
  <2>1. 0 \in 0..MaxTurns /\ "create" \in Methods /\ Worker \in Callers
    BY BridgeAssumption DEF Methods, Callers
  <2> QED BY <1>1, <1>2, <2>1, Registers
<1>4. CallTypes' /\ \A d \in Visitors : call'[d] = call[d]
  BY <1>1, <1>2, <1>3, BridgeAssumption DEF Types, CallTypes, Callers
<1>5. turn = 0 /\ reason = "none"
  BY <1>1, <1>2 DEF TurnInv, Types, WorkerTypes
<1>6. CASE alive
  <2>1. WorkerAt("creating") /\ "creating" \in Places
    BY <1>2, <1>6 DEF Places
  <2>2. WorkerTypes' /\ wpc' = "creating" /\ TurnInv' /\ DeathIsRecognised'
    BY <1>2, <1>5, <2>1, GoesOn
  <2>3. rd' # "over"
    BY <1>1, <1>2, <1>6 DEF DeathInv
  <2> QED BY <1>2, <1>3, <1>4, <2>2, <2>3, WorkerKeeps
<1>7. CASE ~alive
  <2>1. WorkerTypes' /\ wpc' = "raised" /\ TurnInv' /\ DeathIsRecognised'
    BY <1>1, <1>2, <1>7, GivesUp DEF Types
  <2>2. ~Waits(Worker)'
    BY <2>1 DEF Waits
  <2> QED BY <1>2, <1>3, <1>4, <2>1, <2>2, WorkerKeeps
<1> QED BY <1>6, <1>7

(* Created keeps Awaited.                                                   *)
LEMMA CreatedAwaited == ASSUME Awaited, Created PROVE Awaited'
<1>1. Types /\ TurnInv
  BY TypesSplit DEF Awaited
<1>2. /\ wpc = "creating" /\ TakeBack(Worker)
      /\ WorkerAt("idle") \/ GiveUp("error")
      /\ UNCHANGED <<gwVars, turnVars, shown, isDead, rpc, rd>>
  BY DEF Created
<1>3. turn = 0 /\ reason = "none" /\ "idle" \in Places
  BY <1>1, <1>2 DEF TurnInv, Types, WorkerTypes, Places
<1>4. CallTypes' /\ \A d \in Visitors : call'[d] = call[d]
  BY <1>1, <1>2, TakesBack, BridgeAssumption DEF Types, CallTypes, Callers
<1>5. WorkerTypes' /\ wpc' \in {"idle", "raised"} /\ TurnInv' /\ DeathIsRecognised'
  <2>1. CASE WorkerAt("idle")
    BY <1>2, <1>3, <2>1, GoesOn DEF gwVars
  <2>2. CASE GiveUp("error")
    BY <1>1, <1>3, <2>2, GivesUp DEF Types
  <2> QED BY <1>2, <2>1, <2>2
<1>6. ~Waits(Worker)' /\ stdin' \in Seq(Rids)
  BY <1>1, <1>2, <1>5 DEF Waits, Types, GatewayTypes, gwVars
<1> QED BY <1>2, <1>4, <1>5, <1>6, WorkerKeeps DEF gwVars

(* TakePrompt keeps Awaited.                                                *)
LEMMA TakePromptAwaited == ASSUME Awaited, TakePrompt PROVE Awaited'
<1>1. Types /\ TurnInv /\ DeathInv /\ ErrorInv
  BY TypesSplit DEF Awaited
<1>2. /\ wpc = "idle" /\ turn < MaxTurns /\ turn' = turn + 1
      /\ UNCHANGED <<alive, stdout, running, said, finished, erred, reason,
                     outcome, turnVars, shown, isDead, rpc, rd>>
  BY DEF TakePrompt
<1>3. turn' \in 0..MaxTurns /\ turn' # 0 /\ reason = "none"
  BY <1>1, <1>2, BridgeAssumption DEF Types, WorkerTypes, TurnInv
<1>4. \A d \in Visitors : d \in Callers /\ d # Worker
  BY BridgeAssumption DEF Callers
<1>5. ASSUME wpc' \in {"submit", "asking"}, call' \in [Callers -> Calls],
             stdin' \in Seq(Rids), \A d \in Visitors : call'[d] = call[d],
             wpc' = "asking" => call'[Worker].held /\ rd' # "over"
      PROVE  Awaited'
  <2>1. WorkerTypes' /\ TurnInv' /\ DeathIsRecognised'
    BY <1>1, <1>2, <1>3, <1>5
    DEF Types, WorkerTypes, Places, TurnInv, ErrorInv, DeathIsRecognised
  <2>2. CallTypes'
    BY <1>1, <1>2, <1>5 DEF Types, CallTypes
  <2>3. Waits(Worker)' => call'[Worker].held /\ rd' # "over"
    BY <1>5 DEF Waits
  <2> QED BY <1>2, <1>5, <2>1, <2>2, <2>3, WorkerKeeps
<1>6. CASE wpc' = "submit" /\ UNCHANGED <<call, stdin>>
  BY <1>1, <1>5, <1>6 DEF Types, CallTypes, GatewayTypes
<1>7. CASE Register(Worker, "dispatch", turn') /\ wpc' = IF alive THEN "asking" ELSE "submit"
  <2>1. PICK n \in 0..MaxTurns : n = turn'
    BY <1>3
  <2>2. Worker \in Callers /\ "dispatch" \in Methods /\ Register(Worker, "dispatch", n)
    BY <1>7, <2>1 DEF Callers, Methods
  <2>3. /\ call' \in [Callers -> Calls] /\ stdin' \in Seq(Rids)
        /\ call'[Worker].held /\ \A d \in Callers \ {Worker} : call'[d] = call[d]
    BY <1>1, <2>2, Registers
  <2>4. alive => rd' # "over"
    BY <1>1, <1>2 DEF DeathInv
  <2> QED BY <1>4, <1>5, <1>7, <2>3, <2>4
<1> QED BY <1>6, <1>7 DEF TakePrompt

(* Dispatched keeps Awaited.                                                *)
LEMMA DispatchedAwaited == ASSUME Awaited, Dispatched PROVE Awaited'
<1>1. Types /\ TurnInv
  BY TypesSplit DEF Awaited
<1>2. /\ wpc = "asking" /\ TakeBack(Worker)
      /\ UNCHANGED <<gwVars, turnVars, shown, isDead, rpc, rd>>
  BY DEF Dispatched
<1>3. turn # 0 /\ reason = "none"
  BY <1>1, <1>2 DEF TurnInv, Types, WorkerTypes
<1>4. CallTypes' /\ \A d \in Visitors : call'[d] = call[d]
  BY <1>1, <1>2, TakesBack, BridgeAssumption DEF Types, CallTypes, Callers
<1>5. PICK place \in {"submit", "idle"} : WorkerAt(place)
  BY DEF Dispatched
<1>6. WorkerTypes' /\ wpc' = place /\ TurnInv' /\ DeathIsRecognised'
  <2>1. place \in Places
    BY DEF Places
  <2> QED BY <1>2, <1>3, <1>5, <2>1, GoesOn DEF gwVars
<1>7. ~Waits(Worker)' /\ stdin' \in Seq(Rids)
  BY <1>1, <1>2, <1>6 DEF Waits, Types, GatewayTypes, gwVars
<1> QED BY <1>2, <1>4, <1>6, <1>7, WorkerKeeps DEF gwVars

(* A step of the worker that is at a turn, on its way to or at its end.     *)
LEMMA TurnKeeps ==
  ASSUME Awaited, WorkerTypes', TurnTypes', stdin' \in Seq(Rids),
         wpc' \notin {"creating", "asking"}, WakerInv', TurnInv', DeathIsRecognised',
         done' = "error" => erred,
         UNCHANGED <<alive, stdout, running, said, finished, erred, shown, call,
                     isDead, rpc, rd>>
  PROVE  Awaited'
<1>1. Types /\ DeathInv /\ ErrorInv /\ CallInv
  BY TypesSplit DEF Awaited
<1>2. Types'
  BY <1>1 DEF Types, GatewayTypes, CallTypes, ReaderTypes
<1>3. DeathInv' /\ ErrorInv'
  BY <1>1 DEF DeathInv, ErrorInv
<1>4. CallInv'
  BY <1>1 DEF CallInv, Waits, Answered
<1> QED BY <1>2, <1>3, <1>4, TypesSplit DEF Awaited

(* Submit keeps Awaited.                                                    *)
LEMMA SubmitAwaited == ASSUME Awaited, Submit PROVE Awaited'
<1>1. Types /\ TurnInv /\ ErrorInv
  BY TypesSplit DEF Awaited
<1>2. /\ wpc = "submit"
      /\ UNCHANGED <<alive, stdout, running, said, finished, erred, turnVars,
                     shown, call, isDead, rpc, rd>>
  BY DEF Submit
<1>3. turn \in 0..MaxTurns /\ turn # 0 /\ reason = "none" /\ stdin \in Seq(Rids)
  BY <1>1, <1>2 DEF TurnInv, Types, WorkerTypes, GatewayTypes
<1>4. TurnTypes' /\ (done' = "error" => erred)
  BY <1>1, <1>2 DEF Types, TurnTypes, ErrorInv, turnVars
<1>5. CASE WorkerAt("arm") /\ stdin' = Append(stdin, Rid(Worker, "submit", turn))
  <2>1. PICK n \in 0..MaxTurns : n = turn
    BY <1>3
  <2>2. PICK rid \in Rids : rid = Rid(Worker, "submit", n)
    BY RidTypes DEF Callers, Methods
  <2>3. stdin' = Append(stdin, rid)
    BY <1>5, <2>1, <2>2
  <2>4. stdin' \in Seq(Rids) /\ In(stdin') = In(stdin) \cup {rid}
    BY <1>3, <2>3, RidAppended
  <2>5. WorkerTypes' /\ wpc' = "arm" /\ TurnInv' /\ DeathIsRecognised'
    <3>1. WorkerAt("arm") /\ "arm" \in Places
      BY <1>5 DEF Places
    <3> QED BY <1>2, <1>3, <3>1, GoesOn
  <2>6. WakerInv'
    <3>1. turn' = n
      BY <1>5, <2>1 DEF WorkerAt
    <3>2. EndToCome(n)'
      <4>1. Coming(n)'
        BY <2>2, <2>4 DEF Coming
      <4> QED BY <4>1, ComingIs
    <3>3. EndToCome(turn)'
      BY <3>1, <3>2 DEF EndToCome
    <3> QED BY <2>5, <3>3 DEF WakerInv, WaiterHasWaker
  <2> QED BY <1>2, <1>4, <2>4, <2>5, <2>6, TurnKeeps
<1>6. CASE GiveUp("gone") /\ UNCHANGED stdin
  <2>1. WorkerTypes' /\ wpc' = "raised" /\ TurnInv' /\ DeathIsRecognised'
    BY <1>1, <1>6, GivesUp DEF Types
  <2>2. WakerInv'
    BY <2>1, NoTurn
  <2>3. stdin' \in Seq(Rids)
    BY <1>3, <1>6
  <2> QED BY <1>2, <1>4, <2>1, <2>2, <2>3, TurnKeeps
<1> QED BY <1>5, <1>6 DEF Submit

(* The record begins as the turn's: its end may be on its way still, or the *)
(* reader has gone, which the check will find.                              *)
LEMMA ArmAwaited == ASSUME Awaited, Arm PROVE Awaited'
<1>1. Types /\ WakerInv /\ DeathInv /\ TurnInv
  BY TypesSplit DEF Awaited
<1>2. /\ wpc = "arm" /\ armed' = turn /\ done' = "no" /\ UNCHANGED <<overtaken, interrupted>>
      /\ WorkerAt("check")
      /\ UNCHANGED <<gwVars, shown, call, isDead, rpc, rd>>
  BY DEF Arm
<1>3. turn # 0 /\ reason = "none"
  BY <1>1, <1>2 DEF TurnInv, Types, WorkerTypes
<1>4. WorkerTypes' /\ wpc' = "check" /\ TurnInv' /\ DeathIsRecognised'
  <2>1. "check" \in Places
    BY DEF Places
  <2> QED BY <1>2, <1>3, <2>1, GoesOn DEF gwVars
<1>5. turn' = turn
  BY <1>2 DEF WorkerAt
<1>6. EndToCome(turn) => EndToCome(turn)'
  BY <1>2, <1>5 DEF EndToCome, gwVars
<1>7. WakerInv'
  <2>1. overtaken \/ EndToCome(turn) \/ isDead
    BY <1>1, <1>2 DEF WakerInv, DeathInv
  <2> QED BY <1>2, <1>4, <1>5, <1>6, <2>1 DEF WakerInv, WaiterHasWaker
<1>8. TurnTypes' /\ done' # "error" /\ stdin' \in Seq(Rids)
  BY <1>1, <1>2 DEF Types, TurnTypes, WorkerTypes, GatewayTypes, gwVars
<1> QED BY <1>2, <1>4, <1>7, <1>8, TurnKeeps DEF gwVars

(* Check keeps Awaited.                                                     *)
LEMMA CheckAwaited == ASSUME Awaited, Check PROVE Awaited'
<1>1. Types /\ WakerInv /\ TurnInv /\ ErrorInv
  BY TypesSplit DEF Awaited
<1>2. /\ wpc = "check" /\ WorkerAt("wait")
      /\ IF isDead THEN FinishTurn("gone") ELSE UNCHANGED turnVars
      /\ UNCHANGED <<gwVars, shown, call, isDead, rpc, rd>>
      /\ interrupted' = interrupted
  BY DEF Check
<1>3. turn # 0 /\ reason = "none"
  BY <1>1, <1>2 DEF TurnInv, Types, WorkerTypes
<1>4. WorkerTypes' /\ wpc' = "wait" /\ TurnInv' /\ DeathIsRecognised' /\ turn' = turn
  <2>1. "wait" \in Places
    BY DEF Places
  <2> QED BY <1>2, <1>3, <2>1, GoesOn DEF gwVars, WorkerAt
<1>5. EndToCome(turn) => EndToCome(turn)'
  BY <1>2, <1>4 DEF EndToCome, gwVars
<1>6. stdin' \in Seq(Rids)
  BY <1>1, <1>2 DEF Types, GatewayTypes, gwVars
<1>7. CASE isDead
  <2>1. /\ TurnTypes' /\ armed' = 0
        /\ done' = IF armed # 0 THEN "gone" ELSE done
        /\ overtaken => overtaken'
    <3>1. interrupted' \subseteq Turns
      BY <1>1, <1>2 DEF Types, TurnTypes
    <3> QED BY <1>1, <1>2, <1>7, <3>1, Finishes DEF Types
  <2>2. WakerInv'
    BY <1>1, <1>2, <1>3, <1>4, <2>1 DEF WakerInv, WaiterHasWaker
  <2>3. done' = "error" => erred
    BY <1>1, <2>1 DEF ErrorInv
  <2> QED BY <1>2, <1>4, <1>6, <2>1, <2>2, <2>3, TurnKeeps DEF gwVars
<1>8. CASE ~isDead
  <2>1. TurnTypes' /\ (done' = "error" => erred) /\ UNCHANGED <<armed, done, overtaken>>
    BY <1>1, <1>2, <1>8 DEF Types, TurnTypes, ErrorInv, turnVars
  <2>2. WakerInv'
    BY <1>1, <1>2, <1>4, <1>5, <1>8, <2>1 DEF WakerInv, WaiterHasWaker
  <2> QED BY <1>2, <1>4, <1>6, <2>1, <2>2, TurnKeeps DEF gwVars
<1> QED BY <1>7, <1>8

(* Wake keeps Awaited.                                                      *)
LEMMA WakeAwaited == ASSUME Awaited, Wake PROVE Awaited'
<1>1. Types /\ TurnInv /\ ErrorInv
  BY TypesSplit DEF Awaited
<1>2. /\ wpc = "wait" /\ done # "no"
      /\ UNCHANGED <<gwVars, turnVars, shown, call, isDead, rpc, rd>>
  BY DEF Wake
<1>3. turn # 0 /\ reason = "none"
  BY <1>1, <1>2 DEF TurnInv, Types, WorkerTypes
<1>4. /\ TurnTypes' /\ (done' = "error" => erred) /\ stdin' \in Seq(Rids)
      /\ done = "error" => erred'
  BY <1>1, <1>2 DEF Types, TurnTypes, ErrorInv, GatewayTypes, turnVars, gwVars
<1>5. /\ WorkerTypes' /\ wpc' \in {"idle", "raised"} /\ TurnInv' /\ DeathIsRecognised'
  <2>1. CASE /\ wpc' = "idle" /\ outcome' = [outcome EXCEPT ![turn] = "ok"]
             /\ UNCHANGED <<turn, reason>>
    <3>1. outcome' \in [Turns -> {"none", "ok", "failed"}]
      BY <1>1, <2>1 DEF Types, WorkerTypes
    <3> QED BY <1>1, <1>3, <2>1, <3>1
            DEF Types, WorkerTypes, Places, TurnInv, DeathIsRecognised
  <2>2. CASE done # "ok" /\ GiveUp(done)
    <3>1. PICK why \in {"error", "gone"} : why = done
      BY <1>1, <1>2, <2>2 DEF Types, TurnTypes
    <3> QED BY <1>1, <1>4, <2>2, <3>1, GivesUp DEF Types
  <2> QED BY <2>1, <2>2 DEF Wake
<1>6. WakerInv'
  BY <1>5, NoTurn
<1> QED BY <1>2, <1>4, <1>5, <1>6, TurnKeeps DEF gwVars

(* Close keeps Awaited.                                                     *)
LEMMA CloseAwaited == ASSUME Awaited, Close PROVE Awaited'
<1>1. Types /\ DeathInv /\ TurnInv /\ ErrorInv /\ CallInv
  BY TypesSplit DEF Awaited
<1>2. /\ wpc = "raised" /\ WorkerAt("closed")
      /\ alive' = FALSE /\ stdin' = <<>> /\ running' = 0 /\ isDead' = TRUE
      /\ UNCHANGED <<stdout, said, finished, erred, turnVars, shown, call, rpc, rd>>
  BY DEF Close
<1>3. WorkerTypes' /\ wpc' = "closed" /\ TurnInv' /\ DeathIsRecognised'
  <2>1. "closed" \in Places
    BY DEF Places
  <2> QED BY <1>2, <2>1, GoesOn
<1>4. Types'
  <2>1. alive' \in BOOLEAN /\ isDead' \in BOOLEAN
    BY <1>2
  <2>2. stdin' \in Seq(Rids) /\ running' \in 0..MaxTurns
    BY <1>2, BridgeAssumption
  <2>3. GatewayTypes'
    BY <1>1, <1>2, <2>1, <2>2 DEF Types, GatewayTypes
  <2> QED BY <1>1, <1>2, <1>3, <2>1, <2>3
          DEF Types, TurnTypes, CallTypes, ReaderTypes, turnVars
<1>5. WakerInv'
  BY <1>3, NoTurn
<1>6. DeathInv' /\ ErrorInv'
  BY <1>1, <1>2, <1>3 DEF DeathInv, ErrorInv, turnVars
<1>7. CallInv'
  BY <1>1, <1>2, <1>3 DEF CallInv, Waits, Answered
<1> QED BY <1>3, <1>4, <1>5, <1>6, <1>7, TypesSplit DEF Awaited

-----------------------------------------------------------------------------
(* The reader.                                                              *)

(* A frame is taken from the pipe.                                          *)
LEMMA Takes ==
  ASSUME GatewayTypes, Take
  PROVE  /\ Frame \in Frames /\ stdout' \in Seq(Frames) /\ rd = "read"
         /\ In(stdout) = {Frame} \cup In(stdout')
<1>1. stdout \in Seq(Frames) /\ stdout # <<>> /\ stdout' = Tail(stdout) /\ rd = "read"
  BY DEF GatewayTypes, Take
<1> QED BY <1>1, InTail DEF Frame

(* A step of the reader leaves the gateway and the worker alone.            *)
LEMMA ReaderKeeps ==
  ASSUME Awaited, stdout' \in Seq(Frames), In(stdout') \subseteq In(stdout),
         TurnTypes', CallTypes', ReaderTypes', UNCHANGED ReaderRest,
         WakerInv', DeathInv', CallInv', rd' = "failing" \/ done' = "error" => erred
  PROVE  Awaited'
<1>1. Types /\ TurnInv /\ ErrorInv
  BY TypesSplit DEF Awaited
<1>2. Types'
  BY <1>1 DEF Types, GatewayTypes, WorkerTypes, ReaderRest, wkVars
<1>3. TurnInv' /\ ErrorInv'
  BY <1>1 DEF TurnInv, ErrorInv, DeathIsRecognised, ReaderRest, wkVars
<1> QED BY <1>2, <1>3, TypesSplit DEF Awaited

(* Who waits goes on waiting as long as the reader is not over.             *)
LEMMA StillWait ==
  ASSUME CallInv, UNCHANGED <<wpc, rpc, call>>, rd' # "over"
  PROVE  CallInv'
  BY DEF CallInv, Waits, Answered

(* ReadText keeps Awaited.                                                  *)
LEMMA ReadTextAwaited == ASSUME Awaited, ReadText PROVE Awaited'
<1>1. Types /\ WakerInv /\ DeathInv /\ TurnInv /\ ErrorInv /\ CallInv
  BY TypesSplit DEF Awaited
<1>2. /\ Take /\ Frame.kind = "text"
      /\ shown' = [shown EXCEPT ![Frame.turn] = @ + 1]
      /\ UNCHANGED <<ReaderRest, turnVars, call, isDead, rd>>
  BY DEF ReadText
<1>3. /\ Frame \in Frames /\ stdout' \in Seq(Frames) /\ rd = "read"
      /\ In(stdout) = {Frame} \cup In(stdout')
  BY <1>1, <1>2, Takes DEF Types
<1>4. TurnTypes' /\ CallTypes' /\ ReaderTypes'
  <2>1. shown' \in [Turns -> Nat]
    <3>1. shown \in [Turns -> Nat]
      BY <1>1 DEF Types, ReaderTypes
    <3>2. PICK n : n = Frame.turn
      OBVIOUS
    <3>3. shown' = [shown EXCEPT ![n] = shown[n] + 1]
      BY <1>2, <3>2
    <3>4. shown' = [k \in Turns |-> IF k = n THEN shown[k] + 1 ELSE shown[k]]
      BY <3>1, <3>3
    <3>5. \A k \in Turns : shown'[k] \in Nat
      BY <3>1, <3>4
    <3> QED BY <3>4, <3>5
  <2> QED BY <1>1, <1>2, <2>1
          DEF Types, TurnTypes, CallTypes, ReaderTypes, turnVars, ReaderRest
<1>5. WakerInv'
  <2>1. Coming(turn) => Coming(turn)'
    BY <1>2, <1>3 DEF Coming, LastFrame, ReaderRest, wkVars
  <2> QED BY <1>1, <1>2, <2>1, KeepsComing DEF ReaderRest, wkVars, turnVars
<1>6. DeathInv' /\ CallInv'
  BY <1>1, <1>2, <1>3, StillWait DEF DeathInv, ReaderRest, wkVars
<1>7. rd' = "failing" \/ done' = "error" => erred
  BY <1>1, <1>2 DEF ErrorInv, turnVars
<1> QED BY <1>2, <1>3, <1>4, <1>5, <1>6, <1>7, ReaderKeeps

(* ReadEnd keeps Awaited.                                                   *)
LEMMA ReadEndAwaited == ASSUME Awaited, ReadEnd PROVE Awaited'
<1>1. Types /\ WakerInv /\ DeathInv /\ TurnInv /\ ErrorInv /\ CallInv
  BY TypesSplit DEF Awaited
<1>2. /\ Take /\ Frame.kind \in {"end", "fail"}
      /\ FinishTurn(IF Frame.kind = "end" THEN "ok" ELSE "error")
      /\ UNCHANGED <<ReaderRest, shown, call, isDead, rd>>
      /\ interrupted' = interrupted
  BY DEF ReadEnd
<1>0. interrupted' \subseteq Turns
  BY <1>1, <1>2 DEF Types, TurnTypes
<1>3. /\ stdout' \in Seq(Frames) /\ rd = "read" /\ Frame \in In(stdout)
      /\ In(stdout') \subseteq In(stdout)
  BY <1>1, <1>2, Takes DEF Types
<1>4. PICK how \in {"ok", "error"} :
        how = IF Frame.kind = "end" THEN "ok" ELSE "error"
  OBVIOUS
<1>5. /\ TurnTypes' /\ done' = IF armed # 0 THEN how ELSE done
  BY <1>1, <1>2, <1>4, <1>0, Finishes DEF Types
<1>6. CallTypes' /\ ReaderTypes'
  BY <1>1, <1>2 DEF Types, CallTypes, ReaderTypes, ReaderRest
<1>7. WakerInv'
  BY <1>1, <1>2, <1>4, <1>0, FinishesWaker DEF Types, ReaderRest, wkVars
<1>8. DeathInv' /\ CallInv'
  BY <1>1, <1>2, <1>3, StillWait DEF DeathInv, ReaderRest, wkVars
<1>9. rd' = "failing" \/ done' = "error" => erred
  BY <1>1, <1>2, <1>3, <1>4, <1>5 DEF ErrorInv
<1> QED BY <1>2, <1>3, <1>5, <1>6, <1>7, <1>8, <1>9, ReaderKeeps

(* A response reaches the caller it is for, if that waits for it.           *)
LEMMA Delivers ==
  ASSUME Types, CallInv, NEW answer \in {"ok", "err"}, Frame \in Frames,
         Frame.kind \in {"ok", "err"}, Deliver(answer), UNCHANGED ReaderRest, rd' # "over"
  PROVE  CallTypes' /\ CallInv'
<1>1. PICK c \in Callers : c = Frame.rid.by
  BY DEF Frames, Rids
<1>2. CASE call' = call
  BY <1>2, StillWait DEF Types, CallTypes, ReaderRest, wkVars
<1>3. CASE call' = [call EXCEPT ![c].answer = answer]
  <2>1. /\ call' \in [Callers -> Calls] /\ call'[c].answer # "none"
        /\ \A d \in Callers \ {c} : call'[d] = call[d]
    BY <1>3 DEF Types, CallTypes, Calls
  <2>2. \A d \in Callers : Waits(d)' => Waits(d)
    BY DEF Waits, ReaderRest, wkVars
  <2>3. CallInv'
    BY <2>1, <2>2 DEF CallInv, Answered
  <2> QED BY <2>1, <2>3 DEF Types, CallTypes, ReaderRest
<1> QED BY <1>1, <1>2, <1>3 DEF Deliver

(* ReadOk keeps Awaited.                                                    *)
LEMMA ReadOkAwaited == ASSUME Awaited, ReadOk PROVE Awaited'
<1>1. Types /\ WakerInv /\ DeathInv /\ TurnInv /\ ErrorInv /\ CallInv
  BY TypesSplit DEF Awaited
<1>2. /\ Take /\ Frame.kind = "ok" /\ Deliver("ok")
      /\ UNCHANGED <<ReaderRest, turnVars, shown, isDead, rd>>
  BY DEF ReadOk
<1>3. /\ Frame \in Frames /\ stdout' \in Seq(Frames) /\ rd = "read"
      /\ In(stdout) = {Frame} \cup In(stdout')
  BY <1>1, <1>2, Takes DEF Types
<1>4. TurnTypes' /\ ReaderTypes'
  BY <1>1, <1>2 DEF Types, TurnTypes, ReaderTypes, turnVars
<1>5. WakerInv'
  <2>1. Coming(turn) => Coming(turn)'
    BY <1>2, <1>3 DEF Coming, LastFrame, ReaderRest, wkVars
  <2> QED BY <1>1, <1>2, <2>1, KeepsComing DEF ReaderRest, wkVars, turnVars
<1>6. CallTypes' /\ CallInv'
  BY <1>1, <1>2, <1>3, Delivers
<1>7. DeathInv' /\ (rd' = "failing" \/ done' = "error" => erred)
  BY <1>1, <1>2 DEF DeathInv, ErrorInv, turnVars, ReaderRest
<1> QED BY <1>2, <1>3, <1>4, <1>5, <1>6, <1>7, ReaderKeeps

(* ReadErr keeps Awaited.                                                   *)
LEMMA ReadErrAwaited == ASSUME Awaited, ReadErr PROVE Awaited'
<1>1. Types /\ WakerInv /\ DeathInv /\ TurnInv /\ ErrorInv /\ CallInv
  BY TypesSplit DEF Awaited
<1>2. /\ Take /\ Frame.kind = "err" /\ Deliver("err") /\ rd' = "failing"
      /\ UNCHANGED <<ReaderRest, turnVars, shown, isDead>>
  BY DEF ReadErr
<1>3. /\ Frame \in Frames /\ stdout' \in Seq(Frames) /\ rd = "read"
      /\ In(stdout) = {Frame} \cup In(stdout')
  BY <1>1, <1>2, Takes DEF Types
<1>4. TurnTypes' /\ ReaderTypes'
  BY <1>1, <1>2 DEF Types, TurnTypes, ReaderTypes, turnVars
<1>5. WakerInv'
  <2>1. Coming(turn)'
    BY <1>2 DEF Coming
  <2> QED BY <1>1, <1>2, <1>3, <2>1, KeepsComing DEF ReaderRest, wkVars, turnVars
<1>6. CallTypes' /\ CallInv'
  BY <1>1, <1>2, <1>3, Delivers
<1>7. DeathInv' /\ erred
  BY <1>1, <1>2, <1>3 DEF DeathInv, ErrorInv
<1> QED BY <1>2, <1>3, <1>4, <1>5, <1>6, <1>7, ReaderKeeps

(* FailTurn keeps Awaited.                                                  *)
LEMMA FailTurnAwaited == ASSUME Awaited, FailTurn PROVE Awaited'
<1>1. Types /\ WakerInv /\ DeathInv /\ TurnInv /\ ErrorInv /\ CallInv
  BY TypesSplit DEF Awaited
<1>2. /\ rd = "failing" /\ FinishTurn("error") /\ rd' = "read"
      /\ UNCHANGED <<ReaderRest, stdout, shown, call, isDead>>
      /\ interrupted' = IF armed # 0 /\ Unfinished(armed)
                        THEN interrupted \cup {armed} ELSE interrupted
  BY DEF FailTurn
<1>0. interrupted' \subseteq Turns
  BY <1>1, <1>2 DEF Types, TurnTypes, Turns
<1>3. TurnTypes' /\ stdout' \in Seq(Frames)
  BY <1>1, <1>2, <1>0, Finishes DEF Types, GatewayTypes
<1>4. CallTypes' /\ ReaderTypes'
  BY <1>1, <1>2 DEF Types, CallTypes, ReaderTypes, ReaderRest
<1>5. WakerInv'
  BY <1>1, <1>2, <1>0, FinishesWaker DEF Types, ReaderRest, wkVars
<1>6. DeathInv' /\ CallInv' /\ erred
  BY <1>1, <1>2, StillWait DEF DeathInv, ErrorInv, ReaderRest, wkVars
<1> QED BY <1>2, <1>3, <1>4, <1>5, <1>6, ReaderKeeps

(* ReadEof keeps Awaited.                                                   *)
LEMMA ReadEofAwaited == ASSUME Awaited, ReadEof PROVE Awaited'
<1>1. Types /\ WakerInv /\ DeathInv /\ TurnInv /\ ErrorInv /\ CallInv
  BY TypesSplit DEF Awaited
<1>2. /\ rd = "read" /\ ~alive /\ isDead' = TRUE /\ rd' = "dead"
      /\ UNCHANGED <<ReaderRest, stdout, turnVars, shown, call>>
  BY DEF ReadEof
<1>3. TurnTypes' /\ CallTypes' /\ ReaderTypes' /\ stdout' \in Seq(Frames)
  BY <1>1, <1>2
  DEF Types, TurnTypes, CallTypes, ReaderTypes, GatewayTypes, turnVars, ReaderRest
<1>4. WakerInv'
  <2>1. Coming(turn)'
    BY <1>2 DEF Coming
  <2> QED BY <1>1, <1>2, <2>1, KeepsComing DEF ReaderRest, wkVars, turnVars
<1>5. DeathInv' /\ CallInv'
  BY <1>1, <1>2, StillWait DEF DeathInv, ReaderRest, wkVars
<1>6. done' = "error" => erred
  BY <1>1, <1>2 DEF ErrorInv, turnVars
<1> QED BY <1>2, <1>3, <1>4, <1>5, <1>6, ReaderKeeps

(* FailDead keeps Awaited.                                                  *)
LEMMA FailDeadAwaited == ASSUME Awaited, FailDead PROVE Awaited'
<1>1. Types /\ WakerInv /\ DeathInv /\ TurnInv /\ ErrorInv /\ CallInv
  BY TypesSplit DEF Awaited
<1>2. /\ rd = "dead" /\ FinishTurn("gone") /\ rd' = "clear"
      /\ UNCHANGED <<ReaderRest, stdout, shown, call, isDead>>
      /\ interrupted' = interrupted
  BY DEF FailDead
<1>0. interrupted' \subseteq Turns
  BY <1>1, <1>2 DEF Types, TurnTypes
<1>3. /\ TurnTypes' /\ stdout' \in Seq(Frames)
      /\ done' = IF armed # 0 THEN "gone" ELSE done
  BY <1>1, <1>2, <1>0, Finishes DEF Types, GatewayTypes
<1>4. CallTypes' /\ ReaderTypes'
  BY <1>1, <1>2 DEF Types, CallTypes, ReaderTypes, ReaderRest
<1>5. WakerInv'
  BY <1>1, <1>2, <1>0, FinishesWaker DEF Types, ReaderRest, wkVars
<1>6. DeathInv' /\ CallInv'
  BY <1>1, <1>2, StillWait DEF DeathInv, ReaderRest, wkVars
<1>7. done' = "error" => erred
  BY <1>1, <1>3 DEF ErrorInv
<1> QED BY <1>2, <1>3, <1>4, <1>5, <1>6, <1>7, ReaderKeeps

(* Clear keeps Awaited.                                                     *)
LEMMA ClearAwaited == ASSUME Awaited, Clear PROVE Awaited'
<1>1. Types /\ WakerInv /\ DeathInv /\ TurnInv /\ ErrorInv /\ CallInv
  BY TypesSplit DEF Awaited
<1>2. /\ rd = "clear" /\ rd' = "over"
      /\ call' = [c \in Callers |->
                   IF call[c].held
                   THEN [call[c] EXCEPT !.held = FALSE, !.answer = "err"]
                   ELSE call[c]]
      /\ UNCHANGED <<ReaderRest, stdout, turnVars, shown, isDead>>
  BY DEF Clear
<1>3. \A c \in Callers :
        /\ call'[c] \in Calls
        /\ call[c].held => call'[c].answer = "err"
        /\ ~call[c].held => call'[c] = call[c]
  BY <1>1, <1>2 DEF Types, CallTypes, Calls
<1>4. TurnTypes' /\ CallTypes' /\ ReaderTypes' /\ stdout' \in Seq(Frames)
  BY <1>1, <1>2, <1>3
  DEF Types, TurnTypes, CallTypes, ReaderTypes, GatewayTypes, turnVars, ReaderRest
<1>5. WakerInv'
  <2>1. Coming(turn) => Coming(turn)'
    BY <1>2 DEF Coming, LastFrame, ReaderRest, wkVars
  <2> QED BY <1>1, <1>2, <2>1, KeepsComing DEF ReaderRest, wkVars, turnVars
<1>6. CallInv'
  <2>1. \A c \in Callers : Waits(c)' => Waits(c)
    BY <1>2 DEF Waits, ReaderRest, wkVars
  <2> QED BY <1>1, <1>3, <2>1 DEF CallInv, Answered
<1>7. DeathInv' /\ (done' = "error" => erred)
  BY <1>1, <1>2 DEF DeathInv, ErrorInv, ReaderRest, turnVars
<1> QED BY <1>2, <1>4, <1>5, <1>6, <1>7, ReaderKeeps

-----------------------------------------------------------------------------
(* The theorems.                                                            *)

(* Every step, and stuttering, keeps Awaited.                               *)
LEMMA NextAwaited == ASSUME Awaited, [Next]_vars PROVE Awaited'
<1>1. CASE UNCHANGED vars
  <2>1. Types /\ WakerInv /\ DeathInv /\ TurnInv /\ ErrorInv /\ CallInv
    BY TypesSplit DEF Awaited
  <2>2. /\ UNCHANGED <<alive, stdin, stdout, running, said, finished, erred>>
        /\ UNCHANGED <<wpc, turn, reason, outcome, armed, done, overtaken>>
        /\ UNCHANGED <<shown, call, isDead, rpc, rd, wkVars, turnVars>>
    BY <1>1 DEF vars, gwVars, wkVars, turnVars
  <2>3. GatewayTypes'
    BY <2>1, <2>2 DEF Types, GatewayTypes
  <2>4. Coming(turn) => Coming(turn)'
    BY <2>2 DEF Coming
  <2> QED BY <2>2, <2>3, <2>4, GatewayKeeps
<1>2. CASE Gateway
  BY <1>2, ServeAwaited, SayAwaited, EndTurnAwaited, DieAwaited DEF Gateway
<1>3. CASE WorkerStep \/ TakePrompt
  BY <1>3, CreateAwaited, CreatedAwaited, TakePromptAwaited, DispatchedAwaited,
     SubmitAwaited, ArmAwaited, CheckAwaited, WakeAwaited, CloseAwaited DEF WorkerStep
<1>4. CASE Reader
  BY <1>4, ReadTextAwaited, ReadEndAwaited, ReadOkAwaited, ReadErrAwaited,
     FailTurnAwaited, ReadEofAwaited, FailDeadAwaited, ClearAwaited DEF Reader
<1>5. ASSUME NEW v \in Visitors, Visit(v) \/ Leave(v) PROVE Awaited'
  BY <1>5, VisitAwaited, LeaveAwaited
<1> QED BY <1>1, <1>2, <1>3, <1>4, <1>5 DEF Next

(* The inductive invariant holds of every behaviour.                        *)
THEOREM AlwaysAwaited == Spec => []Awaited
<1>1. Init => Awaited
  BY InitAwaited
<1>2. Awaited /\ [Next]_vars => Awaited'
  BY NextAwaited
<1> QED BY <1>1, <1>2, PTL DEF Spec

(* The worker's turn is on record and its end to come whenever the worker   *)
(* waits for it, unless it was overtaken; no RPC is left behind by a dead   *)
(* gateway; a prompt is blamed on the engine for the engine's errors only.  *)
THEOREM NobodyWaitsInVain == Spec => []Consistent
<1>1. Awaited => Consistent
  <2> SUFFICES ASSUME Awaited PROVE Consistent
    OBVIOUS
  <2>1. TypeOK /\ WaiterHasWaker /\ DeathIsRecognised
    BY DEF Awaited, WakerInv, ErrorInv
  <2>2. NobodyLeftBehind
    BY BridgeAssumption DEF Awaited, CallInv, Waits, Callers, NobodyLeftBehind
  <2> QED BY <2>1, <2>2 DEF Consistent
<1> QED BY <1>1, AlwaysAwaited, PTL
-----------------------------------------------------------------------------
(* That a session keeps the contract of EngineSession takes more: where the *)
(* turn is, and that nothing but its own end can end it, or else a refusal  *)
(* that interrupts it and with it the session.                              *)

Active == wpc \in {"arm", "check", "wait"}

(* The turn may still be seen: it is awaited, or goes on unawaited.         *)
Open == Active \/ turn \in interrupted

(* The request for a turn, what the reader may then get, and the last of it.*)
Grave == {r \in Rids : r.method = "submit"}
Weighty ==
  {f \in Frames : f.kind # "ok" /\ (f.kind = "err" => f.rid.method = "submit")}
Final == {f \in Weighty : f.kind # "text"}

(* After an element of X there is none of Y.                                *)
Ends(s, X, Y) == \A j, k \in DOMAIN s : j < k /\ s[j] \in X => s[k] \notin Y

(* A turn is requested, runs, or has its last frame on its way: one after   *)
(* the other.                                                               *)
OnceInv ==
  /\ Ends(stdin, Grave, Grave) /\ Ends(stdout, Final, Weighty)
  /\ In(stdin) \cap Grave # {} => running = 0 /\ In(stdout) \cap Weighty = {}
  /\ running # 0 => In(stdout) \cap Final = {}

(* Whatever of a turn is to be seen is of the worker's, while it is open.   *)
Asks(r) == Open /\ r = Rid(Worker, "submit", turn)
Says(f) == Open /\ (LastFrame(f, turn) \/ f = [kind |-> "text", turn |-> turn])
OwnInv ==
  /\ \A r \in In(stdin) \cap Grave : Asks(r)
  /\ running # 0 => Open /\ running = turn
  /\ \A f \in In(stdout) \cap Weighty : Says(f)

(* The gateway has finished the turns whose end it has written.             *)
Begins == wpc \in {"asking", "submit"} \/ running # 0 \/ In(stdin) \cap Grave # {}
EndInv ==
  /\ finished \subseteq 1..turn
  /\ Begins => turn \notin finished
  /\ \A f \in In(stdout) : f.kind \in {"end", "fail"} => f.turn \in finished

(* Once the worker can be told that its turn is over, nothing is left of it *)
(* unless it was interrupted.                                               *)
Over ==
  In(stdin) \cap Grave = {} /\ running = 0 /\ In(stdout) \cap Weighty = {}
Told == wpc \in {"check", "wait"} /\ done # "no"
ToldInv ==
  /\ Told => Over \/ turn \in interrupted
  /\ Told /\ done = "ok" => turn \in finished

(* A turn that is on record has not ended, and the session does not outlive *)
(* one that was interrupted.                                                *)
CutInv ==
  /\ armed # 0 => armed = turn /\ done = "no" /\ wpc \in {"check", "wait"}
  /\ interrupted \subseteq {turn}
  /\ interrupted # {} => (Told /\ done = "error") \/ wpc \in {"raised", "closed"}

(* What a death leaves, and what has been seen of it.                       *)
LeftInv ==
  /\ ~alive => stdin = <<>> /\ running = 0
  /\ isDead /\ wpc # "closed" => ~alive /\ stdout = <<>>

(* How the turns have ended.                                                *)
OutcomeInv ==
  /\ \A n \in Turns : outcome[n] = "failed" => wpc \in {"raised", "closed"}
  /\ \A n \in Turns : n > turn => outcome[n] = "none"
  /\ wpc \in {"asking", "submit"} \/ Active => outcome[turn] = "none"

Kept == OnceInv /\ OwnInv /\ EndInv /\ ToldInv /\ CutInv /\ LeftInv /\ OutcomeInv

(* What is appended to a queue that holds nothing of X may be of Y.         *)
LEMMA EndsAppended ==
  ASSUME NEW S, NEW s \in Seq(S), NEW x \in S, NEW X, NEW Y, Ends(s, X, Y),
         x \notin Y \/ In(s) \cap X = {}
  PROVE  Ends(Append(s, x), X, Y) /\ Ends(s \o <<x>>, X, Y)
<1>1. /\ s \o <<x>> = Append(s, x)
      /\ Len(Append(s, x)) = Len(s) + 1 /\ Append(s, x)[Len(s) + 1] = x
      /\ \A k \in 1..Len(s) : Append(s, x)[k] = s[k]
      /\ Len(s) \in Nat
  OBVIOUS
<1>2. DOMAIN s = 1..Len(s) /\ DOMAIN Append(s, x) = 1..(Len(s) + 1)
  BY <1>1
<1>3. ASSUME NEW j \in DOMAIN Append(s, x), NEW k \in DOMAIN Append(s, x),
             j < k, Append(s, x)[j] \in X
      PROVE  Append(s, x)[k] \notin Y
  <2>1. j \in 1..Len(s) /\ s[j] \in X /\ j \in DOMAIN s
    BY <1>1, <1>2, <1>3
  <2>2. s[j] \in In(s)
    BY <2>1 DEF In
  <2>3. CASE k = Len(s) + 1
    BY <1>1, <2>1, <2>2, <2>3
  <2>4. CASE k # Len(s) + 1
    <3>1. k \in DOMAIN s /\ Append(s, x)[k] = s[k]
      BY <1>1, <1>2, <2>4
    <3> QED BY <1>3, <2>1, <3>1 DEF Ends
  <2> QED BY <2>3, <2>4
<1> QED BY <1>1, <1>3 DEF Ends

(* Nothing of Y is left once the first element was of X.                    *)
LEMMA EndsTaken ==
  ASSUME NEW S, NEW s \in Seq(S), s # <<>>, NEW X, NEW Y, Ends(s, X, Y)
  PROVE  Ends(Tail(s), X, Y) /\ (Head(s) \in X => In(Tail(s)) \cap Y = {})
<1>1. /\ Head(s) = s[1] /\ Len(s) \in Nat \ {0}
      /\ \A k \in 1..(Len(s) - 1) : Tail(s)[k] = s[k + 1]
      /\ DOMAIN s = 1..Len(s) /\ DOMAIN Tail(s) = 1..(Len(s) - 1)
  OBVIOUS
<1>2. \A k \in DOMAIN Tail(s) : k \in Nat /\ k > 0 /\ k + 1 \in DOMAIN s /\ Tail(s)[k] = s[k + 1]
  BY <1>1
<1>3. 1 \in DOMAIN s
  BY <1>1
<1>4. ASSUME NEW j \in DOMAIN Tail(s), NEW k \in DOMAIN Tail(s), j < k, Tail(s)[j] \in X
      PROVE  Tail(s)[k] \notin Y
  <2>1. j + 1 < k + 1 /\ s[j + 1] \in X
    BY <1>2, <1>4
  <2> QED BY <1>2, <2>1 DEF Ends
<1>5. ASSUME NEW k \in DOMAIN Tail(s), Head(s) \in X PROVE Tail(s)[k] \notin Y
  <2>1. 1 < k + 1 /\ s[1] \in X
    BY <1>1, <1>2, <1>5
  <2> QED BY <1>2, <1>3, <2>1 DEF Ends
<1> QED BY <1>4, <1>5 DEF Ends, In

(* The same of the requests in stdin.                                       *)
LEMMA RidEndsAppended ==
  ASSUME NEW s \in Seq(Rids), NEW rid \in Rids, NEW X, NEW Y, Ends(s, X, Y),
         rid \notin Y \/ In(s) \cap X = {}
  PROVE  Ends(Append(s, rid), X, Y)
<1>1. PICK S : S = Rids
  OBVIOUS
<1>2. s \in Seq(S) /\ rid \in S
  BY <1>1
<1> QED BY <1>2, EndsAppended

(* What is seen of a turn is of one that is open.                           *)
LEMMA NothingOwed ==
  ASSUME OwnInv, ~Open
  PROVE  Over
  BY DEF OwnInv, Over, Asks, Says

(* And where nothing is owed, nothing is wrong.                             *)
LEMMA OverOwn ==
  ASSUME Over
  PROVE  OwnInv
  BY DEF Over, OwnInv

(* Before its prompt() is called a turn is not open.                        *)
LEMMA NotOpen ==
  ASSUME CutInv, OwnInv, wpc \in {"create", "creating", "idle", "asking", "submit"}
  PROVE  ~Open /\ Over /\ interrupted = {} /\ armed = 0
<1>1. ~Active /\ ~Told /\ interrupted = {} /\ armed = 0
  BY DEF Active, Told, CutInv
<1>2. ~Open
  BY <1>1 DEF Open
<1> QED BY <1>1, <1>2, NothingOwed

(* The initial state.                                                       *)
LEMMA InitKept == Init => Kept
<1> SUFFICES ASSUME Init PROVE Kept
  OBVIOUS
<1>1. In(stdin) = {} /\ In(stdout) = {} /\ running = 0 /\ finished = {} /\ interrupted = {}
  BY DEF Init, In
<1>2. OnceInv
  <2>1. DOMAIN stdin = {} /\ DOMAIN stdout = {}
    BY DEF Init
  <2> QED BY <1>1, <2>1 DEF OnceInv, Ends
<1>3. OwnInv /\ EndInv /\ ToldInv /\ CutInv
  BY <1>1 DEF Init, OwnInv, EndInv, Begins, ToldInv, Told, CutInv, Active
<1>4. LeftInv /\ OutcomeInv
  BY DEF Init, LeftInv, OutcomeInv, Active
<1> QED BY <1>2, <1>3, <1>4 DEF Kept

-----------------------------------------------------------------------------
(* The gateway.                                                             *)

(* Steps that leave the worker and its turn where they are.                 *)
LEMMA SameAsks ==
  ASSUME UNCHANGED <<wpc, turn, interrupted>>
  PROVE  /\ Active' <=> Active
         /\ Open' <=> Open
         /\ \A r : Asks(r)' <=> Asks(r)
         /\ \A f : Says(f)' <=> Says(f)
<1>1. (Active' <=> Active) /\ (Open' <=> Open)
  BY DEF Active, Open
<1> QED BY <1>1 DEF Asks, Says, LastFrame

(* Serve keeps Kept.                                                        *)
LEMMA ServeKept ==
  ASSUME Awaited, Kept, Serve
  PROVE  Kept'
<1>1. GatewayTypes /\ OnceInv /\ OwnInv /\ EndInv /\ ToldInv /\ CutInv /\ LeftInv /\ OutcomeInv
  BY TypesSplit DEF Awaited, Types, Kept
<1>2. /\ alive /\ stdin # <<>> /\ stdin' = Tail(stdin)
      /\ UNCHANGED <<alive, said, finished, wkVars, turnVars, shown, call,
                     isDead, rpc, rd>>
  BY DEF Serve
<1>3. PICK rid \in Rids : /\ rid = Head(stdin) /\ stdin' \in Seq(Rids)
                          /\ In(stdin) = {rid} \cup In(stdin')
  BY <1>1, <1>2, InTail DEF GatewayTypes
<1>4. /\ Ends(stdin', Grave, Grave)
      /\ rid \in Grave => In(stdin') \cap Grave = {}
  BY <1>1, <1>2, <1>3, EndsTaken DEF GatewayTypes, OnceInv
<1>5. /\ Active' <=> Active
      /\ Open' <=> Open
      /\ \A r : Asks(r)' <=> Asks(r)
      /\ \A f : Says(f)' <=> Says(f)
  BY <1>2, SameAsks DEF wkVars, turnVars
<1>6. LeftInv' /\ OutcomeInv' /\ CutInv'
  <2>1. isDead /\ wpc # "closed" => ~alive
    BY <1>1 DEF LeftInv
  <2> QED BY <1>1, <1>2, <1>5, <2>1 DEF LeftInv, OutcomeInv, CutInv, Told, wkVars, turnVars
<1>7. CASE /\ rid.method = "submit" /\ running = 0 /\ running' = rid.turn
           /\ UNCHANGED <<stdout, erred>>
  <2>1. rid \in Grave /\ rid \in In(stdin) /\ In(stdout) \cap Weighty = {} /\ Asks(rid)
    BY <1>1, <1>3, <1>7 DEF Grave, OnceInv, OwnInv
  <2>2. Open /\ running' = turn
    BY <1>7, <2>1 DEF Asks, Rid
  <2>3. OnceInv'
    BY <1>1, <1>4, <1>7, <2>1 DEF OnceInv, Final
  <2>4. OwnInv'
    BY <1>1, <1>2, <1>4, <1>5, <1>7, <2>1, <2>2 DEF OwnInv, wkVars
  <2>5. EndInv'
    <3>1. Begins
      BY <1>3, <1>7 DEF Begins, Grave
    <3> QED BY <1>1, <1>2, <1>7, <3>1 DEF EndInv, wkVars
  <2>6. ToldInv'
    BY <1>1, <1>2, <2>1 DEF ToldInv, Told, Over, wkVars, turnVars
  <2> QED BY <1>6, <2>3, <2>4, <2>5, <2>6 DEF Kept
<1>8. ASSUME NEW kind \in {"ok", "err"}, Reply(kind, rid), UNCHANGED running,
             kind = "ok" => rid.method # "submit"
      PROVE  Kept'
  <2>1. PICK f \in Frames : f = [kind |-> kind, rid |-> rid]
    BY DEF Frames
  <2>2. In(stdout') = In(stdout) \cup {f} /\ stdout' = stdout \o <<f>>
    BY <1>1, <1>8, <2>1, InAppend DEF GatewayTypes, Reply, Write
  <2>3. f \in Weighty <=> rid \in Grave
    <3>1. f.kind = kind /\ f.rid = rid
      BY <2>1
    <3> QED BY <1>3, <1>8, <2>1, <3>1 DEF Weighty, Grave
  <2>4. f.kind \notin {"end", "fail"}
    BY <2>1
  <2>5. rid \in Grave => Asks(rid) /\ running = 0 /\ In(stdout) \cap Weighty = {}
    BY <1>1, <1>3 DEF OnceInv, OwnInv
  <2>6. Ends(stdout', Final, Weighty)
    <3>1. f \notin Weighty \/ In(stdout) \cap Final = {}
      BY <2>3, <2>5 DEF Final
    <3> QED BY <1>1, <2>2, <3>1, EndsAppended DEF GatewayTypes, OnceInv
  <2>7. OnceInv'
    <3>1. In(stdin') \cap Grave # {} => In(stdin) \cap Grave # {} /\ rid \notin Grave
      BY <1>3, <1>4
    <3>2. In(stdin') \cap Grave # {} => running' = 0 /\ In(stdout') \cap Weighty = {}
      BY <1>1, <1>8, <2>2, <2>3, <3>1 DEF OnceInv
    <3>3. running' # 0 => In(stdout') \cap Final = {}
      BY <1>1, <1>8, <2>2, <2>3, <2>5 DEF OnceInv, Final
    <3> QED BY <1>4, <2>6, <3>2, <3>3 DEF OnceInv
  <2>8. OwnInv'
    <3>1. f \in Weighty => Says(f)
      <4>1. f \in Weighty => kind = "err" /\ Asks(rid)
        BY <1>8, <2>1, <2>3, <2>5 DEF Weighty
      <4>2. Asks(rid) /\ kind = "err" =>
              f = [kind |-> "err", rid |-> Rid(Worker, "submit", turn)]
        BY <2>1 DEF Asks
      <4> QED BY <4>1, <4>2 DEF Asks, Says, LastFrame
    <3> QED BY <1>1, <1>2, <1>3, <1>5, <1>8, <2>2, <3>1 DEF OwnInv, wkVars
  <2>9. EndInv'
    BY <1>1, <1>2, <1>3, <1>8, <2>2, <2>4 DEF EndInv, Begins, wkVars
  <2>10. ToldInv'
    <3>1. Over => Over'
      BY <1>3, <1>8, <2>2, <2>3 DEF Over
    <3> QED BY <1>1, <1>2, <1>5, <3>1 DEF ToldInv, Told, wkVars, turnVars
  <2> QED BY <1>6, <2>7, <2>8, <2>9, <2>10 DEF Kept
<1> QED
  <2>1. CASE rid.method # "submit" /\ Reply("ok", rid) /\ UNCHANGED running
    BY <1>8, <2>1
  <2>2. CASE Reply("err", rid) /\ UNCHANGED running
    BY <1>8, <2>2
  <2> QED BY <1>3, <1>7, <2>1, <2>2 DEF Serve

(* Say keeps Kept.                                                          *)
LEMMA SayKept ==
  ASSUME Awaited, Kept, Say
  PROVE  Kept'
<1>1. GatewayTypes /\ OnceInv /\ OwnInv /\ EndInv /\ ToldInv /\ CutInv /\ LeftInv /\ OutcomeInv
  BY TypesSplit DEF Awaited, Types, Kept
<1>2. /\ alive /\ running # 0 /\ Write(<<[kind |-> "text", turn |-> running]>>)
      /\ UNCHANGED <<alive, stdin, running, finished, erred, wkVars, turnVars,
                     shown, call, isDead, rpc, rd>>
  BY DEF Say
<1>3. running \in Turns
  BY <1>1, <1>2, BridgeAssumption DEF GatewayTypes, Turns
<1>4. PICK f \in Frames : f = [kind |-> "text", turn |-> running]
  BY <1>3 DEF Frames
<1>5. In(stdout') = In(stdout) \cup {f} /\ stdout' = stdout \o <<f>>
  BY <1>1, <1>2, <1>4, InAppend DEF GatewayTypes, Write
<1>6. Open /\ running = turn /\ In(stdin) \cap Grave = {} /\ In(stdout) \cap Final = {}
  BY <1>1, <1>2 DEF OnceInv, OwnInv
<1>7. f \notin Final /\ f.kind = "text" /\ f = [kind |-> "text", turn |-> turn]
  BY <1>4, <1>6 DEF Final
<1>8. OnceInv'
  <2>1. Ends(stdout', Final, Weighty)
    BY <1>1, <1>5, <1>6, EndsAppended DEF GatewayTypes, OnceInv
  <2> QED BY <1>1, <1>2, <1>5, <1>6, <1>7, <2>1 DEF OnceInv
<1>9. OwnInv'
  <2>1. Says(f)
    BY <1>6, <1>7 DEF Says
  <2>2. \A g : Says(g)' <=> Says(g)
    BY <1>2, SameAsks DEF wkVars, turnVars
  <2>3. Open' /\ running' = turn'
    BY <1>2, <1>6 DEF Open, Active, wkVars, turnVars
  <2> QED BY <1>1, <1>2, <1>5, <1>6, <2>1, <2>2, <2>3 DEF OwnInv
<1>10. EndInv'
  BY <1>1, <1>2, <1>5, <1>7 DEF EndInv, Begins, wkVars
<1>11. ToldInv' /\ CutInv'
  BY <1>1, <1>2 DEF ToldInv, Told, CutInv, Over, wkVars, turnVars
<1>12. LeftInv' /\ OutcomeInv'
  BY <1>1, <1>2 DEF LeftInv, OutcomeInv, Active, wkVars
<1> QED BY <1>8, <1>9, <1>10, <1>11, <1>12 DEF Kept

(* EndTurn keeps Kept.                                                      *)
LEMMA EndTurnKept ==
  ASSUME Awaited, Kept, EndTurn
  PROVE  Kept'
<1>1. GatewayTypes /\ OnceInv /\ OwnInv /\ EndInv /\ ToldInv /\ CutInv /\ LeftInv /\ OutcomeInv
  BY TypesSplit DEF Awaited, Types, Kept
<1>2. /\ alive /\ running # 0 /\ finished' = finished \cup {running} /\ running' = 0
      /\ UNCHANGED <<alive, stdin, said, wkVars, turnVars, shown, call, isDead, rpc, rd>>
  BY DEF EndTurn
<1>3. running \in Turns
  BY <1>1, <1>2, BridgeAssumption DEF GatewayTypes, Turns
<1>4. PICK kind \in {"end", "fail"} : Write(<<[kind |-> kind, turn |-> running]>>)
  <2>1. PICK end : end = [kind |-> "end", turn |-> running]
    OBVIOUS
  <2>2. [end EXCEPT !.kind = "fail"] = [kind |-> "fail", turn |-> running]
    BY <2>1
  <2>3. Write(<<end>>) \/ Write(<<[end EXCEPT !.kind = "fail"]>>)
    BY <2>1, Zenon DEF EndTurn
  <2> QED BY <2>1, <2>2, <2>3
<1>5. PICK f \in Frames : f = [kind |-> kind, turn |-> running]
  BY <1>3 DEF Frames
<1>6. In(stdout') = In(stdout) \cup {f} /\ stdout' = stdout \o <<f>>
  BY <1>1, <1>4, <1>5, InAppend DEF GatewayTypes, Write
<1>7. Open /\ running = turn /\ In(stdin) \cap Grave = {} /\ In(stdout) \cap Final = {}
  BY <1>1, <1>2 DEF OnceInv, OwnInv
<1>8. f.kind \in {"end", "fail"} /\ f.turn = turn
  BY <1>5, <1>7
<1>9. OnceInv'
  <2>1. Ends(stdout', Final, Weighty)
    BY <1>1, <1>6, <1>7, EndsAppended DEF GatewayTypes, OnceInv
  <2> QED BY <1>1, <1>2, <1>6, <1>7, <1>8, <2>1 DEF OnceInv
<1>10. OwnInv'
  <2>1. Says(f)
    BY <1>7, <1>8 DEF Says, LastFrame
  <2>2. \A g : Says(g)' <=> Says(g)
    BY <1>2, SameAsks DEF wkVars, turnVars
  <2> QED BY <1>1, <1>2, <1>6, <1>7, <2>1, <2>2 DEF OwnInv
<1>11. EndInv'
  <2>1. turn \in 1..turn
    BY <1>3, <1>7, BridgeAssumption DEF Turns
  <2>2. ~Begins'
    <3>1. wpc \notin {"asking", "submit"}
      BY <1>1, <1>7, NotOpen
    <3> QED BY <1>2, <1>7, <3>1 DEF Begins, wkVars
  <2>3. finished' \subseteq 1..turn'
    BY <1>1, <1>2, <1>7, <2>1 DEF EndInv, wkVars
  <2> QED BY <1>1, <1>2, <1>6, <1>7, <1>8, <2>2, <2>3 DEF EndInv
<1>12. ToldInv' /\ CutInv'
  BY <1>1, <1>2 DEF ToldInv, Told, CutInv, Over, wkVars, turnVars
<1>13. LeftInv' /\ OutcomeInv'
  BY <1>1, <1>2 DEF LeftInv, OutcomeInv, Active, wkVars
<1> QED BY <1>9, <1>10, <1>11, <1>12, <1>13 DEF Kept

(* Die keeps Kept.                                                          *)
LEMMA DieKept ==
  ASSUME Kept, Die
  PROVE  Kept'
<1>1. OnceInv /\ OwnInv /\ EndInv /\ ToldInv /\ CutInv /\ LeftInv /\ OutcomeInv
  BY DEF Kept
<1>2. /\ alive /\ ~alive' /\ stdin' = <<>> /\ running' = 0
      /\ UNCHANGED <<stdout, said, finished, erred, wkVars, turnVars, shown,
                     call, isDead, rpc, rd>>
  BY DEF Die
<1>3. In(stdin') = {} /\ Ends(stdin', Grave, Grave)
  BY <1>2 DEF In, Ends
<1>4. OnceInv'
  BY <1>1, <1>2, <1>3 DEF OnceInv
<1>5. OwnInv' /\ EndInv'
  BY <1>1, <1>2, <1>3, SameAsks DEF OwnInv, EndInv, Begins, wkVars, turnVars
<1>6. ToldInv' /\ CutInv'
  BY <1>1, <1>2, <1>3 DEF ToldInv, Told, CutInv, Over, wkVars, turnVars
<1>7. LeftInv' /\ OutcomeInv'
  BY <1>1, <1>2 DEF LeftInv, OutcomeInv, Active, wkVars
<1> QED BY <1>4, <1>5, <1>6, <1>7 DEF Kept

-----------------------------------------------------------------------------
(* Calls.                                                                   *)

(* A request that is not for a turn goes into stdin, if the gateway lives.  *)
LEMMA RegistersOther ==
  ASSUME GatewayTypes, OnceInv, NEW c \in Callers, NEW m \in Methods, m # "submit",
         NEW n \in 0..MaxTurns, Register(c, m, n), UNCHANGED <<stdout, running>>
  PROVE  /\ OnceInv'
         /\ In(stdin') \cap Grave = In(stdin) \cap Grave
         /\ ~alive => stdin' = stdin
<1>1. PICK rid \in Rids : rid = Rid(c, m, n)
  BY RidTypes
<1>2. rid \notin Grave
  BY <1>1 DEF Grave, Rid
<1>3. stdin \in Seq(Rids) /\ stdin' = IF alive THEN Append(stdin, rid) ELSE stdin
  BY <1>1 DEF Register, GatewayTypes
<1>4. In(Append(stdin, rid)) = In(stdin) \cup {rid}
  BY <1>3, RidAppended
<1>5. Ends(Append(stdin, rid), Grave, Grave)
  BY <1>2, <1>3, RidEndsAppended DEF OnceInv
<1>6. In(stdin') \cap Grave = In(stdin) \cap Grave
  BY <1>2, <1>3, <1>4
<1>7. Ends(stdin', Grave, Grave)
  BY <1>3, <1>5 DEF OnceInv
<1> QED BY <1>3, <1>6, <1>7 DEF OnceInv

(* A request for the catalog is none for a turn.                            *)
LEMMA VisitKept ==
  ASSUME Awaited, Kept, NEW v \in Visitors, Visit(v)
  PROVE  Kept'
<1>1. Types /\ OnceInv /\ OwnInv /\ EndInv /\ ToldInv /\ CutInv /\ LeftInv /\ OutcomeInv
  BY TypesSplit DEF Awaited, Kept
<1>2. /\ Register(v, "catalog", 0)
      /\ UNCHANGED <<alive, stdout, running, said, finished, erred, wkVars, turnVars,
                     shown, isDead, rd>>
  BY DEF Visit
<1>3. /\ OnceInv'
      /\ In(stdin') \cap Grave = In(stdin) \cap Grave
      /\ ~alive => stdin' = stdin
  <2>1. 0 \in 0..MaxTurns /\ "catalog" \in Methods /\ v \in Callers
    BY BridgeAssumption DEF Methods, Callers
  <2> QED BY <1>1, <1>2, <2>1, RegistersOther DEF Types
<1>4. /\ Active' <=> Active
      /\ Open' <=> Open
      /\ \A r : Asks(r)' <=> Asks(r)
      /\ \A f : Says(f)' <=> Says(f)
  BY <1>2, SameAsks DEF wkVars, turnVars
<1>5. OwnInv'
  BY <1>1, <1>2, <1>3, <1>4 DEF OwnInv, wkVars
<1>6. EndInv'
  BY <1>1, <1>2, <1>3 DEF EndInv, Begins, wkVars
<1>7. ToldInv' /\ CutInv'
  BY <1>1, <1>2, <1>3 DEF ToldInv, Told, CutInv, Over, wkVars, turnVars
<1>8. LeftInv' /\ OutcomeInv'
  BY <1>1, <1>2, <1>3, <1>4 DEF LeftInv, OutcomeInv, wkVars
<1> QED BY <1>3, <1>5, <1>6, <1>7, <1>8 DEF Kept

(* Kept says nothing of who waits for the answer to an RPC.                 *)
LEMMA SameKept ==
  ASSUME Kept, UNCHANGED <<alive, stdin, stdout, running, finished, wpc, turn, outcome,
                           armed, done, interrupted, isDead>>
  PROVE  Kept'
<1>1. OwnInv'
  BY SameAsks DEF Kept, OwnInv
<1>2. OnceInv' /\ EndInv'
  BY DEF Kept, OnceInv, EndInv, Begins
<1>3. ToldInv' /\ CutInv' /\ LeftInv' /\ OutcomeInv'
  BY DEF Kept, ToldInv, Told, CutInv, Over, LeftInv, OutcomeInv, Active
<1> QED BY <1>1, <1>2, <1>3 DEF Kept

(* Leave keeps Kept.                                                        *)
LEMMA LeaveKept ==
  ASSUME Kept, NEW v \in Visitors, Leave(v)
  PROVE  Kept'
  BY SameKept DEF Leave, gwVars, wkVars, turnVars

-----------------------------------------------------------------------------
(* The worker.                                                              *)

(* A step between turns, which leaves the gateway and the reader alone.     *)
LEMMA BetweenKept ==
  ASSUME Kept, wpc \in {"create", "creating", "idle", "asking", "submit"},
         wpc' \notin {"arm", "check", "wait", "closed"},
         UNCHANGED <<alive, stdout, running, finished, armed, done, interrupted, isDead>>,
         OnceInv', In(stdin') \cap Grave = In(stdin) \cap Grave,
         ~alive => stdin' = stdin,
         EndInv', OutcomeInv'
  PROVE  Kept'
<1>1. CutInv /\ OwnInv /\ LeftInv
  BY DEF Kept
<1>2. Over /\ interrupted = {} /\ armed = 0
  BY <1>1, NotOpen
<1>3. Over'
  BY <1>2 DEF Over
<1>4. OwnInv'
  BY <1>3 DEF Over, OwnInv
<1>5. ToldInv' /\ CutInv'
  BY <1>2 DEF ToldInv, Told, CutInv
<1>6. LeftInv'
  BY <1>1 DEF LeftInv
<1> QED BY <1>4, <1>5, <1>6 DEF Kept

(* The queues are as they were.                                             *)
LEMMA OnceSame ==
  ASSUME OnceInv, UNCHANGED <<stdin, stdout, running>>
  PROVE  OnceInv'
  BY DEF OnceInv

(* The outcome of a turn that is given up.                                  *)
LEMMA GiveUpOutcome ==
  ASSUME WorkerTypes, OutcomeInv, NEW why, GiveUp(why)
  PROVE  OutcomeInv' /\ wpc' = "raised" /\ turn' = turn
<1>1. wpc' = "raised" /\ turn' = turn
  BY DEF GiveUp
<1>2. \A n \in Turns : n # turn => outcome'[n] = outcome[n]
  BY DEF GiveUp, WorkerTypes
<1>3. turn \in Nat /\ \A n \in Turns : n \in Nat
  BY BridgeAssumption DEF WorkerTypes, Turns
<1> QED BY <1>1, <1>2, <1>3 DEF OutcomeInv, Active

(* Create keeps Kept.                                                       *)
LEMMA CreateKept ==
  ASSUME Awaited, Kept, Create
  PROVE  Kept'
<1>1. Types /\ OnceInv /\ EndInv /\ OutcomeInv
  BY TypesSplit DEF Awaited, Kept
<1>2. /\ wpc = "create" /\ Register(Worker, "create", 0)
      /\ IF alive THEN WorkerAt("creating") ELSE GiveUp("gone")
      /\ UNCHANGED <<alive, stdout, running, said, finished, erred, turnVars,
                     shown, isDead, rpc, rd>>
  BY DEF Create
<1>3. /\ OnceInv'
      /\ In(stdin') \cap Grave = In(stdin) \cap Grave
      /\ ~alive => stdin' = stdin
  <2>1. 0 \in 0..MaxTurns /\ "create" \in Methods /\ Worker \in Callers
    BY BridgeAssumption DEF Methods, Callers
  <2> QED BY <1>1, <1>2, <2>1, RegistersOther DEF Types
<1>4. wpc' \in {"creating", "raised"} /\ turn' = turn /\ OutcomeInv'
  <2>1. CASE WorkerAt("creating")
    BY <1>1, <1>2, <2>1 DEF WorkerAt, OutcomeInv, Active
  <2>2. CASE GiveUp("gone")
    BY <1>1, <2>2, GiveUpOutcome DEF Types
  <2> QED BY <1>2, <2>1, <2>2
<1>5. EndInv'
  BY <1>1, <1>2, <1>3, <1>4 DEF EndInv, Begins
<1> QED BY <1>2, <1>3, <1>4, <1>5, BetweenKept DEF turnVars

(* Created keeps Kept.                                                      *)
LEMMA CreatedKept ==
  ASSUME Awaited, Kept, Created
  PROVE  Kept'
<1>1. Types /\ OnceInv /\ EndInv /\ OutcomeInv
  BY TypesSplit DEF Awaited, Kept
<1>2. /\ wpc = "creating"
      /\ IF call[Worker].answer = "ok" THEN WorkerAt("idle") ELSE GiveUp("error")
      /\ UNCHANGED <<gwVars, turnVars, shown, isDead, rpc, rd>>
  BY DEF Created
<1>3. wpc' \in {"idle", "raised"} /\ turn' = turn /\ OutcomeInv'
  <2>1. CASE WorkerAt("idle")
    BY <1>1, <1>2, <2>1 DEF WorkerAt, OutcomeInv, Active
  <2>2. CASE GiveUp("error")
    BY <1>1, <2>2, GiveUpOutcome DEF Types
  <2> QED BY <1>2, <2>1, <2>2
<1>4. EndInv' /\ OnceInv'
  BY <1>1, <1>2, <1>3, OnceSame DEF EndInv, Begins, gwVars
<1> QED BY <1>2, <1>3, <1>4, BetweenKept DEF turnVars, gwVars

(* TakePrompt keeps Kept.                                                   *)
LEMMA TakePromptKept ==
  ASSUME Awaited, Kept, TakePrompt
  PROVE  Kept'
<1>1. Types /\ OnceInv /\ EndInv /\ OutcomeInv
  BY TypesSplit DEF Awaited, Kept
<1>2. /\ wpc = "idle" /\ turn < MaxTurns /\ turn' = turn + 1
      /\ UNCHANGED <<alive, stdout, running, said, finished, erred, reason,
                     outcome, turnVars, shown, isDead, rpc, rd>>
  BY DEF TakePrompt
<1>3. /\ turn \in Nat /\ turn' \in 1..MaxTurns
  BY <1>1, <1>2, BridgeAssumption DEF Types, WorkerTypes
<1>4. EndInv'
  <2>1. finished \subseteq 1..turn' /\ turn' \notin finished
    BY <1>1, <1>2, <1>3 DEF EndInv
  <2> QED BY <1>1, <1>2, <2>1 DEF EndInv
<1>5. wpc' \in {"submit", "asking"}
  BY DEF TakePrompt
<1>6. OutcomeInv'
  <2>1. \A n \in Turns : outcome'[n] = outcome[n] /\ outcome[n] # "failed"
    BY <1>1, <1>2 DEF OutcomeInv
  <2>2. \A n \in Turns : n \in Nat /\ (n > turn' => n > turn)
    BY <1>2, <1>3, BridgeAssumption DEF Turns
  <2>3. outcome'[turn'] = "none"
    <3>1. turn' \in Turns /\ turn' > turn
      BY <1>2, <1>3 DEF Turns
    <3>2. PICK n \in Turns : n = turn' /\ n > turn
      BY <3>1
    <3>3. outcome'[n] = "none"
      BY <1>1, <1>2, <3>2 DEF OutcomeInv
    <3> QED BY <3>2, <3>3
  <2> QED BY <1>1, <1>2, <1>5, <2>1, <2>2, <2>3 DEF OutcomeInv, Active
<1>7. /\ OnceInv'
      /\ In(stdin') \cap Grave = In(stdin) \cap Grave
      /\ ~alive => stdin' = stdin
  <2>1. CASE UNCHANGED stdin
    BY <1>1, <1>2, <2>1, OnceSame
  <2>2. CASE Register(Worker, "dispatch", turn')
    <3>1. PICK n \in 0..MaxTurns : n = turn'
      BY <1>3
    <3>2. Worker \in Callers /\ "dispatch" \in Methods /\ Register(Worker, "dispatch", n)
      BY <2>2, <3>1 DEF Callers, Methods
    <3> QED BY <1>1, <1>2, <3>2, RegistersOther DEF Types
  <2> QED BY <2>1, <2>2 DEF TakePrompt
<1> QED BY <1>2, <1>4, <1>5, <1>6, <1>7, BetweenKept DEF turnVars

(* Dispatched keeps Kept.                                                   *)
LEMMA DispatchedKept ==
  ASSUME Kept, Dispatched
  PROVE  Kept'
<1>1. OnceInv /\ EndInv /\ OutcomeInv
  BY DEF Kept
<1>2. /\ wpc = "asking"
      /\ wpc' \in {"submit", "idle"} /\ UNCHANGED <<turn, reason, outcome>>
      /\ UNCHANGED <<gwVars, turnVars, shown, isDead, rpc, rd>>
  BY DEF Dispatched, WorkerAt
<1>3. EndInv' /\ OutcomeInv' /\ OnceInv'
  BY <1>1, <1>2, OnceSame DEF EndInv, Begins, OutcomeInv, Active, gwVars
<1> QED BY <1>2, <1>3, BetweenKept DEF turnVars, gwVars

(* Submit keeps Kept.                                                       *)
LEMMA SubmitKept ==
  ASSUME Awaited, Kept, Submit
  PROVE  Kept'
<1>1. Types /\ OnceInv /\ OwnInv /\ EndInv /\ ToldInv /\ CutInv /\ LeftInv /\ OutcomeInv
  BY TypesSplit DEF Awaited, Kept
<1>2. /\ wpc = "submit"
      /\ UNCHANGED <<alive, stdout, running, said, finished, erred, turnVars,
                     shown, call, isDead, rpc, rd>>
  BY DEF Submit
<1>3. Over /\ interrupted = {} /\ armed = 0
  BY <1>1, <1>2, NotOpen
<1>4. CASE alive /\ WorkerAt("arm") /\ stdin' = Append(stdin, Rid(Worker, "submit", turn))
  <2>1. PICK n \in 0..MaxTurns : n = turn
    BY <1>1 DEF Types, WorkerTypes
  <2>2. PICK rid \in Rids : rid = Rid(Worker, "submit", n)
    BY RidTypes DEF Callers, Methods
  <2>3. stdin \in Seq(Rids) /\ stdin' = Append(stdin, rid)
    BY <1>1, <1>4, <2>1, <2>2 DEF Types, GatewayTypes
  <2>4. In(stdin') = In(stdin) \cup {rid}
    BY <2>3, RidAppended
  <2>5. Ends(stdin', Grave, Grave)
    <3>1. In(stdin) \cap Grave = {} /\ Ends(stdin, Grave, Grave)
      BY <1>1, <1>3 DEF Over, OnceInv
    <3> QED BY <2>3, <3>1, RidEndsAppended
  <2>6. wpc' = "arm" /\ turn' = turn /\ outcome' = outcome
    BY <1>4 DEF WorkerAt
  <2>7. OnceInv'
    BY <1>1, <1>2, <1>3, <2>5 DEF OnceInv, Over
  <2>8. OwnInv'
    <3>1. Open' /\ turn' = n
      BY <2>1, <2>6 DEF Open, Active
    <3>2. Asks(rid)'
      BY <2>2, <3>1 DEF Asks
    <3> QED BY <1>2, <1>3, <2>4, <3>2 DEF OwnInv, Over
  <2>9. EndInv'
    BY <1>1, <1>2, <2>6 DEF EndInv, Begins
  <2>10. ToldInv' /\ CutInv'
    BY <1>2, <1>3, <2>6 DEF ToldInv, Told, CutInv, turnVars
  <2>11. LeftInv' /\ OutcomeInv'
    BY <1>1, <1>2, <1>4, <2>6 DEF LeftInv, OutcomeInv, Active
  <2> QED BY <2>7, <2>8, <2>9, <2>10, <2>11 DEF Kept
<1>5. CASE GiveUp("gone") /\ UNCHANGED stdin
  <2>1. wpc' = "raised" /\ turn' = turn /\ OutcomeInv'
    BY <1>1, <1>5, GiveUpOutcome DEF Types
  <2>2. EndInv' /\ OnceInv'
    BY <1>1, <1>2, <1>5, <2>1, OnceSame DEF EndInv, Begins
  <2> QED BY <1>2, <1>5, <2>1, <2>2, BetweenKept DEF turnVars
<1> QED BY <1>4, <1>5 DEF Submit

(* A turn goes on, or was interrupted: what is left of it may be seen.      *)
LEMMA OpenKept ==
  ASSUME Kept, Active, Open', UNCHANGED <<turn, gwVars, isDead>>,
         wpc' \in {"check", "wait", "raised"}, ToldInv', CutInv', OutcomeInv'
  PROVE  Kept'
<1>1. OnceInv /\ OwnInv /\ EndInv /\ LeftInv
  BY DEF Kept
<1>2. wpc \in {"arm", "check", "wait"}
  BY DEF Active
<1>3. /\ \A r : Asks(r) => Asks(r)'
      /\ \A f : Says(f) => Says(f)'
  BY DEF Asks, Says, LastFrame
<1>4. OwnInv'
  BY <1>1, <1>3 DEF OwnInv, gwVars
<1>5. OnceInv' /\ EndInv'
  BY <1>1, <1>2, OnceSame DEF EndInv, Begins, gwVars
<1>6. LeftInv'
  BY <1>1, <1>2 DEF LeftInv, gwVars
<1> QED BY <1>4, <1>5, <1>6 DEF Kept

(* Arm keeps Kept.                                                          *)
LEMMA ArmKept ==
  ASSUME Kept, Arm
  PROVE  Kept'
<1>1. /\ wpc = "arm" /\ wpc' = "check" /\ done' = "no" /\ armed' = turn
      /\ UNCHANGED <<turn, outcome, gwVars, interrupted, isDead>>
  BY DEF Arm, WorkerAt
<1>2. Active /\ Open' /\ Active'
  BY <1>1 DEF Active, Open
<1>3. interrupted = {}
  BY <1>1 DEF Kept, CutInv, Told
<1>4. ToldInv' /\ CutInv' /\ OutcomeInv'
  BY <1>1, <1>2, <1>3 DEF Kept, ToldInv, Told, CutInv, OutcomeInv
<1> QED BY <1>1, <1>2, <1>4, OpenKept

(* Check keeps Kept: a death that it finds has left nothing.                *)
LEMMA CheckKept ==
  ASSUME Kept, Check
  PROVE  Kept'
<1>1. /\ wpc = "check" /\ wpc' = "wait" /\ interrupted' = interrupted
      /\ IF isDead THEN FinishTurn("gone") ELSE UNCHANGED turnVars
      /\ UNCHANGED <<turn, outcome, gwVars, isDead>>
  BY DEF Check, WorkerAt, turnVars
<1>2. Active /\ Open' /\ Active'
  BY <1>1 DEF Active, Open
<1>3. ToldInv /\ CutInv /\ LeftInv /\ OutcomeInv
  BY DEF Kept
<1>4. isDead => Over
  <2>1. isDead => In(stdin) = {} /\ In(stdout) = {} /\ running = 0
    BY <1>1, <1>3 DEF LeftInv, In
  <2> QED BY <2>1 DEF Over
<1>5. done' = "ok" => done = "ok"
  BY <1>1 DEF FinishTurn, turnVars
<1>6. Over => Over'
  BY <1>1 DEF Over, gwVars
<1>7. /\ Told => Told' /\ done' = done
      /\ Told' => Told \/ isDead
      /\ armed' # 0 => armed' = armed /\ done' = done
  BY <1>1, <1>3 DEF Told, CutInv, FinishTurn, turnVars
<1>8. ToldInv'
  BY <1>1, <1>3, <1>4, <1>5, <1>6, <1>7 DEF ToldInv, Told, gwVars
<1>9. CutInv' /\ OutcomeInv'
  BY <1>1, <1>2, <1>3, <1>7 DEF CutInv, OutcomeInv
<1> QED BY <1>1, <1>2, <1>8, <1>9, OpenKept

(* Wake keeps Kept: a turn that has ended normally has left nothing.        *)
LEMMA WakeKept ==
  ASSUME Awaited, Kept, Wake
  PROVE  Kept'
<1>1. Types /\ OnceInv /\ OwnInv /\ EndInv /\ ToldInv /\ CutInv /\ LeftInv /\ OutcomeInv
  BY TypesSplit DEF Awaited, Kept
<1>2. /\ wpc = "wait" /\ done # "no" /\ Active /\ Told
      /\ UNCHANGED <<gwVars, turnVars, shown, call, isDead, rpc, rd>>
  BY DEF Wake, Active, Told
<1>3. wpc' \in {"idle", "raised"} /\ turn' = turn /\ OutcomeInv'
  <2>1. CASE /\ wpc' = "idle" /\ outcome' = [outcome EXCEPT ![turn] = "ok"]
             /\ UNCHANGED <<turn, reason>>
    <3>1. \A n \in Turns : n # turn => outcome'[n] = outcome[n]
      BY <1>1, <2>1 DEF Types, WorkerTypes
    <3>2. \A n \in Turns : n = turn => outcome'[n] = "ok"
      BY <1>1, <2>1 DEF Types, WorkerTypes
    <3>3. turn \in Nat /\ \A n \in Turns : n \in Nat
      BY <1>1, BridgeAssumption DEF Types, WorkerTypes, Turns
    <3> QED BY <1>1, <1>2, <2>1, <3>1, <3>2, <3>3 DEF OutcomeInv, Active
  <2>2. CASE GiveUp(done)
    BY <1>1, <2>2, GiveUpOutcome DEF Types
  <2> QED BY <2>1, <2>2 DEF Wake
<1>4. armed = 0 /\ (wpc' = "idle" => done = "ok" /\ interrupted = {})
  <2>1. wpc' = "idle" => done = "ok"
    BY DEF Wake, GiveUp
  <2> QED BY <1>1, <1>2, <2>1 DEF CutInv, Told
<1>5. ToldInv' /\ CutInv'
  BY <1>1, <1>2, <1>3, <1>4 DEF ToldInv, Told, CutInv, turnVars
<1>6. CASE turn \in interrupted
  <2>1. Open' /\ wpc' = "raised"
    BY <1>2, <1>3, <1>4, <1>6 DEF Open, turnVars
  <2> QED BY <1>2, <1>3, <1>5, <2>1, OpenKept
<1>7. CASE turn \notin interrupted
  <2>1. Over /\ Over'
    BY <1>1, <1>2, <1>7 DEF ToldInv, Over, gwVars
  <2>2. OwnInv'
    BY <2>1 DEF Over, OwnInv
  <2>3. EndInv' /\ OnceInv' /\ LeftInv'
    BY <1>1, <1>2, <1>3, OnceSame DEF EndInv, Begins, LeftInv, gwVars
  <2> QED BY <1>3, <1>5, <2>2, <2>3 DEF Kept
<1> QED BY <1>6, <1>7

(* Close keeps Kept.                                                        *)
LEMMA CloseKept ==
  ASSUME Kept, Close
  PROVE  Kept'
<1>1. OnceInv /\ OwnInv /\ EndInv /\ CutInv /\ OutcomeInv
  BY DEF Kept
<1>2. /\ wpc = "raised" /\ wpc' = "closed" /\ alive' = FALSE
      /\ stdin' = <<>> /\ running' = 0
      /\ UNCHANGED <<turn, outcome, stdout, finished, turnVars>>
  BY DEF Close, WorkerAt
<1>3. In(stdin') = {} /\ Ends(stdin', Grave, Grave)
  BY <1>2 DEF In, Ends
<1>4. OnceInv'
  BY <1>1, <1>2, <1>3 DEF OnceInv
<1>5. OwnInv'
  <2>1. Open => Open'
    BY <1>2 DEF Open, Active, turnVars
  <2>2. \A f : Says(f) => Says(f)'
    BY <1>2, <2>1 DEF Says, LastFrame
  <2> QED BY <1>1, <1>2, <1>3, <2>2 DEF OwnInv
<1>6. EndInv'
  BY <1>1, <1>2, <1>3 DEF EndInv, Begins
<1>7. ToldInv' /\ CutInv' /\ LeftInv' /\ OutcomeInv'
  BY <1>1, <1>2 DEF ToldInv, Told, CutInv, LeftInv, OutcomeInv, Active, turnVars
<1> QED BY <1>4, <1>5, <1>6, <1>7 DEF Kept

-----------------------------------------------------------------------------
(* The reader.                                                              *)

(* A frame is taken that is the last of a turn, and nothing is left of it,  *)
(* or one that matters less.                                                *)
LEMMA TakesKept ==
  ASSUME GatewayTypes, Kept, Take, UNCHANGED <<ReaderRest, isDead>>
  PROVE  /\ OnceInv' /\ EndInv' /\ LeftInv' /\ OutcomeInv'
         /\ Frame \in Final \/ Over => Over'
         /\ In(stdout') \subseteq In(stdout) /\ Frame \in In(stdout)
         /\ Frame \in Frames /\ rd = "read"
<1>1. OnceInv /\ EndInv /\ LeftInv /\ OutcomeInv
  BY DEF Kept
<1>2. /\ Frame \in Frames /\ stdout' \in Seq(Frames) /\ rd = "read"
      /\ In(stdout) = {Frame} \cup In(stdout')
  BY Takes
<1>3. stdout \in Seq(Frames) /\ stdout # <<>> /\ stdout' = Tail(stdout) /\ Frame = Head(stdout)
  BY DEF GatewayTypes, Take, Frame
<1>4. /\ Ends(stdout', Final, Weighty)
      /\ Frame \in Final => In(stdout') \cap Weighty = {}
  BY <1>1, <1>3, EndsTaken DEF OnceInv
<1>5. UNCHANGED <<alive, stdin, running, finished, wpc, turn, outcome, isDead>>
  BY DEF ReaderRest, wkVars
<1>6. OnceInv'
  BY <1>1, <1>2, <1>4, <1>5 DEF OnceInv
<1>7. EndInv'
  BY <1>1, <1>2, <1>5 DEF EndInv, Begins
<1>8. LeftInv' /\ OutcomeInv'
  BY <1>1, <1>3, <1>5 DEF LeftInv, OutcomeInv, Active
<1>9. Frame \in Final => Over'
  BY <1>1, <1>2, <1>4, <1>5 DEF OnceInv, Over, Final
<1>10. Over => Over'
  BY <1>2, <1>5 DEF Over
<1> QED BY <1>2, <1>6, <1>7, <1>8, <1>9, <1>10

(* A frame that ends nothing.                                               *)
LEMMA TakesOnly ==
  ASSUME GatewayTypes, Kept, Take, UNCHANGED <<ReaderRest, turnVars, isDead>>
  PROVE  Kept'
<1>1. OwnInv /\ ToldInv /\ CutInv
  BY DEF Kept
<1>2. /\ OnceInv' /\ EndInv' /\ LeftInv' /\ OutcomeInv'
      /\ Over => Over'
      /\ In(stdout') \subseteq In(stdout)
  BY TakesKept
<1>3. UNCHANGED <<stdin, running, wpc, turn, finished, armed, done, interrupted>>
  BY DEF ReaderRest, wkVars, turnVars
<1>4. OwnInv'
  BY <1>1, <1>2, <1>3, SameAsks DEF OwnInv
<1>5. ToldInv' /\ CutInv'
  BY <1>1, <1>2, <1>3 DEF ToldInv, Told, CutInv
<1> QED BY <1>2, <1>4, <1>5 DEF Kept

(* ReadEnd keeps Kept: the end that is read is that of the turn.            *)
LEMMA ReadEndKept ==
  ASSUME Awaited, Kept, ReadEnd
  PROVE  Kept'
<1>1. GatewayTypes /\ OwnInv /\ ToldInv /\ CutInv /\ EndInv
  BY TypesSplit DEF Awaited, Types, Kept
<1>2. /\ Take /\ Frame.kind \in {"end", "fail"}
      /\ FinishTurn(IF Frame.kind = "end" THEN "ok" ELSE "error")
      /\ UNCHANGED <<ReaderRest, interrupted, shown, call, isDead, rd>>
  BY DEF ReadEnd
<1>3. /\ OnceInv' /\ EndInv' /\ LeftInv' /\ OutcomeInv'
      /\ Frame \in Final => Over'
      /\ Frame \in In(stdout) /\ Frame \in Frames
  BY <1>1, <1>2, TakesKept
<1>4. Frame \in Weighty /\ Frame \in Final
  BY <1>2, <1>3 DEF Weighty, Final
<1>5. turn \in finished
  <2>1. LastFrame(Frame, turn)
    BY <1>1, <1>2, <1>3, <1>4 DEF OwnInv, Says
  <2>2. Frame.turn = turn
    BY <1>2, <2>1 DEF LastFrame
  <2> QED BY <1>1, <1>2, <1>3, <2>2 DEF EndInv
<1>6. UNCHANGED <<stdin, running, wpc, turn, finished, interrupted>>
  BY <1>2 DEF ReaderRest, wkVars
<1>7. OwnInv' /\ ToldInv'
  BY <1>3, <1>4, <1>5, <1>6 DEF Over, OwnInv, ToldInv
<1>8. CutInv'
  <2>1. armed' = 0 /\ (armed = 0 => done' = done)
    BY <1>2 DEF FinishTurn
  <2>2. interrupted # {} => (Told' /\ done' = "error") \/ wpc \in {"raised", "closed"}
    BY <1>1, <1>6, <2>1 DEF CutInv, Told
  <2> QED BY <1>1, <1>6, <2>1, <2>2 DEF CutInv
<1> QED BY <1>3, <1>7, <1>8 DEF Kept

(* A step of the reader that takes nothing from the pipe.                   *)
LEMMA ReaderKept ==
  ASSUME Kept, UNCHANGED <<ReaderRest, stdout>>, LeftInv', ToldInv', CutInv',
         interrupted \subseteq interrupted'
  PROVE  Kept'
<1>1. OnceInv /\ OwnInv /\ EndInv /\ OutcomeInv
  BY DEF Kept
<1>2. UNCHANGED <<alive, stdin, running, finished, wpc, turn, outcome, stdout>>
  BY DEF ReaderRest, wkVars
<1>3. OnceInv' /\ EndInv' /\ OutcomeInv'
  BY <1>1, <1>2 DEF OnceInv, EndInv, Begins, OutcomeInv, Active
<1>4. Open => Open'
  BY <1>2 DEF Open, Active
<1>5. /\ \A r : Asks(r) => Asks(r)'
      /\ \A f : Says(f) => Says(f)'
  BY <1>2, <1>4 DEF Asks, Says, LastFrame
<1>6. OwnInv'
  BY <1>1, <1>2, <1>4, <1>5 DEF OwnInv
<1> QED BY <1>3, <1>6 DEF Kept

(* FailTurn keeps Kept: it interrupts a turn, or nothing is left of it.     *)
LEMMA FailTurnKept ==
  ASSUME Awaited, Kept, FailTurn
  PROVE  Kept'
<1>1. Types /\ TurnInv /\ OwnInv /\ ToldInv /\ CutInv /\ LeftInv
  BY TypesSplit DEF Awaited, Kept
<1>2. /\ rd = "failing" /\ FinishTurn("error") /\ rd' = "read"
      /\ interrupted' = IF armed # 0 /\ Unfinished(armed)
                        THEN interrupted \cup {armed} ELSE interrupted
      /\ UNCHANGED <<ReaderRest, stdout, shown, call, isDead>>
  BY DEF FailTurn
<1>3. UNCHANGED <<alive, stdin, stdout, running, wpc, turn, finished, isDead>>
  BY <1>2 DEF ReaderRest, wkVars
<1>4. armed' = 0 /\ done' = IF armed # 0 THEN "error" ELSE done
  BY <1>2 DEF FinishTurn
<1>5. (Over => Over') /\ LeftInv'
  BY <1>1, <1>3 DEF Over, LeftInv
<1>6. CASE armed = 0
  <2>1. done' = done /\ interrupted' = interrupted
    BY <1>2, <1>4, <1>6
  <2>2. ToldInv' /\ CutInv'
    BY <1>1, <1>3, <1>4, <1>5, <2>1 DEF ToldInv, Told, CutInv
  <2> QED BY <1>2, <1>5, <2>1, <2>2, ReaderKept
<1>7. CASE armed # 0
  <2>1. armed = turn /\ wpc \in {"check", "wait"} /\ interrupted = {}
    BY <1>1, <1>7 DEF CutInv, Told
  <2>2. Unfinished(turn) \/ Over
    <3>1. ASSUME ~Over PROVE Unfinished(turn)
      <4>1. CASE running # 0
        BY <1>1, <4>1 DEF OwnInv, Unfinished
      <4>2. CASE In(stdin) \cap Grave # {}
        BY <1>1, <4>2 DEF OwnInv, Asks, Unfinished, In
      <4>3. CASE In(stdout) \cap Weighty # {}
        <5>1. PICK k \in DOMAIN stdout : Says(stdout[k])
          BY <1>1, <4>3 DEF OwnInv, In
        <5> QED BY <5>1 DEF Says, Unfinished
      <4> QED BY <3>1, <4>1, <4>2, <4>3 DEF Over
    <3> QED BY <3>1
  <2>3. interrupted' \subseteq {turn} /\ (Over' \/ turn \in interrupted')
    BY <1>2, <1>5, <1>7, <2>1, <2>2
  <2>4. Told' /\ done' = "error" /\ armed' = 0 /\ turn' = turn
    BY <1>3, <1>4, <1>7, <2>1 DEF Told
  <2>5. ToldInv' /\ CutInv'
    BY <2>3, <2>4 DEF ToldInv, CutInv
  <2> QED BY <1>2, <1>5, <2>1, <2>5, ReaderKept
<1> QED BY <1>6, <1>7

(* ReadEof keeps Kept.                                                      *)
LEMMA ReadEofKept ==
  ASSUME Kept, ReadEof
  PROVE  Kept'
<1>1. /\ ~alive /\ stdout = <<>>
      /\ UNCHANGED <<ReaderRest, stdout, turnVars, shown, call>>
  BY DEF ReadEof
<1>2. UNCHANGED <<alive, stdin, running, wpc, turn, finished, armed, done, interrupted>>
  BY <1>1 DEF ReaderRest, wkVars, turnVars
<1>3. LeftInv' /\ ToldInv' /\ CutInv'
  BY <1>1, <1>2 DEF Kept, LeftInv, ToldInv, Told, CutInv, Over
<1> QED BY <1>1, <1>2, <1>3, ReaderKept

(* What the reader does at its end concerns a gateway that has left nothing.*)
LEMMA FailDeadKept ==
  ASSUME Awaited, Kept, FailDead
  PROVE  Kept'
<1>1. DeathInv /\ ToldInv /\ CutInv /\ LeftInv
  BY DEF Awaited, Kept
<1>2. /\ rd = "dead" /\ FinishTurn("gone") /\ interrupted' = interrupted
      /\ UNCHANGED <<ReaderRest, stdout, shown, call, isDead>>
  BY DEF FailDead
<1>3. UNCHANGED <<alive, stdin, stdout, running, wpc, turn, finished, interrupted>>
  BY <1>2 DEF ReaderRest, wkVars
<1>4. armed' = 0 /\ done' = IF armed # 0 THEN "gone" ELSE done
  BY <1>2 DEF FinishTurn
<1>5. wpc # "closed" => Over
  BY <1>1, <1>2 DEF DeathInv, LeftInv, Over, In
<1>6. Over => Over'
  BY <1>3 DEF Over
<1>7. ToldInv'
  BY <1>1, <1>3, <1>4, <1>5, <1>6 DEF ToldInv, Told
<1>8. CutInv' /\ LeftInv'
  BY <1>1, <1>2, <1>3, <1>4 DEF CutInv, Told, LeftInv
<1> QED BY <1>2, <1>3, <1>7, <1>8, ReaderKept

-----------------------------------------------------------------------------
(* The refinement.                                                          *)

(* Every step, and stuttering, keeps Kept.                                  *)
LEMMA NextKept ==
  ASSUME Awaited, Kept, [Next]_vars
  PROVE  Kept'
<1>1. CASE UNCHANGED vars
  BY <1>1, SameKept DEF vars, gwVars, wkVars, turnVars
<1>2. CASE Gateway
  BY <1>2, ServeKept, SayKept, EndTurnKept, DieKept DEF Gateway
<1>3. CASE WorkerStep \/ TakePrompt
  BY <1>3, CreateKept, CreatedKept, TakePromptKept, DispatchedKept,
     SubmitKept, ArmKept, CheckKept, WakeKept, CloseKept DEF WorkerStep
<1>4. CASE ReadText \/ ReadOk \/ ReadErr
  <2>1. GatewayTypes /\ Take /\ UNCHANGED <<ReaderRest, turnVars, isDead>>
    BY <1>4, TypesSplit DEF Awaited, Types, ReadText, ReadOk, ReadErr
  <2> QED BY <2>1, TakesOnly
<1>5. CASE Clear
  BY <1>5, SameKept DEF Clear, ReaderRest, wkVars, turnVars
<1>6. CASE ReadEnd \/ FailTurn \/ ReadEof \/ FailDead
  BY <1>6, ReadEndKept, FailTurnKept, ReadEofKept, FailDeadKept
<1>7. ASSUME NEW v \in Visitors, Visit(v) \/ Leave(v) PROVE Kept'
  BY <1>7, VisitKept, LeaveKept
<1> QED BY <1>1, <1>2, <1>3, <1>4, <1>5, <1>6, <1>7 DEF Next, Reader

(* The turn whose prompt() runs.                                            *)
Current == IF wpc \in {"submit", "arm", "check", "wait"} THEN turn ELSE 0
Unseen == UNCHANGED <<Current, shown, finished, interrupted, outcome>>

(* A turn of which something is seen is one the promise allows it of.       *)
LEMMA OpenIsOpen ==
  ASSUME Awaited, Open
  PROVE  turn \in Promise!Open /\ turn \in Turns
<1>1. turn # 0
  <2>1. 0 \notin interrupted
    BY BridgeAssumption, TypesSplit DEF Awaited, Types, TurnTypes, Turns
  <2> QED BY <2>1 DEF Awaited, TurnInv, Open, Active
<1>2. turn \in Turns
  BY <1>1, BridgeAssumption, TypesSplit DEF Awaited, Types, WorkerTypes, Turns
<1>3. Active => Current = turn
  BY DEF Active, Current
<1> QED BY <1>1, <1>2, <1>3 DEF Open, Promise!Open, Current

(* The gateway finishes a turn that is open, or nothing.                    *)
LEMMA GatewayFinishes ==
  ASSUME Awaited, Kept, Gateway
  PROVE  Promise!Finish \/ Unseen
<1>1. CASE EndTurn
  <2>1. Open /\ running = turn /\ turn \notin finished /\ running # 0
    BY <1>1 DEF Kept, OwnInv, EndInv, Begins, EndTurn
  <2>2. /\ finished' = finished \cup {turn}
        /\ UNCHANGED <<Current, shown, interrupted, outcome>>
    BY <1>1, <2>1 DEF Current, EndTurn, wkVars, turnVars
  <2>3. PICK n \in Promise!Open : n = turn
    BY <2>1, OpenIsOpen
  <2>4. n \in Promise!Open \ finished /\ finished' = finished \cup {n}
    BY <2>1, <2>2, <2>3
  <2> QED BY <2>2, <2>4 DEF Promise!Finish, Current
<1>2. CASE Serve \/ Say \/ Die
  BY <1>2 DEF Serve, Say, Die, Unseen, Current, wkVars, turnVars
<1> QED BY <1>1, <1>2 DEF Gateway

(* The listeners are given text of such a turn only; an error response may  *)
(* interrupt the turn that is awaited.                                      *)
LEMMA ReaderSays ==
  ASSUME Awaited, Kept, Reader
  PROVE  Promise!Say \/ Promise!Interrupt \/ Unseen
<1>1. CASE ReadText
  <2>1. GatewayTypes /\ Take /\ Frame.kind = "text"
    BY <1>1, TypesSplit DEF Awaited, Types, ReadText
  <2>2. Frame \in In(stdout) /\ Frame \in Weighty
    BY <2>1, Takes DEF Weighty
  <2>3. Open /\ Frame.turn = turn
    <3>1. Says(Frame)
      BY <2>2 DEF Kept, OwnInv
    <3>2. ~LastFrame(Frame, turn)
      BY <2>1 DEF LastFrame
    <3> QED BY <3>1, <3>2 DEF Says
  <2>4. /\ shown' = [shown EXCEPT ![turn] = @ + 1]
        /\ UNCHANGED <<Current, finished, interrupted, outcome>>
    BY <1>1, <2>3 DEF Current, ReadText, ReaderRest, wkVars, turnVars
  <2>5. PICK n \in Promise!Open : n = turn
    BY <2>3, OpenIsOpen
  <2> QED BY <2>4, <2>5 DEF Promise!Say, Current
<1>2. CASE FailTurn
  <2>1. /\ interrupted' = IF armed # 0 /\ Unfinished(armed)
                          THEN interrupted \cup {armed} ELSE interrupted
        /\ UNCHANGED <<wpc, turn, shown, finished, outcome>>
    BY <1>2 DEF FailTurn, ReaderRest, wkVars
  <2>2. Current' = Current
    BY <2>1 DEF Current
  <2>3. CASE interrupted' = interrupted
    BY <2>1, <2>2, <2>3 DEF Unseen
  <2>4. CASE armed # 0 /\ interrupted' = interrupted \cup {armed}
    <3>1. Current = armed
      BY <2>4 DEF Current, Kept, CutInv
    <3> QED BY <2>1, <2>2, <2>4, <3>1 DEF Promise!Interrupt, Current
  <2> QED BY <2>1, <2>3, <2>4
<1>3. CASE ReadEnd \/ ReadOk \/ ReadErr \/ ReadEof \/ FailDead \/ Clear
  BY <1>3
  DEF ReadEnd, ReadOk, ReadErr, ReadEof, FailDead, Clear,
      Unseen, Current, ReaderRest, wkVars, turnVars
<1> QED BY <1>1, <1>2, <1>3 DEF Reader

(* A prompt() is called for a turn of which nothing is known yet.           *)
LEMMA CallsOf ==
  ASSUME Kept, Current = 0, wpc \notin {"raised", "closed"},
         wpc' = "submit", turn' \in Turns, outcome[turn'] = "none",
         UNCHANGED <<shown, finished, interrupted, outcome>>
  PROVE  \E n \in Turns : Promise!Call(n)
<1>1. \A m \in Turns : outcome[m] # "failed"
  BY DEF Kept, OutcomeInv
<1>2. Current' = turn'
  BY DEF Current
<1>3. PICK n \in Turns : n = turn'
  OBVIOUS
<1>4. Promise!Call(n)
  BY <1>1, <1>2, <1>3 DEF Promise!Call, Current
<1> QED BY <1>4

(* It returns normally when the engine has finished the turn.               *)
LEMMA Returns ==
  ASSUME Awaited, wpc \in {"submit", "wait"}, wpc' \in {"idle", "raised"},
         NEW how \in {"ok", "failed"}, how = "ok" => turn \in finished \ interrupted,
         outcome' = [outcome EXCEPT ![turn] = how], UNCHANGED <<shown, finished, interrupted>>
  PROVE  Promise!Return
<1>1. Current = turn /\ turn # 0 /\ Current' = 0
  BY DEF Current, Awaited, TurnInv
<1> QED BY <1>1 DEF Promise!Return, Current

(* A turn is taken once.                                                    *)
LEMMA TakePromptCalls ==
  ASSUME Awaited, Kept, TakePrompt
  PROVE  (\E n \in Turns : Promise!Call(n)) \/ Unseen
<1>1. /\ wpc = "idle" /\ turn < MaxTurns /\ turn' = turn + 1
      /\ wpc' \in {"submit", "asking"} /\ UNCHANGED <<shown, finished, interrupted, outcome>>
  BY DEF TakePrompt, turnVars
<1>2. Current = 0
  BY <1>1 DEF Current
<1>3. CASE wpc' = "asking"
  BY <1>1, <1>2, <1>3 DEF Unseen, Current
<1>4. CASE wpc' = "submit"
  <2>1. turn \in Nat
    BY TypesSplit, BridgeAssumption DEF Awaited, Types, WorkerTypes
  <2>2. turn' \in Turns /\ turn' > turn
    BY <1>1, <2>1, BridgeAssumption DEF Turns
  <2>3. PICK n \in Turns : n = turn' /\ n > turn
    BY <2>2
  <2>4. outcome[n] = "none"
    BY <2>3 DEF Kept, OutcomeInv
  <2> QED BY <1>1, <1>2, <1>4, <2>3, <2>4, CallsOf
<1> QED BY <1>1, <1>3, <1>4

(* Or after a slash command has been dispatched.                            *)
LEMMA DispatchedCalls ==
  ASSUME Awaited, Kept, Dispatched
  PROVE  (\E n \in Turns : Promise!Call(n)) \/ Unseen
<1>1. /\ wpc = "asking" /\ wpc' \in {"submit", "idle"}
      /\ turn' = turn /\ UNCHANGED <<shown, finished, interrupted, outcome>>
  BY DEF Dispatched, WorkerAt, gwVars, turnVars
<1>2. Current = 0
  BY <1>1 DEF Current
<1>3. CASE wpc' = "idle"
  BY <1>1, <1>2, <1>3 DEF Unseen, Current
<1>4. CASE wpc' = "submit"
  <2>1. turn \in Turns /\ outcome[turn] = "none"
    BY <1>1, TypesSplit, BridgeAssumption
    DEF Awaited, Types, WorkerTypes, TurnInv, Turns, Kept, OutcomeInv
  <2> QED BY <1>1, <1>2, <1>4, <2>1, CallsOf
<1> QED BY <1>1, <1>3, <1>4

(* The worker calls prompt(), and prompt() returns.                         *)
LEMMA WorkerCalls ==
  ASSUME Awaited, Kept, WorkerStep \/ TakePrompt
  PROVE  (\E n \in Turns : Promise!Call(n)) \/ Promise!Return \/ Unseen
<1>1. TurnInv
  BY DEF Awaited
<1>2. CASE Submit
  <2>1. wpc = "submit" /\ UNCHANGED <<shown, finished, interrupted>>
    BY <1>2 DEF Submit, turnVars
  <2>2. turn # 0
    BY <1>1, <2>1 DEF TurnInv
  <2>3. CASE WorkerAt("arm")
    BY <2>1, <2>3 DEF WorkerAt, Unseen, Current
  <2>4. CASE GiveUp("gone")
    <3>1. wpc' = "raised" /\ outcome' = [outcome EXCEPT ![turn] = "failed"]
      BY <2>2, <2>4 DEF GiveUp
    <3> QED BY <2>1, <3>1, Returns
  <2> QED BY <1>2, <2>3, <2>4 DEF Submit
<1>3. CASE Wake
  <2>1. wpc = "wait" /\ done # "no" /\ UNCHANGED <<shown, finished, interrupted>>
    BY <1>3 DEF Wake, gwVars, turnVars
  <2>2. turn # 0
    BY <1>1, <2>1 DEF TurnInv
  <2>3. CASE done = "ok" /\ wpc' = "idle" /\ outcome' = [outcome EXCEPT ![turn] = "ok"]
    <3>1. turn \in finished \ interrupted
      BY <2>1, <2>3 DEF Kept, ToldInv, CutInv, Told
    <3> QED BY <2>1, <2>3, <3>1, Returns
  <2>4. CASE GiveUp(done)
    <3>1. wpc' = "raised" /\ outcome' = [outcome EXCEPT ![turn] = "failed"]
      BY <2>2, <2>4 DEF GiveUp
    <3> QED BY <2>1, <3>1, Returns
  <2> QED BY <1>3, <2>3, <2>4 DEF Wake
<1>4. CASE Create
  <2>1. wpc = "create" /\ turn = 0 /\ UNCHANGED <<shown, finished, interrupted>>
    BY <1>1, <1>4 DEF Create, TurnInv, turnVars
  <2>2. WorkerAt("creating") \/ GiveUp("gone")
    BY <1>4 DEF Create
  <2> QED BY <2>1, <2>2 DEF WorkerAt, GiveUp, Unseen, Current
<1>5. CASE Created
  <2>1. wpc = "creating" /\ turn = 0 /\ UNCHANGED <<shown, finished, interrupted>>
    BY <1>1, <1>5 DEF Created, TurnInv, gwVars, turnVars
  <2>2. WorkerAt("idle") \/ GiveUp("error")
    BY <1>5 DEF Created
  <2> QED BY <2>1, <2>2 DEF WorkerAt, GiveUp, Unseen, Current
<1>6. CASE Arm \/ Check \/ Close
  BY <1>6 DEF Arm, Check, Close, WorkerAt, Unseen, Current, gwVars, turnVars
<1> QED BY <1>2, <1>3, <1>4, <1>5, <1>6, TakePromptCalls, DispatchedCalls
        DEF WorkerStep

(* A session keeps the contract of prompt(), whatever the gateway refuses   *)
(* and whoever asked: text of a turn comes while its prompt() runs, or after*)
(* a refusal of something else has interrupted it, which makes prompt()     *)
(* raise; prompt() returns normally once the engine has finished the turn;  *)
(* and a session whose prompt() has raised is not used again                *)
(* (hermes_bridge.py 70-100, 251-269, 297-305).                             *)
THEOREM BridgeIsSession == Spec => ImplementsSession
<1>1. Init => Kept
  BY InitKept
<1>2. Awaited /\ Kept /\ [Next]_vars => Kept'
  BY NextKept
<1>3. Init => Promise!Init
  BY DEF Init, Promise!Init
<1>4. Awaited /\ Kept /\ [Next]_vars => [Promise!Next]_(Promise!sessionVars)
  <2> SUFFICES ASSUME Awaited, Kept, [Next]_vars
               PROVE  Promise!Next \/ Unseen
    BY DEF Promise!sessionVars, Unseen, Current
  <2>1. CASE Gateway
    BY <2>1, GatewayFinishes DEF Promise!Next
  <2>2. CASE WorkerStep \/ TakePrompt
    BY <2>2, WorkerCalls DEF Promise!Next
  <2>3. CASE Reader
    BY <2>3, ReaderSays DEF Promise!Next
  <2>4. CASE \E v \in Visitors : Visit(v) \/ Leave(v)
    BY <2>4 DEF Visit, Leave, Unseen, Current, gwVars, wkVars, turnVars
  <2>5. CASE UNCHANGED vars
    BY <2>5 DEF vars, gwVars, wkVars, turnVars, Unseen, Current
  <2> QED BY <2>1, <2>2, <2>3, <2>4, <2>5 DEF Next
<1> QED BY <1>1, <1>2, <1>3, <1>4, AlwaysAwaited, PTL
        DEF Spec, ImplementsSession, Promise!Spec
=============================================================================

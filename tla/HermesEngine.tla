---------------------------- MODULE HermesEngine -----------------------------
(***************************************************************************)
(* The coding agent's own way to run its turns on the hermes engine:       *)
(* HermesSession (hermes-session.ts) queues what the user types and runs   *)
(* one turn after another; HermesGateway (hermes-gateway.ts) spawns the    *)
(* engine, asks it for a session and matches what it prints on its stdout  *)
(* with the turn in flight and with the RPCs that wait.                    *)
(*                                                                         *)
(* Steps are what the event loop runs without another callback between: a  *)
(* line of the engine, a timer, an exit or a call, with all the awaiting   *)
(* code it wakes.  A text stands for what the user types, and names the    *)
(* run that it starts as a prompt; texts may say the same, and the code    *)
(* tells a text from another by nothing else.                              *)
(***************************************************************************)
EXTENDS Naturals, Sequences, SequencesExt, FiniteSets

CONSTANTS
  MaxTexts,    \* bound on the texts ever typed
  Prompts,     \* the texts that may be typed as prompts,
  Steers,      \* as steering, any of the others as follow-ups
  Says,        \* what each text says
  DrainGuard   \* follow-ups that a run takes at most (50 in the code)

ASSUME EngineAssumption ==
  /\ MaxTexts \in Nat /\ DrainGuard \in Nat
  /\ Prompts \cup Steers \subseteq 1..MaxTexts

Texts == 1..MaxTexts
Equal(t) == {u \in Texts : Says[u] = Says[t]}
None == 0                \* no turn, no text
Failed == MaxTexts + 1   \* the result of a turn that ended with an error
Aborter == MaxTexts + 2  \* who calls abort()

VARIABLES
  active,      \* _isAgentRunActive
  followUps,   \* _followUpMessages
  steering,    \* _steeringMessages
  run,         \* the run each text starts: where it is, its text, its count
  abort,       \* where abort() is
  disposed     \* dispose() has been called

VARIABLES
  engine,      \* the process: "none", "booting", "running", "dead", "exited"
  ready,       \* ready
  session,     \* whether sessionId is set
  turn,        \* the run whose turn is in flight
  rpcs,        \* pendingRpc
  inbox,       \* requests that the engine has not taken
  wire,        \* lines of the engine's stdout
  busy         \* the text the engine works on

VARIABLES
  typed,       \* history: what each text was typed as
  result,      \* history: the text whose end settled a text's turn, or Failed
  forgotten,   \* history: texts whose turn the gateway gave up unended
  dropped      \* history: queued texts removed by a turn that says the same

gatewayVars == <<ready, session, turn, rpcs, inbox>>
engineVars == <<engine, wire, busy>>
runVars == <<run, result, forgotten>>
queueVars == <<followUps, steering, typed, dropped>>
vars == <<active, runVars, queueVars, abort, disposed, gatewayVars, engineVars>>

Calls == [kind : {"create", "submit", "steer"}, who : Texts]
         \cup [kind : {"interrupt"}, who : {Aborter}]
Ready == [type |-> "ready"]
Answer(call, ok) == [type |-> "answer", call |-> call, ok |-> ok]
End(text) == [type |-> "end", text |-> text]
Lines == {Ready} \cup {Answer(c, ok) : c \in Calls, ok \in BOOLEAN}
                 \cup {End(t) : t \in Texts}

TypeOK ==
  /\ active \in BOOLEAN /\ disposed \in BOOLEAN
  /\ followUps \in Seq(Texts) /\ steering \subseteq Texts
  /\ run \in [Texts ->
       [pc : {"none", "preflight", "starting", "turn", "connecting", "creating",
              "waiting", "stuck", "settled", "over"},
        text : Texts, drained : 0..DrainGuard]]
  /\ abort \in {"none", "interrupting", "waiting", "returned"}
  /\ engine \in {"none", "booting", "running", "dead", "exited"}
  /\ ready \in BOOLEAN /\ session \in BOOLEAN
  /\ turn \in Texts \cup {None} /\ busy \in Texts \cup {None}
  /\ rpcs \subseteq Calls /\ inbox \in Seq(Calls) /\ wire \in Seq(Lines)
  /\ typed \in [Texts -> {"no", "prompt", "followUp", "steer"}]
  /\ result \in [Texts -> Texts \cup {None, Failed}]
  /\ forgotten \subseteq Texts /\ dropped \subseteq Texts

Init ==
  /\ active = FALSE /\ disposed = FALSE /\ followUps = <<>> /\ steering = {}
  /\ run = [t \in Texts |-> [pc |-> "none", text |-> t, drained |-> 0]]
  /\ abort = "none"
  /\ engine = "none" /\ ready = FALSE /\ session = FALSE /\ turn = None
  /\ rpcs = {} /\ inbox = <<>> /\ wire = <<>> /\ busy = None
  /\ typed = [t \in Texts |-> "no"] /\ result = [t \in Texts |-> None]
  /\ forgotten = {} /\ dropped = {}

(* Texts are typed in their order.                                          *)
New(t) == typed[t] = "no" /\ \A u \in Texts : u < t => typed[u] # "no"

At(pc) == {r \in Texts : run[r].pc = pc}
Call(kind, who) == [kind |-> kind, who |-> who]
Callers(kind) == {c.who : c \in {d \in rpcs : d.kind = kind}}

(* The runs at pc with one of the texts of T.                               *)
Waiting(pc, T) == {r \in At(pc) : run[r].text \in T}

(* proc.stdin.writable: whoever writes may not know yet that the engine is  *)
(* dead.                                                                    *)
Writable ==
  CASE engine \in {"booting", "running"} -> {TRUE}
    [] engine = "dead" -> BOOLEAN
    [] OTHER -> {FALSE}

-----------------------------------------------------------------------------
(* What a step does to the runs it wakes.                                   *)

(* The runs of S go on with an error; the text of the turn in flight, if it *)
(* is among theirs, is forgotten while the engine may have it.              *)
Put(S, pc) ==
  run' = [r \in Texts |-> [run[r] EXCEPT !.pc = IF r \in S THEN pc ELSE @]]
Move(S, pc) == Put(S, pc) /\ UNCHANGED <<result, forgotten>>
Error(S) ==
  result' = [t \in Texts |->
               IF t \in {run[r].text : r \in S} THEN Failed ELSE result[t]]
Forget(S) == forgotten' = forgotten \cup {run[r].text : r \in S \cap {turn}}
Fail(S) == Put(S, "settled") /\ Error(S) /\ Forget(S)

(* failTurn.                                                                *)
FailTurnSilently == turn' = None /\ UNCHANGED runVars
FailTurn == Fail({turn} \cap Texts) /\ turn' = None

(* rpc, for the calls of C that replace those of gone.                      *)
Send(C, gone) == rpcs' = (rpcs \ gone) \cup C /\ inbox' = inbox \o SetToSeq(C)

(* prompt() once there is a session: the turn is taken, unless one is in    *)
(* flight, and submitted; it is given back if the engine's stdin is closed. *)
SubmitOver(r, gone) ==
  /\ turn' = r /\ Move({r}, "waiting")
  /\ Send({Call("submit", run[r].text)}, gone)
SubmitAnyway(r, gone) ==
  \/ TRUE \in Writable /\ SubmitOver(r, gone)
  \/ FALSE \in Writable /\ Fail({r}) /\ Send({}, gone) /\ UNCHANGED turn
Submit(r, gone) ==
  \/ turn = None /\ TRUE \in Writable /\ SubmitOver(r, gone)
  \/ /\ turn # None \/ FALSE \in Writable
     /\ Fail({r}) /\ Send({}, gone) /\ UNCHANGED turn

(* ensureSession, for runs that find none.                                  *)
EnsureSession(S) ==
  \/ /\ TRUE \in Writable
     /\ Move(S, "creating") /\ Send({Call("create", run[r].text) : r \in S}, {})
  \/ FALSE \in Writable /\ Fail(S) /\ Send({}, {})

(* indexOf in a list that holds the texts of S, as they were typed: the     *)
(* first that says what t says.                                             *)
First(t, S) == {s \in Equal(t) \cap S : \A u \in Equal(t) \cap S : s <= u}

(* _queueSteer goes on: when no run is active any more, a text that says    *)
(* the same, if one is still there, becomes a follow-up; one for each of    *)
(* the texts of S.                                                          *)
Landed(S) ==
  {u \in steering : Cardinality({v \in Equal(u) \cap steering : v < u})
                      < Cardinality(Equal(u) \cap S)}
SteersReturnTwice(S) ==
  IF active THEN UNCHANGED queueVars
  ELSE /\ followUps' = followUps \o SetToSeq(Landed(S))
       /\ UNCHANGED <<steering, typed, dropped>>
SteersReturn(S) ==
  IF active THEN UNCHANGED queueVars
  ELSE /\ steering' = steering \ Landed(S)
       /\ followUps' = followUps \o SetToSeq(Landed(S))
       /\ UNCHANGED <<typed, dropped>>

(* runHermesTurn emits the message_start of its text t, and                 *)
(* _handleAgentEvent takes it for the start of a queued one: what says the  *)
(* same is removed from the steering or else from the follow-ups, fs.       *)
MessageStart(t, fs) ==
  \/ \E s \in First(t, steering) :
       /\ steering' = steering \ {s} /\ dropped' = dropped \cup {s}
       /\ followUps' = fs
  \/ /\ First(t, steering) = {}
     /\ \E i \in DOMAIN fs :
          /\ fs[i] \in Equal(t) /\ \A j \in 1..(i - 1) : fs[j] \notin Equal(t)
          /\ followUps' = RemoveAt(fs, i) /\ dropped' = dropped \cup {fs[i]}
     /\ UNCHANGED steering
  \/ /\ First(t, steering) = {} /\ \A i \in DOMAIN fs : fs[i] \notin Equal(t)
     /\ followUps' = fs
     /\ UNCHANGED <<steering, dropped>>

(* abort() goes on with waitForIdle.                                        *)
InterruptWaits == abort' = "waiting"
InterruptReturns == abort' = IF active THEN "waiting" ELSE "returned"

-----------------------------------------------------------------------------
(* The session's calls.                                                     *)

(* prompt() when no run is active: what follows up to _runAgentPrompt       *)
(* awaits, so that another may come to the same conclusion.                 *)
Prompt(t) ==
  /\ New(t) /\ t \in Prompts /\ ~active /\ ~disposed
  /\ typed' = [typed EXCEPT ![t] = "prompt"]
  /\ Move({t}, "preflight")
  /\ UNCHANGED <<active, followUps, steering, dropped, abort, disposed, gatewayVars,
                 engineVars>>

(* runHermesPrompt, which awaits agent_start before its first turn.         *)
StartRun(r) ==
  /\ run[r].pc = "preflight"
  /\ active' = TRUE /\ Move({r}, "starting")
  /\ UNCHANGED <<queueVars, abort, disposed, gatewayVars, engineVars>>
StartTurn(r) ==
  /\ run[r].pc = "starting" /\ Move({r}, "turn")
  /\ MessageStart(run[r].text, followUps)
  /\ UNCHANGED <<active, typed, abort, disposed, gatewayVars, engineVars>>

FollowUp(t) ==
  /\ New(t) /\ t \notin Steers /\ ~disposed
  /\ typed' = [typed EXCEPT ![t] = "followUp"]
  /\ followUps' = Append(followUps, t)
  /\ UNCHANGED <<active, runVars, steering, dropped, abort, disposed, gatewayVars,
                 engineVars>>

(* _queueSteer, and HermesGateway.steer, which returns at once when there   *)
(* is no session or nothing can be written.                                 *)
Steer(t) ==
  /\ New(t) /\ t \in Steers /\ ~disposed
  /\ typed' = [typed EXCEPT ![t] = "steer"]
  /\ \/ /\ session /\ TRUE \in Writable
        /\ Send({Call("steer", t)}, {})
        /\ steering' = steering \cup {t} /\ UNCHANGED followUps
     \/ /\ ~session \/ FALSE \in Writable
        /\ UNCHANGED <<rpcs, inbox>>
        /\ IF active THEN steering' = steering \cup {t} /\ UNCHANGED followUps
           ELSE \E s \in First(t, steering \cup {t}) :
                  /\ steering' = (steering \cup {t}) \ {s}
                  /\ followUps' = Append(followUps, s)
  /\ UNCHANGED <<active, runVars, dropped, abort, disposed, ready, session, turn,
                 engineVars>>

Abort ==
  /\ abort = "none" /\ active
  /\ \/ /\ session /\ TRUE \in Writable
        /\ Send({Call("interrupt", Aborter)}, {})
        /\ abort' = "interrupting"
     \/ /\ ~session \/ FALSE \in Writable
        /\ InterruptReturns /\ UNCHANGED <<rpcs, inbox>>
  /\ UNCHANGED <<active, runVars, queueVars, disposed, ready, session, turn, engineVars>>

(* gatewaySafe().prompt(): connect, which spawns the engine if there is     *)
(* none.  After dispose() there is no gateway, and a new one is made.       *)
Ask(r) ==
  /\ run[r].pc = "turn"
  /\ \/ /\ engine = "none"
        /\ engine' = "booting" /\ Move({r}, "connecting")
        /\ UNCHANGED <<rpcs, inbox, turn>>
     \/ /\ engine # "none" /\ ~session /\ ~ready
        /\ Move({r}, "connecting") /\ UNCHANGED <<engine, rpcs, inbox, turn>>
     \/ /\ engine # "none" /\ ~session /\ ready
        /\ EnsureSession({r}) /\ UNCHANGED <<engine, turn>>
     \/ session /\ Submit(r, {}) /\ UNCHANGED engine
  /\ UNCHANGED <<active, queueVars, abort, disposed, ready, session, wire, busy>>

(* runHermesTurn ends; runHermesPrompt takes the next follow-up, as long as *)
(* its guard lets it, or settles the run.                                   *)
NextTurn(r) ==
  /\ run[r].pc = "settled" /\ followUps # <<>> /\ run[r].drained < DrainGuard
  /\ run' = [run EXCEPT ![r] = [pc |-> "turn", text |-> Head(followUps),
                                drained |-> @.drained + 1]]
  /\ MessageStart(Head(followUps), Tail(followUps))
  /\ UNCHANGED <<active, result, forgotten, typed, abort, disposed, gatewayVars,
                 engineVars>>
EndRun(r) ==
  /\ run[r].pc = "settled"
  /\ followUps = <<>> \/ run[r].drained = DrainGuard
  /\ Move({r}, "over")
  /\ active' = FALSE
  /\ abort' = IF abort = "waiting" THEN "returned" ELSE abort
  /\ UNCHANGED <<queueVars, disposed, gatewayVars, engineVars>>

-----------------------------------------------------------------------------
(* The engine's process goes, seen by its exit event or told by close():    *)
(* whatever waits for it fails.                                             *)
Gone ==
  /\ Fail(At("connecting") \cup Waiting("creating", Callers("create"))
          \cup Waiting("waiting", Callers("submit")) \cup ({turn} \cap Texts))
  /\ turn' = None /\ rpcs' = {}
  /\ SteersReturn(Callers("steer"))
  /\ IF Callers("interrupt") # {} THEN InterruptReturns ELSE UNCHANGED abort

Exit ==
  /\ engine = "dead"
  /\ engine' = "exited" /\ ready' = TRUE /\ Gone
  /\ UNCHANGED <<active, disposed, session, inbox, wire, busy>>

(* dispose(): what a closed gateway does until its process is gone, reject  *)
(* what waits for it, is part of the step.                                  *)
Dispose ==
  /\ ~disposed /\ disposed' = TRUE
  /\ Gone
  /\ engine' = "none" /\ ready' = FALSE /\ session' = FALSE
  /\ inbox' = <<>> /\ wire' = <<>> /\ busy' = None
  /\ UNCHANGED <<active>>

(* handleLine.                                                              *)
TakeReady ==
  /\ Head(wire) = Ready
  /\ ready' = TRUE /\ EnsureSession(At("connecting"))
  /\ UNCHANGED <<session, turn, queueVars, abort>>

(* A submit is refused, or not answered in time: its run fails, and the     *)
(* turn is cleared, whosever it is.                                         *)
Refused(t) ==
  LET S == Waiting("waiting", {t}) IN
  /\ Put(S, "settled") /\ Error(S) /\ Forget(Texts) /\ turn' = None

(* The answer to a call that still waits.                                   *)
Answered(c, ok) ==
  \/ /\ c.kind = "create" /\ ok
     /\ session' = TRUE
     /\ \E r \in Waiting("creating", {c.who}) : Submit(r, {c})
     /\ UNCHANGED <<queueVars, abort>>
  \/ /\ c.kind = "create" /\ ~ok
     /\ Fail(Waiting("creating", {c.who})) /\ Send({}, {c})
     /\ UNCHANGED <<session, turn, queueVars, abort>>
  \/ /\ c.kind = "submit" /\ ok /\ Send({}, {c})
     /\ UNCHANGED <<session, turn, runVars, queueVars, abort>>
  \/ /\ c.kind = "submit" /\ ~ok
     /\ Refused(c.who) /\ Send({}, {c})
     /\ UNCHANGED <<session, queueVars, abort>>
  \/ /\ c.kind = "steer" /\ SteersReturn({c.who}) /\ Send({}, {c})
     /\ UNCHANGED <<session, turn, runVars, abort>>
  \/ /\ c.kind = "interrupt" /\ InterruptReturns /\ Send({}, {c})
     /\ UNCHANGED <<session, turn, runVars, queueVars>>

(* An answer to a call that has timed out; an error fails the turn.         *)
Unexpected(ok) ==
  /\ IF ok THEN UNCHANGED <<turn, runVars>> ELSE FailTurn
  /\ UNCHANGED <<session, rpcs, inbox, queueVars, abort>>

TakeAnswer ==
  /\ Head(wire).type = "answer"
  /\ LET c == Head(wire).call IN
       IF c \in rpcs THEN Answered(c, Head(wire).ok) ELSE Unexpected(Head(wire).ok)
  /\ UNCHANGED ready

(* message.complete, turn.end or an error event: whichever turn is in       *)
(* flight is settled.                                                       *)
TakeEnd ==
  /\ Head(wire).type = "end"
  /\ LET t == run[turn].text IN
     IF turn = None THEN UNCHANGED runVars
     ELSE /\ run' = [run EXCEPT ![turn].pc = "settled"]
          /\ result' = [result EXCEPT ![t] = Head(wire).text]
          /\ forgotten' = forgotten \cup ({t} \ {Head(wire).text})
  /\ turn' = None
  /\ UNCHANGED <<ready, session, rpcs, inbox, queueVars, abort>>

HandleLine ==
  /\ wire # <<>> /\ wire' = Tail(wire)
  /\ TakeReady \/ TakeAnswer \/ TakeEnd
  /\ UNCHANGED <<active, disposed, engine, busy>>

(* The timers: 60 s for the engine to be ready, 90 s for a call, 30 min for *)
(* a turn, so that the turn of a submit that is not answered ends by the    *)
(* call's timer.  The turn's fails whichever turn is in flight, and is the  *)
(* last that a run whose turn has been cleared can wait for.                *)
ReadyTimeout(r) ==
  /\ run[r].pc = "connecting" /\ Fail({r})
  /\ UNCHANGED <<active, queueVars, abort, disposed, gatewayVars, engineVars>>
RpcTimeout ==
  /\ \E c \in rpcs : Answered(c, FALSE)
  /\ UNCHANGED <<active, disposed, ready, engineVars>>
TurnTimeout(r) ==
  /\ run[r].pc = "waiting" /\ run[r].text \notin Callers("submit")
  /\ IF turn = r THEN FailTurn
     ELSE LET S == {turn} \cap Texts IN
          /\ run' = [q \in Texts |-> [run[q] EXCEPT
                       !.pc = IF q = r THEN "stuck" ELSE IF q \in S THEN "settled" ELSE @]]
          /\ Error(S) /\ Forget(S) /\ turn' = None
  /\ UNCHANGED <<active, queueVars, abort, disposed, ready, session, rpcs, inbox,
                 engineVars>>

-----------------------------------------------------------------------------
(* The engine: it takes its requests in their order, works on one text at a *)
(* time and refuses another meanwhile, answers a submit before it ends the  *)
(* turn, and ends a turn once.                                              *)

Say(line) == wire' = Append(wire, line)
EngineStep == UNCHANGED <<active, runVars, queueVars, abort, disposed, ready,
                          session, turn, rpcs>>

Boot ==
  /\ engine = "booting" /\ engine' = "running" /\ Say(Ready)
  /\ EngineStep /\ UNCHANGED <<inbox, busy>>
TakeRequest ==
  /\ engine = "running" /\ inbox # <<>> /\ inbox' = Tail(inbox)
  /\ LET c == Head(inbox) IN \E ok \in BOOLEAN :
       /\ CASE c.kind = "submit" -> ok <=> busy = None
            [] c.kind \in {"steer", "interrupt"} -> ok <=> busy # None
            [] c.kind = "create" -> TRUE
       /\ Say(Answer(c, ok))
       /\ busy' = IF c.kind = "submit" /\ ok THEN c.who ELSE busy
  /\ EngineStep /\ UNCHANGED engine
EndTurn ==
  /\ engine = "running" /\ busy # None
  /\ busy' = None /\ Say(End(busy))
  /\ EngineStep /\ UNCHANGED <<engine, inbox>>
Die ==
  /\ engine \in {"booting", "running"} /\ engine' = "dead"
  /\ busy' = None /\ inbox' = <<>>
  /\ EngineStep /\ UNCHANGED <<wire>>

Next ==
  \/ \E t \in Texts : Prompt(t) \/ StartRun(t) \/ FollowUp(t) \/ Steer(t)
  \/ Abort \/ Dispose
  \/ \E r \in Texts : StartTurn(r) \/ Ask(r) \/ NextTurn(r) \/ EndRun(r)
                     \/ ReadyTimeout(r) \/ TurnTimeout(r)
  \/ Exit \/ HandleLine \/ RpcTimeout
  \/ Boot \/ TakeRequest \/ EndTurn \/ Die

(* The event loop goes on with what has been settled, reads what the engine *)
(* has printed, sees its exit, and fires its timers in the end: as long as  *)
(* there is any of this to do, some of it is done.  Nothing is assumed of   *)
(* the engine.                                                              *)
Fairness ==
  WF_vars(\/ \E r \in Texts : StartTurn(r) \/ Ask(r) \/ NextTurn(r) \/ EndRun(r)
                             \/ ReadyTimeout(r) \/ TurnTimeout(r)
          \/ HandleLine \/ Exit \/ RpcTimeout)

Spec == Init /\ [][Next]_vars /\ Fairness

-----------------------------------------------------------------------------
(* Properties.                                                              *)

(* A turn is settled with the end of its own text, or fails: prompts that   *)
(* race, calls that time out and engines that die never hand a turn the end *)
(* of another, unless the gateway had given up the other's turn before its  *)
(* end (hermes-gateway.ts 143-172, 384-403).                                *)
OwnResult == \A t \in Texts : result[t] \in {None, Failed, t} \cup forgotten

(* The run that waits for the end of a turn is the one whose turn it is, so *)
(* that its timer, the exit and close() can still settle it: nobody takes   *)
(* the turn under it, and it is cleared under it only by the gateway giving *)
(* up its text (hermes-gateway.ts 143-172, 289-293).                        *)
WaiterHasTurn ==
  \A r \in At("waiting") \cup At("stuck") : turn = r \/ run[r].text \in forgotten

(* Whatever the user has typed is in one place at any time: on its way to a *)
(* run, queued as a follow-up or as steering, in the turn of a single run,  *)
(* settled, or dropped.  And a text is dropped for one reason only: another *)
(* that says the same has had its turn begun, which the session takes for   *)
(* the turn of this one.  No race of prompts, no steering that does not     *)
(* land, no failed turn and no guard loses or doubles a text                *)
(* (hermes-session.ts 88-108, 165-182, 222, agent-session.ts 644-664).      *)
Turning == {r \in Texts :
  run[r].pc \in {"turn", "connecting", "creating", "waiting", "stuck"}}
InTurn(t) == {r \in Texts : run[r].text = t /\
                (r \in Turning \/ run[r].pc \in {"preflight", "starting"})}
Places(t) ==
  {<<"run", r>> : r \in InTurn(t)}
  \cup {<<"followUps", i>> : i \in {j \in DOMAIN followUps : followUps[j] = t}}
  \cup {<<"steering", 0>> : s \in steering \cap {t}}
  \cup {<<"dropped", 0>> : s \in dropped \cap {t}}
  \cup {<<"settled", 0>> : s \in {t} \ {u \in Texts : result[u] = None}}
HadItsTurn == {run[r].text : r \in Turning} \cup {t \in Texts : result[t] # None}
InOnePlace ==
  /\ \A t \in Texts : typed[t] \notin {"no"} => \E p \in Places(t) : Places(t) = {p}
  /\ \A t \in dropped : (Equal(t) \ {t}) \cap HadItsTurn # {}

(* The state is typed, and the turn in flight is that of the run that waits *)
(* for its end, unless the gateway has given it up.                         *)
Consistent == TypeOK /\ WaiterHasTurn

(* A run has lost its turn when the gateway has cleared it and has not told *)
(* the run.                                                                 *)
LostTurn == {r \in At("waiting") \cup At("stuck") : turn # r}

(* Every run that has begun ends, whatever the engine does, the session is  *)
(* idle again, and abort() returns, as long as no run loses its turn        *)
(* (hermes-session.ts 112-123, 148-208, hermes-gateway.ts 142).             *)
Begun == {r \in Texts : run[r].pc \notin {"none", "preflight", "over"}}
Settled == Begun = {} /\ abort \in {"none", "returned"}
EveryRunEnds == ~Settled ~> Settled \/ LostTurn # {}
=============================================================================

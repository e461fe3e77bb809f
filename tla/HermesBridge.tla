---------------------------- MODULE HermesBridge ----------------------------
(***************************************************************************)
(* One engine session of the hub (hermes_bridge.py): a gateway process     *)
(* behind two pipes, the bridge's worker thread that creates the session   *)
(* and runs prompts through it, the reader thread that dispatches what the *)
(* gateway writes, and HTTP threads that fetch the slash catalog with an   *)
(* RPC of their own.                                                       *)
(*                                                                         *)
(* The session fails as a whole: once prompt() raises, the worker closes   *)
(* it (AgentBridge says what follows).  The gateway is external; it        *)
(* answers requests, runs one turn at a time and may die at any moment.    *)
(* An RPC id is named by what the request is for, which is unique like     *)
(* the counter; frames that neither side acts on are left out.             *)
(***************************************************************************)
EXTENDS Naturals, Sequences

CONSTANTS
  Worker,       \* the worker thread of the bridge
  Visitors,     \* HTTP threads that ask for the catalog, once each
  MaxTurns,     \* bound on the number of prompts
  MaxText,      \* bound on the pieces of text of a turn
  ErrorReplies, \* the requests the gateway may answer with an error
  Slow          \* the requests whose answer may take longer than the timeout

Methods == {"create", "dispatch", "catalog", "submit"}

ASSUME BridgeAssumption ==
  /\ Worker \notin Visitors
  /\ MaxTurns \in Nat /\ MaxText \in Nat
  /\ ErrorReplies \subseteq Methods
  /\ Slow \subseteq {"create", "dispatch", "catalog"}

Turns == 1..MaxTurns
Callers == Visitors \cup {Worker}

VARIABLES
  alive,     \* the gateway process runs
  stdin,     \* requests it has not read yet
  stdout,    \* frames the reader has not read yet
  running,   \* the turn the gateway executes, 0 when idle
  said,      \* pieces of text it has written for each turn
  finished,  \* the turns it has finished
  erred,     \* history: it has reported an error
  wpc,       \* where the worker is
  turn,      \* the turn it is at
  armed,     \* _pending_turn: the turn finish_turn will end, 0 for None
  done,      \* how the turn the worker waits for ended, "no" until it has
  overtaken, \* history: a turn's end was handled before it was on record
  interrupted, \* history: the turns ended by the refusal of another request
  reason,    \* why the worker gave the session up
  shown,     \* pieces of text of each turn the listeners were given
  outcome,   \* how prompt() ended for each turn
  call,      \* _pending and its events: the RPC each caller waits in
  isDead,    \* is_dead
  rpc,       \* where each visitor is
  rd         \* where the reader is

gwVars == <<alive, stdin, stdout, running, said, finished, erred>>
wkVars == <<wpc, turn, reason, outcome>>
turnVars == <<armed, done, overtaken, interrupted>>
vars == <<gwVars, wkVars, turnVars, shown, call, isDead, rpc, rd>>

Rids == [by : Callers, method : Methods, turn : 0..MaxTurns]
Rid(c, m, n) == [by |-> c, method |-> m, turn |-> n]

Frames ==
  [kind : {"text", "end", "fail"}, turn : Turns]
    \cup [kind : {"ok", "err"}, rid : Rids]

TypeOK ==
  /\ alive \in BOOLEAN
  /\ stdin \in Seq(Rids) /\ stdout \in Seq(Frames)
  /\ running \in 0..MaxTurns
  /\ said \in [Turns -> 0..MaxText] /\ shown \in [Turns -> Nat]
  /\ finished \subseteq Turns
  /\ erred \in BOOLEAN
  /\ wpc \in {"create", "creating", "idle", "asking", "submit", "arm",
              "check", "wait", "raised", "closed"}
  /\ turn \in 0..MaxTurns
  /\ armed \in 0..MaxTurns
  /\ done \in {"no", "ok", "error", "gone"}
  /\ overtaken \in BOOLEAN /\ interrupted \subseteq Turns
  /\ reason \in {"none", "error", "gone"}
  /\ outcome \in [Turns -> {"none", "ok", "failed"}]
  /\ call \in [Callers -> [rid : Rids, held : BOOLEAN,
                           answer : {"none", "ok", "err"}]]
  /\ isDead \in BOOLEAN
  /\ rpc \in [Visitors -> {"new", "wait", "over"}]
  /\ rd \in {"read", "failing", "dead", "clear", "over"}

Call(c, m, n) == [rid |-> Rid(c, m, n), held |-> TRUE, answer |-> "none"]
NoCall(c) == [Call(c, "create", 0) EXCEPT !.held = FALSE]

(* Popen, the reader and gateway.ready; a gateway that never gets ready is  *)
(* one that dies while "create".                                            *)
Init ==
  /\ alive = TRUE
  /\ stdin = <<>> /\ stdout = <<>>
  /\ running = 0
  /\ said = [n \in Turns |-> 0]
  /\ finished = {}
  /\ erred = FALSE
  /\ wpc = "create"
  /\ turn = 0
  /\ armed = 0 /\ done = "no" /\ overtaken = FALSE /\ interrupted = {}
  /\ reason = "none"
  /\ shown = [n \in Turns |-> 0]
  /\ outcome = [n \in Turns |-> "none"]
  /\ call = [c \in Callers |-> NoCall(c)]
  /\ isDead = FALSE
  /\ rpc = [v \in Visitors |-> "new"]
  /\ rd = "read"

-----------------------------------------------------------------------------
(* The gateway.                                                             *)

Write(frames) == stdout' = stdout \o frames
Reply(kind, rid) == Write(<<[kind |-> kind, rid |-> rid]>>)

(* A request is answered, or refused; a turn runs when no other does.       *)
Serve ==
  /\ alive /\ stdin # <<>>
  /\ stdin' = Tail(stdin)
  /\ LET rid == Head(stdin) IN
     \/ /\ rid.method = "submit" /\ running = 0
        /\ running' = rid.turn
        /\ UNCHANGED <<stdout, erred>>
     \/ /\ rid.method # "submit"
        /\ Reply("ok", rid)
        /\ UNCHANGED <<running, erred>>
     \/ /\ rid.method \in ErrorReplies
        /\ Reply("err", rid)
        /\ erred' = TRUE
        /\ UNCHANGED running
  /\ UNCHANGED <<alive, said, finished, wkVars, turnVars, shown, call,
                 isDead, rpc, rd>>

Say ==
  /\ alive /\ running # 0
  /\ said[running] < MaxText
  /\ said' = [said EXCEPT ![running] = @ + 1]
  /\ Write(<<[kind |-> "text", turn |-> running]>>)
  /\ UNCHANGED <<alive, stdin, running, finished, erred, wkVars, turnVars,
                 shown, call, isDead, rpc, rd>>

(* One frame ends a turn: message.complete or turn.end, or an error.        *)
EndTurn ==
  /\ alive /\ running # 0
  /\ LET end == [kind |-> "end", turn |-> running] IN
     \/ Write(<<end>>) /\ UNCHANGED erred
     \/ Write(<<[end EXCEPT !.kind = "fail"]>>) /\ erred' = TRUE
  /\ finished' = finished \cup {running}
  /\ running' = 0
  /\ UNCHANGED <<alive, stdin, said, wkVars, turnVars, shown, call,
                 isDead, rpc, rd>>

(* What it has written can still be read.                                   *)
Die ==
  /\ alive
  /\ alive' = FALSE /\ stdin' = <<>> /\ running' = 0
  /\ UNCHANGED <<stdout, said, finished, erred, wkVars, turnVars, shown,
                 call, isDead, rpc, rd>>

-----------------------------------------------------------------------------
(* The two halves of _rpccall.  Under the lock the call is registered and   *)
(* written, which raises when the gateway is gone; then the caller waits    *)
(* for its event and takes the holder back.                                 *)

Register(c, m, n) ==
  /\ call' = [call EXCEPT ![c] = Call(c, m, n)]
  /\ stdin' = IF alive THEN Append(stdin, Rid(c, m, n)) ELSE stdin

Answered(c) == call[c].answer # "none"
TimedOut(c) == ~Answered(c) /\ call[c].rid.method \in Slow
TakeBack(c) == call' = [call EXCEPT ![c] = NoCall(c)]

-----------------------------------------------------------------------------
(* The worker thread: create_agent_session, then one prompt() after the     *)
(* other.                                                                   *)

WorkerAt(place) == wpc' = place /\ UNCHANGED <<turn, reason, outcome>>

GiveUp(why) ==
  /\ wpc' = "raised"
  /\ reason' = why
  /\ outcome' = IF turn = 0 THEN outcome
                ELSE [outcome EXCEPT ![turn] = "failed"]
  /\ UNCHANGED turn

(* session.create; a broken pipe is recognised as the gateway's death.      *)
Create ==
  /\ wpc = "create"
  /\ Register(Worker, "create", 0)
  /\ IF alive THEN WorkerAt("creating") ELSE GiveUp("gone")
  /\ UNCHANGED <<alive, stdout, running, said, finished, erred, turnVars,
                 shown, isDead, rpc, rd>>

Created ==
  /\ wpc = "creating"
  /\ Answered(Worker) \/ TimedOut(Worker)
  /\ TakeBack(Worker)
  /\ IF call[Worker].answer = "ok" THEN WorkerAt("idle") ELSE GiveUp("error")
  /\ UNCHANGED <<gwVars, turnVars, shown, isDead, rpc, rd>>

(* A prompt from the queue, to be submitted as it is, or a slash command to *)
(* be dispatched first; a dispatch that cannot be written is no obstacle.   *)
TakePrompt ==
  /\ wpc = "idle" /\ turn < MaxTurns
  /\ turn' = turn + 1
  /\ \/ wpc' = "submit" /\ UNCHANGED <<call, stdin>>
     \/ /\ Register(Worker, "dispatch", turn')
        /\ wpc' = IF alive THEN "asking" ELSE "submit"
  /\ UNCHANGED <<alive, stdout, running, said, finished, erred, reason,
                 outcome, turnVars, shown, isDead, rpc, rd>>

(* Either the command was executed by the gateway, or some text is to be    *)
(* submitted: after an error, a timeout or a lost response the raw one.     *)
Dispatched ==
  /\ wpc = "asking"
  /\ Answered(Worker) \/ TimedOut(Worker)
  /\ TakeBack(Worker)
  /\ \/ WorkerAt("submit")
     \/ call[Worker].answer = "ok" /\ WorkerAt("idle")
  /\ UNCHANGED <<gwVars, turnVars, shown, isDead, rpc, rd>>

(* prompt(): the checks and the write.  That no turn is in flight needs no  *)
(* model: the worker is the only caller.  A worker that an error reply has  *)
(* woken may get here, and on, before the reader is done with that reply.   *)
Submit ==
  /\ wpc = "submit"
  /\ \/ /\ alive /\ ~isDead
        /\ stdin' = Append(stdin, Rid(Worker, "submit", turn))
        /\ WorkerAt("arm")
     \/ /\ ~alive
        /\ GiveUp("gone")
        /\ UNCHANGED stdin
  /\ UNCHANGED <<alive, stdout, running, said, finished, erred, turnVars,
                 shown, call, isDead, rpc, rd>>

(* _pending_turn is set after the request has been written.                 *)
Arm ==
  /\ wpc = "arm"
  /\ armed' = turn /\ done' = "no" /\ UNCHANGED <<overtaken, interrupted>>
  /\ WorkerAt("check")
  /\ UNCHANGED <<gwVars, shown, call, isDead, rpc, rd>>

(* The ways in which the end of turn n may still come to the reader: the    *)
(* request is unread, the engine runs it, its last frame is unread, or the  *)
(* reader is about to end whatever is on record.                            *)
LastFrame(f, n) ==
  \/ f.kind \in {"end", "fail"} /\ f.turn = n
  \/ f = [kind |-> "err", rid |-> Rid(Worker, "submit", n)]
EndToCome(n) ==
  \/ running = n
  \/ \E k \in DOMAIN stdin : stdin[k] = Rid(Worker, "submit", n)
  \/ \E k \in DOMAIN stdout : LastFrame(stdout[k], n)
  \/ rd \in {"failing", "dead"}
  \/ ~alive /\ rd = "read"

(* _finish_turn: whoever takes _pending_turn sets its event.  Between the   *)
(* submission of a turn and its record there is nothing to take.            *)
FinishTurn(how) ==
  /\ armed' = 0
  /\ done' = IF armed # 0 THEN how ELSE done
  /\ overtaken' =
       (overtaken \/ (wpc = "arm" /\ how # "gone" /\ ~EndToCome(turn)'))

CheckNothing ==
  /\ wpc = "check"
  /\ WorkerAt("wait")
  /\ UNCHANGED <<gwVars, turnVars, shown, call, isDead, rpc, rd>>

Check ==
  /\ wpc = "check"
  /\ WorkerAt("wait")
  /\ UNCHANGED <<gwVars, interrupted, shown, call, isDead, rpc, rd>>
  /\ IF isDead THEN FinishTurn("gone") ELSE UNCHANGED turnVars

WakeAtOnce ==
  /\ wpc = "wait"
  /\ wpc' = "idle"
  /\ outcome' = [outcome EXCEPT ![turn] = "ok"]
  /\ UNCHANGED <<turn, reason, gwVars, turnVars, shown, call, isDead, rpc,
                 rd>>

Wake ==
  /\ wpc = "wait" /\ done # "no"
  /\ \/ /\ done = "ok"
        /\ wpc' = "idle"
        /\ outcome' = [outcome EXCEPT ![turn] = "ok"]
        /\ UNCHANGED <<turn, reason>>
     \/ done # "ok" /\ GiveUp(done)
  /\ UNCHANGED <<gwVars, turnVars, shown, call, isDead, rpc, rd>>

(* AgentBridge closes a session that raised: the gateway is terminated.     *)
Close ==
  /\ wpc = "raised"
  /\ WorkerAt("closed")
  /\ alive' = FALSE /\ stdin' = <<>> /\ running' = 0
  /\ isDead' = TRUE
  /\ UNCHANGED <<stdout, said, finished, erred, turnVars, shown, call, rpc,
                 rd>>

-----------------------------------------------------------------------------
(* slash_catalog from an HTTP thread, once the session exists.              *)

Visit(v) ==
  /\ rpc[v] = "new" /\ wpc \notin {"create", "creating"}
  /\ Register(v, "catalog", 0)
  /\ rpc' = [rpc EXCEPT ![v] = IF alive THEN "wait" ELSE "over"]
  /\ UNCHANGED <<alive, stdout, running, said, finished, erred, wkVars, turnVars,
                 shown, isDead, rd>>

Leave(v) ==
  /\ rpc[v] = "wait"
  /\ Answered(v) \/ TimedOut(v)
  /\ TakeBack(v)
  /\ rpc' = [rpc EXCEPT ![v] = "over"]
  /\ UNCHANGED <<gwVars, wkVars, turnVars, shown, isDead, rd>>

-----------------------------------------------------------------------------
(* The reader thread.                                                       *)

Take == rd = "read" /\ stdout # <<>> /\ stdout' = Tail(stdout)
Frame == Head(stdout)

ReaderRest == <<alive, stdin, running, said, finished, erred, wkVars, rpc>>

ReadText ==
  /\ Take /\ Frame.kind = "text"
  /\ shown' = [shown EXCEPT ![Frame.turn] = @ + 1]
  /\ UNCHANGED <<ReaderRest, turnVars, call, isDead, rd>>

ReadEnd ==
  /\ Take /\ Frame.kind \in {"end", "fail"}
  /\ UNCHANGED <<ReaderRest, interrupted, shown, call, isDead, rd>>
  /\ FinishTurn(IF Frame.kind = "end" THEN "ok" ELSE "error")

(* A response goes to the holder registered under its id, if there is one.  *)
Deliver(answer) ==
  LET c == Frame.rid.by IN
  call' = IF call[c].held /\ call[c].rid = Frame.rid
          THEN [call EXCEPT ![c].answer = answer] ELSE call

ReadOk ==
  /\ Take /\ Frame.kind = "ok"
  /\ Deliver("ok")
  /\ UNCHANGED <<ReaderRest, turnVars, shown, isDead, rd>>

ReadErr ==
  /\ Take /\ Frame.kind = "err"
  /\ Deliver("err")
  /\ rd' = "failing"
  /\ UNCHANGED <<ReaderRest, turnVars, shown, isDead>>

(* Any error response also ends the turn in flight, whoever asked for it;   *)
(* unless it was the refusal of the turn, something of it is still to come. *)
Unfinished(n) ==
  \/ running = n
  \/ \E k \in DOMAIN stdin : stdin[k] = Rid(Worker, "submit", n)
  \/ \E k \in DOMAIN stdout : LastFrame(stdout[k], n)
                             \/ stdout[k] = [kind |-> "text", turn |-> n]

FailTurn ==
  /\ rd = "failing"
  /\ rd' = "read"
  /\ interrupted' = IF armed # 0 /\ Unfinished(armed)
                    THEN interrupted \cup {armed} ELSE interrupted
  /\ UNCHANGED <<ReaderRest, stdout, shown, call, isDead>>
  /\ FinishTurn("error")

(* The end of the stream: is_dead, then the turn, then every waiting RPC.   *)
ReadEof ==
  /\ rd = "read" /\ ~alive /\ stdout = <<>>
  /\ isDead' = TRUE
  /\ rd' = "dead"
  /\ UNCHANGED <<ReaderRest, stdout, turnVars, shown, call>>

FailDeadForgets ==
  /\ rd = "dead"
  /\ rd' = "clear"
  /\ UNCHANGED <<ReaderRest, stdout, turnVars, shown, call, isDead>>

FailDead ==
  /\ rd = "dead"
  /\ rd' = "clear"
  /\ UNCHANGED <<ReaderRest, stdout, interrupted, shown, call, isDead>>
  /\ FinishTurn("gone")

(* The holders leave _pending before their events are set, so that even a   *)
(* response that has come but was not taken back yet counts as lost.        *)
Clear ==
  /\ rd = "clear"
  /\ call' = [c \in Callers |->
               IF call[c].held
               THEN [call[c] EXCEPT !.held = FALSE, !.answer = "err"]
               ELSE call[c]]
  /\ rd' = "over"
  /\ UNCHANGED <<ReaderRest, stdout, turnVars, shown, isDead>>

-----------------------------------------------------------------------------

Gateway == Serve \/ Say \/ EndTurn \/ Die
WorkerStep ==
  Create \/ Created \/ Dispatched \/ Submit \/ Arm \/ Check \/ Wake \/ Close
Reader ==
  \/ ReadText \/ ReadEnd \/ ReadOk \/ ReadErr \/ FailTurn
  \/ ReadEof \/ FailDead \/ Clear

Next ==
  \/ Gateway \/ WorkerStep \/ TakePrompt \/ Reader
  \/ \E v \in Visitors : Visit(v) \/ Leave(v)

(* Threads that can run do; the gateway serves its pipe and ends its turns, *)
(* which prompt() relies on, having no timeout of its own.                  *)
Fairness ==
  /\ WF_vars(WorkerStep) /\ WF_vars(Reader)
  /\ WF_vars(Serve) /\ WF_vars(EndTurn)

Spec == Init /\ [][Next]_vars /\ Fairness

-----------------------------------------------------------------------------
(* Properties.                                                              *)

(* "Close that race so the worker never blocks forever": whenever the      *)
(* worker waits for the end of its turn, the turn is on record and its end  *)
(* is still to come.  The one way to wait in vain is a turn whose end is    *)
(* handled between its submission and its record, which the code does not   *)
(* guard against.                                                           *)
WaiterHasWaker ==
  wpc = "wait" /\ done = "no" /\ ~overtaken => armed = turn /\ EndToCome(turn)

(* prompt() returns, whatever becomes of the gateway in the meantime, but   *)
(* for that one case.                                                       *)
PromptReturns ==
  wpc = "submit" ~> wpc \in {"idle", "raised", "closed"} \/ overtaken

(* "Block until the hermes turn finishes; a client never sees done before   *)
(* the reply text": what EngineSession says of prompt(), text and turns.    *)
Promise == INSTANCE EngineSession
  WITH current <- IF wpc \in {"submit", "arm", "check", "wait"}
                  THEN turn ELSE 0,
       text <- shown

ImplementsSession == Promise!Spec

(* "Fail any in-flight RPC so callers don't sit out their full timeout      *)
(* waiting on a dead gateway."                                              *)
NobodyLeftBehind ==
  rd = "over" =>
    /\ \A v \in Visitors : rpc[v] = "wait" => Answered(v)
    /\ wpc \in {"creating", "asking"} => Answered(Worker)

(* "On gateway death we drop the session and respawn it": a prompt is       *)
(* blamed on the engine only when the engine has reported an error.  (A     *)
(* death during session.create is blamed on the engine.)                    *)
DeathIsRecognised == reason = "error" /\ turn # 0 => erred

(* The state is typed, nobody waits in vain, and the reason the worker has  *)
(* noted is the true one (hermes_bridge.py 87-98, 303-325).                 *)
Consistent ==
  TypeOK /\ WaiterHasWaker /\ NobodyLeftBehind /\ DeathIsRecognised
=============================================================================

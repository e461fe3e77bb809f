---------------------------- MODULE AgentBridge -----------------------------
(***************************************************************************)
(* The bridge of one agent (AgentBridge in vertus_server.py): a queue of   *)
(* prompts, one worker thread, and the engine session the worker runs them *)
(* through.  When the session's gateway dies the worker makes a new one    *)
(* and submits the prompt again, once.                                     *)
(*                                                                         *)
(* Engine sessions are generations 1, 2, ...: HermesBridge models one in   *)
(* detail, this module what is left of it when seen from the bridge, a     *)
(* process and a reader thread that passes on what the process has         *)
(* written, even after the worker has moved on to the next generation.     *)
(* What clients can observe is the sequence of wire events; every event is *)
(* tagged with the prompt it belongs to, which the wire does not show.     *)
(* Emitting an event raises when a client leaves while it is removed for a *)
(* full queue (EventFanout): the event is then "cut", it reached some      *)
(* subscribers only.  In a reader that is caught; of the worker's own      *)
(* emissions only the backstop done is inside a try, the others end it.    *)
(***************************************************************************)
EXTENDS Naturals, Sequences, FiniteSets

CONSTANTS
  MaxPrompts,    \* bound on the number of prompts
  MaxGens,       \* bound on the number of sessions ever created
  MaxText,       \* bound on the text events of a session's turn
  MaxCuts        \* bound on the events that are cut off

ASSUME BridgeAssumption ==
  MaxPrompts \in Nat /\ MaxGens \in Nat /\ MaxText \in Nat /\ MaxCuts \in Nat

Prompts == 1..MaxPrompts
Gens == 1..MaxGens

VARIABLES
  queue,     \* _queue: the prompts that wait, in the order of submission
  asked,     \* number of prompts submitted so far
  wpc,       \* where the worker is
  cur,       \* the prompt it runs
  attempt,   \* its attempt at it: 0 or 1
  gen,       \* _session: the generation in use, 0 for None
  made,      \* number of generations created so far
  result,    \* how the prompt() in progress ended, "no" until it has
  up,        \* generations whose gateway process runs
  dead,      \* generations whose is_dead is set
  pipe,      \* what each gateway has written and its reader not yet read
  task,      \* the prompt each gateway works on, 0 for none
  submitted, \* how many times each prompt was given to an engine
  spoken,    \* pieces of text each gateway has written for its task
  finished,  \* the prompts an engine has brought to a normal end
  wire,      \* the events emitted to subscribers so far
  spoiled,   \* history: the prompts another request's refusal has interrupted
  overtaken  \* history: <<prompt, generation>> of the turns whose end was read
             \*   before prompt() had recorded them

engVars == <<up, pipe, task, spoken, finished>>
history == <<spoiled, overtaken>>
vars == <<queue, asked, wpc, cur, attempt, gen, made, result, dead, submitted,
          wire, history, engVars>>

Event(type, p) == [type |-> type, of |-> p]
Events == [type : {"text", "done", "error", "cut"}, of : Prompts]

TypeOK ==
  /\ queue \in Seq(Prompts) /\ asked \in 0..MaxPrompts
  /\ wpc \in {"boot", "take", "start", "expand", "ran", "submit", "arm", "wait",
              "raised", "done", "error", "lost"}
  /\ cur \in 0..MaxPrompts
  /\ attempt \in 0..1
  /\ gen \in 0..made /\ made \in 0..MaxGens
  /\ result \in {"no", "ok", "error", "gone"}
  /\ up \subseteq 1..made /\ dead \subseteq 1..made
  /\ pipe \in [Gens -> Seq([kind : {"text", "end", "fail", "refuse"},
                             of : 0..MaxPrompts])]
  /\ task \in [Gens -> 0..MaxPrompts]
  /\ spoken \in [Gens -> 0..MaxText]
  /\ submitted \in [Prompts -> 0..2]
  /\ finished \subseteq Prompts
  /\ wire \in Seq(Events)
  /\ spoiled \subseteq Prompts
  /\ overtaken \subseteq Prompts \X Gens

Init ==
  /\ queue = <<>> /\ asked = 0
  /\ wpc = "boot" /\ cur = 0 /\ attempt = 0
  /\ gen = 0 /\ made = 0
  /\ result = "no"
  /\ up = {} /\ dead = {}
  /\ pipe = [g \in Gens |-> <<>>]
  /\ task = [g \in Gens |-> 0]
  /\ spoken = [g \in Gens |-> 0]
  /\ submitted = [p \in Prompts |-> 0]
  /\ finished = {}
  /\ wire = <<>>
  /\ spoiled = {} /\ overtaken = {}

Emit(event) == wire' = Append(wire, event)

(* _emit that raises: the ValueError of list.remove.                        *)
MayCut == Cardinality({k \in DOMAIN wire : wire[k].type = "cut"}) < MaxCuts
CutOff(p) == MayCut /\ Emit(Event("cut", p))

-----------------------------------------------------------------------------
(* prompt(): an HTTP thread puts its prompt into the queue.                 *)

Prompt ==
  /\ asked < MaxPrompts
  /\ asked' = asked + 1
  /\ queue' = Append(queue, asked')
  /\ UNCHANGED <<wpc, cur, attempt, gen, made, result, dead, submitted, wire,
                 history, engVars>>

-----------------------------------------------------------------------------
(* The worker.                                                              *)

workRest == <<queue, asked, submitted, pipe, task, spoken, finished, history>>

(* A new session: a gateway process and its reader, subscribed to.  One     *)
(* that fails to start is killed and leaves no session behind.              *)
NewSession ==
  /\ made < MaxGens
  /\ made' = made + 1
  /\ gen' = made'
  /\ up' = up \cup {made'}

(* Failure to prewarm is left for the first prompt to repair.               *)
Prewarm ==
  /\ wpc = "boot" /\ wpc' = "take"
  /\ NewSession \/ UNCHANGED <<made, gen, up>>
  /\ UNCHANGED <<workRest, cur, attempt, result, dead, wire>>

TakePrompt ==
  /\ wpc = "take" /\ queue # <<>>
  /\ cur' = Head(queue) /\ queue' = Tail(queue)
  /\ attempt' = 0
  /\ wpc' = "start"
  /\ UNCHANGED <<asked, gen, made, result, dead, submitted, wire, history,
                 engVars>>

(* Without a session the worker creates one.  A gateway that dies at once   *)
(* is tried a second time, any other failure is reported.                   *)
Start ==
  /\ wpc = "start"
  /\ \/ /\ gen # 0 /\ wpc' = "expand"
        /\ UNCHANGED <<attempt, gen, made, up>>
     \/ /\ gen = 0 /\ NewSession
        /\ wpc' = "expand" /\ UNCHANGED attempt
     \/ /\ gen = 0 /\ attempt = 0
        /\ attempt' = 1
        /\ UNCHANGED <<wpc, gen, made, up>>
     \/ /\ gen = 0
        /\ wpc' = "error"
        /\ UNCHANGED <<attempt, gen, made, up>>
  /\ UNCHANGED <<workRest, cur, result, dead, wire>>

(* A step of the worker that emits an event of its prompt and goes on, or   *)
(* is thrown somewhere else when the event is cut off.                      *)
Tell(type, place, thrown) ==
  \/ wpc' = place /\ Emit(Event(type, cur))
  \/ wpc' = thrown /\ CutOff(cur)

(* A slash command that the gateway executes produces its own output, and   *)
(* nothing is submitted; everything else ends as text to submit, after a    *)
(* dispatch that fails with a message that says so.                         *)
Expand ==
  /\ wpc = "expand"
  /\ \/ wpc' = "submit" /\ UNCHANGED wire
     \/ Tell("text", "submit", "lost")
     \/ gen \in up /\ Tell("text", "ran", "lost")
  /\ UNCHANGED <<workRest, cur, attempt, gen, made, result, up, dead>>

(* session.prompt(): the request goes to the gateway, unless it is gone.    *)
Submit ==
  /\ wpc = "submit"
  /\ \/ /\ gen \in up
        /\ wpc' = "arm"
        /\ task' = [task EXCEPT ![gen] = cur]
        /\ spoken' = [spoken EXCEPT ![gen] = 0]
        /\ submitted' = [submitted EXCEPT ![cur] = @ + 1]
        /\ UNCHANGED result
     \/ /\ gen \notin up
        /\ wpc' = "raised"
        /\ result' = "gone"
        /\ UNCHANGED <<task, spoken, submitted>>
  /\ UNCHANGED <<queue, asked, cur, attempt, gen, made, up, dead, pipe,
                 finished, wire, history>>

(* It then records the turn, and looks once more whether the gateway died.  *)
Arm ==
  /\ wpc = "arm" /\ wpc' = "wait"
  /\ result' = IF gen \in dead THEN "gone" ELSE "no"
  /\ UNCHANGED <<workRest, cur, attempt, gen, made, up, dead, wire>>

WaitNot ==
  /\ wpc = "wait" /\ wpc' = "done"
  /\ UNCHANGED <<workRest, cur, attempt, gen, made, result, up, dead, wire>>

Wait ==
  /\ wpc = "wait" /\ result # "no"
  /\ wpc' = IF result = "ok" THEN "done" ELSE "raised"
  /\ UNCHANGED <<workRest, cur, attempt, gen, made, result, up, dead, wire>>

(* The except clause: is the gateway dead, by the exception or by is_dead?  *)
(* Either way its session is closed; a dead one's prompt is tried again.    *)
Dead == result = "gone" \/ gen \in dead

RaisedLeavesOpen ==
  /\ wpc = "raised"
  /\ gen' = 0
  /\ IF Dead /\ attempt = 0
     THEN wpc' = "start" /\ attempt' = 1
     ELSE wpc' = "error" /\ UNCHANGED attempt
  /\ UNCHANGED <<workRest, cur, made, result, up, dead, wire>>

Raised ==
  /\ wpc = "raised"
  /\ gen' = 0
  /\ up' = up \ {gen} /\ dead' = dead \cup {gen}
  /\ task' = [task EXCEPT ![gen] = 0]
  /\ IF Dead /\ attempt = 0
     THEN wpc' = "start" /\ attempt' = 1
     ELSE wpc' = "error" /\ UNCHANGED attempt
  /\ UNCHANGED <<queue, asked, submitted, pipe, spoken, finished, cur, made,
                 result, wire, history>>

Finish(place, type, thrown) ==
  /\ wpc = place
  /\ Tell(type, "take", thrown)
  /\ UNCHANGED <<workRest, cur, attempt, gen, made, result, up, dead>>

(* The done of an executed command, the backstop done, whose exception is   *)
(* handled as if prompt() had raised it, and the error that reports one.    *)
Ran == Finish("ran", "done", "lost")
Done == Finish("done", "done", "raised")
ErrorSwallowed ==
  /\ wpc = "error" /\ wpc' = "take"
  /\ UNCHANGED <<workRest, cur, attempt, gen, made, result, up, dead, wire>>
Error == Finish("error", "error", "lost")

-----------------------------------------------------------------------------
(* The gateways.                                                            *)

bridgeRest == <<queue, asked, wpc, cur, attempt, gen, made, submitted>>

Write(g, kind, p) ==
  pipe' = [pipe EXCEPT ![g] = Append(@, [kind |-> kind, of |-> p])]

Speak(g) ==
  /\ task[g] # 0 /\ spoken[g] < MaxText
  /\ spoken' = [spoken EXCEPT ![g] = @ + 1]
  /\ Write(g, "text", task[g])
  /\ UNCHANGED <<bridgeRest, result, dead, wire, history, up, task, finished>>

EndTurn(g) ==
  /\ task[g] # 0
  /\ \/ Write(g, "end", task[g]) /\ finished' = finished \cup {task[g]}
     \/ Write(g, "fail", task[g]) /\ UNCHANGED finished
  /\ task' = [task EXCEPT ![g] = 0]
  /\ UNCHANGED <<bridgeRest, result, dead, wire, history, up, spoken>>

(* An error reply to a request other than the turn's own: the catalog RPC   *)
(* of an HTTP thread, or a slash command that cannot be resolved.           *)
Refuse(g) ==
  /\ g \in up
  /\ \A k \in DOMAIN pipe[g] : pipe[g][k].kind # "refuse"
  /\ Write(g, "refuse", 0)
  /\ UNCHANGED <<bridgeRest, result, dead, wire, history, up, task, spoken,
                 finished>>

Die(g) ==
  /\ g \in up
  /\ up' = up \ {g}
  /\ task' = [task EXCEPT ![g] = 0]
  /\ UNCHANGED <<bridgeRest, result, dead, wire, history, pipe, spoken,
                 finished>>

-----------------------------------------------------------------------------
(* The readers.                                                             *)

(* _finish_turn of generation g: the turn that is recorded, if one is, gets *)
(* its result.                                                              *)
Armed(g) == wpc = "wait" /\ gen = g /\ result = "no"
FinishTurn(g, how) == result' = IF Armed(g) THEN how ELSE result

(* _on_pi_event passes text and errors on, and swallows ends.               *)
Translate(frame) ==
  CASE frame.kind = "text" -> Emit(Event("text", frame.of))
    [] frame.kind = "fail" -> Emit(Event("error", frame.of)) \/ CutOff(frame.of)
    [] OTHER -> UNCHANGED wire

(* An end that finds no turn recorded is lost to the prompt() that is about *)
(* to record it.                                                            *)
Read(g) ==
  /\ pipe[g] # <<>>
  /\ pipe' = [pipe EXCEPT ![g] = Tail(@)]
  /\ LET frame == Head(pipe[g]) IN
       /\ Translate(frame)
       /\ CASE frame.kind = "text" -> UNCHANGED result
            [] frame.kind = "end" -> FinishTurn(g, "ok")
            [] OTHER -> FinishTurn(g, "error")
       /\ spoiled' = IF frame.kind = "refuse" /\ Armed(g)
                     THEN spoiled \cup {cur} ELSE spoiled
       /\ overtaken' = IF frame.kind \in {"end", "fail"} /\ wpc = "arm" /\ gen = g
                       THEN overtaken \cup {<<cur, g>>} ELSE overtaken
  /\ UNCHANGED <<bridgeRest, dead, up, task, spoken, finished>>

EofEarly(g) ==
  /\ g \in (1..made) \ (up \cup dead)
  /\ dead' = dead \cup {g}
  /\ FinishTurn(g, "gone")
  /\ UNCHANGED <<bridgeRest, wire, history, engVars>>

Eof(g) ==
  /\ g \in (1..made) \ (up \cup dead) /\ pipe[g] = <<>>
  /\ dead' = dead \cup {g}
  /\ FinishTurn(g, "gone")
  /\ UNCHANGED <<bridgeRest, wire, history, engVars>>

-----------------------------------------------------------------------------

Worker ==
  \/ Prewarm \/ TakePrompt \/ Start \/ Expand \/ Submit \/ Arm \/ Wait \/ Raised
  \/ Ran \/ Done \/ Error
Gateway(g) == Speak(g) \/ EndTurn(g) \/ Refuse(g) \/ Die(g)
Reader(g) == Read(g) \/ Eof(g)

Next == Prompt \/ Worker \/ \E g \in Gens : Gateway(g) \/ Reader(g)

(* Threads run; an engine that has a turn ends it some time, if it lives.   *)
Spec ==
  /\ Init /\ [][Next]_vars
  /\ WF_vars(Worker)
  /\ \A g \in Gens : WF_vars(Reader(g)) /\ WF_vars(EndTurn(g))

-----------------------------------------------------------------------------
(* Properties.                                                              *)

Terminates(e, p) == e.of = p /\ e.type \in {"done", "error"}

Terminated(p) == \E k \in DOMAIN wire : Terminates(wire[k], p)

(* The worker will not come to an end: its thread died of an event that was *)
(* cut off, or it waits for a turn whose end came before it was recorded.   *)
Stuck == wpc = "lost" \/ (wpc = "wait" /\ <<cur, gen>> \in overtaken)

(* Whatever happens to the gateway, every prompt that was accepted is       *)
(* followed by a done or an error, unless the worker's thread has died or   *)
(* it waits for a turn that was over before it was recorded: the backstop   *)
(* does not let "clients always see a terminator" (vertus_server.py 270).   *)
EveryPromptTerminated ==
  \A p \in Prompts : asked >= p ~> Terminated(p) \/ Stuck

(* "Within one agent, prompts still serialize in submission order": no      *)
(* event of a prompt comes after one of a later prompt, nor after the done  *)
(* with which the worker has closed its own, whichever thread emits them.   *)
(* The exception is what an engine still writes for a prompt that the       *)
(* refusal of another request has interrupted.  A done that was cut off is  *)
(* no such done: the error that reports the exception follows it.           *)
Serialized ==
  \A j, k \in DOMAIN wire : j < k /\ wire[k].of \notin spoiled =>
    /\ wire[j].of <= wire[k].of
    /\ wire[j].type = "done" => wire[j].of < wire[k].of

(* At most one gateway process of an agent runs: the worker has closed      *)
(* every session it no longer uses.                                         *)
OneGateway == up \subseteq {gen}

(* "Respawn it so the same prompt still goes through": at most once, and    *)
(* never when an engine has brought the prompt to its end.  That end can    *)
(* escape the worker in three ways: behind the refusal of another request,  *)
(* before the turn was recorded, or when its done was cut off, which counts *)
(* as an exception of the prompt itself.                                    *)
EndEscaped(p) ==
  \/ p \in spoiled
  \/ \E g \in Gens : <<p, g>> \in overtaken
  \/ \E k \in DOMAIN wire : wire[k] = Event("cut", p)
NoNeedlessRetry ==
  [][\A p \in Prompts : submitted'[p] # submitted[p] =>
       submitted'[p] <= 2 /\ (p \in finished => EndEscaped(p))]_vars

(* The state is typed, and the gateways that run are those the worker knows *)
(* of (vertus_server.py 240-291).                                           *)
Consistent == TypeOK /\ OneGateway
=============================================================================

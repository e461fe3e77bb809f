-------------------------- MODULE AgentBridgeProofs --------------------------
(***************************************************************************)
(* Proofs about AgentBridge, for any number of prompts, of sessions and of *)
(* pieces of text: one gateway at a time, events in the order of the       *)
(* prompts, and no prompt submitted again that an engine has finished.     *)
(***************************************************************************)
EXTENDS AgentBridge, TLAPS

-----------------------------------------------------------------------------
(* The inductive invariant, in three layers.  First, where the worker and   *)
(* the gateways are.                                                        *)

In(s) == {s[k] : k \in DOMAIN s}

(* The queue holds the prompts that follow the one the worker runs.         *)
QueueInv ==
  /\ asked = cur + Len(queue)
  /\ \A k \in DOMAIN queue : queue[k] = cur + k

(* What the worker has when it gets where it is.                            *)
WorkerInv ==
  /\ wpc = "boot" => made = 0
  /\ wpc \in {"expand", "submit", "arm", "wait", "raised", "done"} => gen # 0
  /\ wpc \notin {"boot", "take"} => cur # 0

(* The worker goes to an engine at most once per attempt.                   *)
SubmittedInv ==
  /\ \A p \in Prompts : p > cur => submitted[p] = 0
  /\ wpc \in {"start", "expand", "submit"} => submitted[cur] <= attempt
  /\ wpc \in {"arm", "wait", "raised", "done"} => submitted[cur] <= attempt + 1

(* A gateway that has a task runs, and frames are about prompts.            *)
GatewayInv ==
  /\ OneGateway
  /\ \A g \in Gens : task[g] # 0 => g \in up
  /\ \A g \in Gens : \A f \in In(pipe[g]) : f.kind # "refuse" => f.of # 0

Placed == TypeOK /\ QueueInv /\ WorkerInv /\ SubmittedInv /\ GatewayInv

-----------------------------------------------------------------------------
(* Second, what is left in the pipes.  Only while the worker waits for a    *)
(* turn does its gateway work or is there anything of a turn to be read;    *)
(* what a refusal has interrupted may be written and read later.            *)

Current == wpc = "arm" \/ (wpc = "wait" /\ result = "no")
Interrupted == wpc \in {"wait", "raised"} /\ result = "error" /\ cur \in spoiled

TaskInv == \A g \in Gens : task[g] # 0 => task[g] = cur /\ (Current \/ Interrupted)

OwnFrames ==
  \A g \in Gens : \A f \in In(pipe[g]) :
    f.kind # "refuse" /\ g = gen => f.of = cur /\ (Current \/ Interrupted)

OldFrames ==
  \A g \in Gens : \A f \in In(pipe[g]) :
    f.kind # "refuse" /\ g # gen => f.of \in spoiled

(* A turn has one last frame, and nothing of it follows.                    *)
Closing(f) == f.kind \in {"end", "fail"}
EndsOnce(s) ==
  \A j, k \in DOMAIN s : j < k /\ Closing(s[j]) => s[k].kind = "refuse"
LastInv ==
  \A g \in Gens : EndsOnce(pipe[g]) /\ (task[g] # 0 => \A f \in In(pipe[g]) : ~Closing(f))

(* A generation that does not exist yet has written nothing.                *)
NewInv == \A g \in Gens : g > made => pipe[g] = <<>>

SpoiledInv == spoiled \subseteq 1..cur

(* A reader that is through has read everything.                            *)
DeadInv == gen \in dead => gen \notin up /\ (gen \in Gens => pipe[gen] = <<>>)

Piped == TaskInv /\ OwnFrames /\ OldFrames /\ LastInv /\ NewInv /\ SpoiledInv

-----------------------------------------------------------------------------
(* Third, what the clients have seen and what the engines have finished.    *)

WireInv ==
  \A k \in DOMAIN wire :
    /\ wire[k].of <= cur
    /\ wire[k].type = "done" /\ wire[k].of = cur => wpc = "take"

(* A prompt that an engine has finished is done, or about to be, unless its *)
(* end has escaped the worker.                                              *)
Ended ==
  \/ Current /\ \E f \in In(pipe[gen]) : f.kind = "end"
  \/ wpc = "wait" /\ result = "ok"
  \/ wpc \in {"done", "take"}
FinishedInv ==
  /\ finished \subseteq 1..cur
  /\ cur \in finished => EndEscaped(cur) \/ Ended

-----------------------------------------------------------------------------
(* Types and sequences.                                                     *)

USE DEF history

Places == {"boot", "take", "start", "expand", "ran", "submit", "arm", "wait", "raised",
           "done", "error", "lost"}
Frames == [kind : {"text", "end", "fail", "refuse"}, of : 0..MaxPrompts]

QueueTypes == queue \in Seq(Prompts) /\ asked \in 0..MaxPrompts
WorkerTypes ==
  /\ wpc \in Places /\ cur \in 0..MaxPrompts /\ attempt \in 0..1
  /\ gen \in 0..made /\ made \in 0..MaxGens
  /\ result \in {"no", "ok", "error", "gone"}
EngineTypes ==
  /\ up \subseteq 1..made /\ dead \subseteq 1..made
  /\ pipe \in [Gens -> Seq(Frames)] /\ task \in [Gens -> 0..MaxPrompts]
  /\ spoken \in [Gens -> 0..MaxText] /\ finished \subseteq Prompts
OutTypes ==
  /\ submitted \in [Prompts -> 0..2] /\ wire \in Seq(Events)
  /\ spoiled \subseteq Prompts /\ overtaken \subseteq Prompts \X Gens
Types == QueueTypes /\ WorkerTypes /\ EngineTypes /\ OutTypes

(* The type invariant, in groups.                                           *)
LEMMA TypesSplit == (TypeOK <=> Types) /\ (TypeOK' <=> Types')
  BY DEF TypeOK, Types, QueueTypes, WorkerTypes, EngineTypes, OutTypes, Places, Frames

(* What a pipe holds after a frame is written to it or read from it; the    *)
(* order in which a turn ends is kept.                                      *)
LEMMA FrameAppended ==
  ASSUME NEW s \in Seq(Frames), NEW x \in Frames
  PROVE  /\ Append(s, x) \in Seq(Frames) /\ In(Append(s, x)) = In(s) \cup {x}
         /\ EndsOnce(s) /\ (x.kind = "refuse" \/ \A f \in In(s) : ~Closing(f))
              => EndsOnce(Append(s, x))
<1>1. /\ Append(s, x) \in Seq(Frames)
      /\ Len(Append(s, x)) = Len(s) + 1 /\ Append(s, x)[Len(s) + 1] = x
      /\ \A k \in 1..Len(s) : Append(s, x)[k] = s[k]
      /\ Len(s) \in Nat
  OBVIOUS
<1>2. DOMAIN s = 1..Len(s) /\ DOMAIN Append(s, x) = 1..(Len(s) + 1)
  BY <1>1
<1>3. 1..(Len(s) + 1) = 1..Len(s) \cup {Len(s) + 1}
  BY <1>1
<1>4. In(Append(s, x)) = In(s) \cup {x}
  BY <1>1, <1>2, <1>3 DEF In
<1>5. ASSUME EndsOnce(s), x.kind = "refuse" \/ \A f \in In(s) : ~Closing(f),
             NEW j \in DOMAIN Append(s, x), NEW k \in DOMAIN Append(s, x), j < k,
             Closing(Append(s, x)[j])
      PROVE  Append(s, x)[k].kind = "refuse"
  <2>1. j \in DOMAIN s /\ Append(s, x)[j] = s[j] /\ s[j] \in In(s)
    BY <1>1, <1>2, <1>5 DEF In
  <2>2. CASE k \in DOMAIN s
    BY <1>1, <1>2, <1>5, <2>1, <2>2 DEF EndsOnce
  <2>3. CASE k = Len(s) + 1
    BY <1>1, <1>5, <2>1, <2>3
  <2> QED BY <1>2, <1>3, <2>2, <2>3
<1> QED BY <1>1, <1>4, <1>5 DEF EndsOnce

(* Nothing but refusals comes after the last frame of a turn.               *)
LEMMA FrameTaken ==
  ASSUME NEW s \in Seq(Frames), s # <<>>
  PROVE  /\ Head(s) \in Frames /\ Tail(s) \in Seq(Frames)
         /\ In(s) = {Head(s)} \cup In(Tail(s))
         /\ EndsOnce(s) =>
              /\ EndsOnce(Tail(s))
              /\ Closing(Head(s)) => \A f \in In(Tail(s)) : f.kind = "refuse"
<1>1. /\ Head(s) \in Frames /\ Tail(s) \in Seq(Frames) /\ Head(s) = s[1]
      /\ Len(s) \in Nat \ {0} /\ Len(Tail(s)) = Len(s) - 1
      /\ \A k \in 1..(Len(s) - 1) : Tail(s)[k] = s[k + 1]
      /\ DOMAIN s = 1..Len(s) /\ DOMAIN Tail(s) = 1..(Len(s) - 1)
  OBVIOUS
<1>2. \A k \in DOMAIN Tail(s) : k + 1 \in DOMAIN s /\ Tail(s)[k] = s[k + 1] /\ 1 < k + 1
  BY <1>1
<1>3. \A k \in DOMAIN s : k = 1 \/ (k - 1 \in DOMAIN Tail(s) /\ s[k] = Tail(s)[k - 1])
  BY <1>1
<1>4. In(s) = {Head(s)} \cup In(Tail(s))
  <2>1. 1 \in DOMAIN s
    BY <1>1
  <2>2. ASSUME NEW f \in In(s) PROVE f = Head(s) \/ f \in In(Tail(s))
    <3>1. PICK k \in DOMAIN s : f = s[k]
      BY DEF In
    <3> QED BY <1>1, <1>3, <3>1 DEF In
  <2>3. ASSUME NEW f \in In(Tail(s)) PROVE f \in In(s)
    <3>1. PICK k \in DOMAIN Tail(s) : f = Tail(s)[k]
      BY DEF In
    <3> QED BY <1>2, <3>1 DEF In
  <2> QED BY <1>1, <2>1, <2>2, <2>3 DEF In
<1>5. EndsOnce(s) => EndsOnce(Tail(s))
  <2>1. \A j, k \in DOMAIN Tail(s) : j < k => j + 1 < k + 1
    BY <1>1
  <2> QED BY <1>2, <2>1 DEF EndsOnce
<1>6. ASSUME EndsOnce(s), Closing(Head(s)), NEW f \in In(Tail(s)) PROVE f.kind = "refuse"
  <2>1. PICK k \in DOMAIN Tail(s) : f = Tail(s)[k]
    BY <1>6 DEF In
  <2>2. 1 \in DOMAIN s
    BY <1>1
  <2> QED BY <1>1, <1>2, <1>6, <2>1, <2>2 DEF EndsOnce
<1> QED BY <1>1, <1>4, <1>5, <1>6

(* An emitted event is the last of the wire.                                *)
LEMMA Emitted ==
  ASSUME wire \in Seq(Events), NEW e \in Events, Emit(e)
  PROVE  /\ wire' \in Seq(Events)
         /\ Len(wire) \in Nat /\ DOMAIN wire = 1..Len(wire)
         /\ DOMAIN wire' = DOMAIN wire \cup {Len(wire) + 1}
         /\ \A k \in DOMAIN wire : wire'[k] = wire[k] /\ k < Len(wire) + 1
         /\ wire'[Len(wire) + 1] = e
<1>1. wire' = Append(wire, e)
  BY DEF Emit
<1>2. /\ wire' \in Seq(Events) /\ Len(wire) \in Nat /\ DOMAIN wire = 1..Len(wire)
      /\ Len(wire') = Len(wire) + 1 /\ DOMAIN wire' = 1..(Len(wire) + 1)
      /\ \A k \in 1..Len(wire) : wire'[k] = wire[k]
      /\ wire'[Len(wire) + 1] = e
  BY <1>1
<1>3. DOMAIN wire' = DOMAIN wire \cup {Len(wire) + 1}
  BY <1>2
<1> QED BY <1>2, <1>3

(* An event of a prompt is one.                                             *)
LEMMA EventTyped ==
  ASSUME NEW p \in Prompts, NEW t \in {"text", "done", "error", "cut"}
  PROVE  Event(t, p) \in Events /\ Event(t, p).of = p /\ Event(t, p).type = t
  BY DEF Event, Events

-----------------------------------------------------------------------------
(* First layer: the worker, the queue and the gateways.                     *)

(* The initial state satisfies Placed.                                      *)
LEMMA InitPlaced == Init => Placed
<1> SUFFICES ASSUME Init PROVE Placed
  OBVIOUS
<1>1. Types
  BY BridgeAssumption
  DEF Init, Types, QueueTypes, WorkerTypes, EngineTypes, OutTypes, Places, Gens, Prompts
<1>2. \A g \in Gens : In(pipe[g]) = {}
  BY DEF Init, In
<1> QED BY <1>1, <1>2, TypesSplit
        DEF Init, Placed, QueueInv, WorkerInv, SubmittedInv, GatewayInv, OneGateway

(* The queue and the worker's prompt are not touched by most steps.         *)
LEMMA QueueKept ==
  ASSUME QueueInv, UNCHANGED <<queue, asked, cur>> PROVE QueueInv'
  BY DEF QueueInv

(* Prompt keeps Placed.                                                     *)
LEMMA PromptPlaced == ASSUME Placed, Prompt PROVE Placed'
<1>1. Types /\ QueueInv /\ WorkerInv /\ SubmittedInv /\ GatewayInv
  BY TypesSplit DEF Placed
<1>2. /\ asked' = asked + 1 /\ asked' \in Prompts /\ queue' = Append(queue, asked')
      /\ queue \in Seq(Prompts) /\ cur \in Nat /\ asked = cur + Len(queue)
  BY <1>1, BridgeAssumption
  DEF Prompt, Types, QueueTypes, WorkerTypes, QueueInv, Prompts
<1>3. /\ queue' \in Seq(Prompts) /\ Len(queue) \in Nat
      /\ Len(queue') = Len(queue) + 1
      /\ DOMAIN queue' = 1..(Len(queue) + 1) /\ DOMAIN queue = 1..Len(queue)
      /\ \A k \in 1..Len(queue) : queue'[k] = queue[k]
      /\ queue'[Len(queue) + 1] = asked'
  BY <1>2
<1>4. QueueInv'
  <2>1. cur' = cur /\ asked' = cur' + Len(queue')
    BY <1>2, <1>3 DEF Prompt
  <2>2. ASSUME NEW k \in DOMAIN queue' PROVE queue'[k] = cur + k
    <3>1. CASE k \in DOMAIN queue
      BY <1>1, <1>3, <3>1 DEF QueueInv
    <3>2. CASE k = Len(queue) + 1
      BY <1>2, <1>3, <3>2
    <3> QED BY <1>3, <2>2, <3>1, <3>2
  <2> QED BY <2>1, <2>2 DEF QueueInv
<1>5. Types'
  BY <1>1, <1>2, <1>3
  DEF Prompt, engVars, Types, QueueTypes, WorkerTypes, EngineTypes, OutTypes, Prompts
<1>6. WorkerInv' /\ SubmittedInv' /\ GatewayInv'
  BY <1>1 DEF Prompt, engVars, WorkerInv, SubmittedInv, GatewayInv, OneGateway
<1> QED BY <1>4, <1>5, <1>6, TypesSplit DEF Placed

(* A new session is the only gateway that runs, when there was none.        *)
LEMMA SessionMade ==
  ASSUME Types, GatewayInv, gen = 0, NewSession, UNCHANGED <<dead, pipe, task>>
  PROVE  /\ made' \in 0..MaxGens /\ gen' \in 0..made' /\ gen' # 0
         /\ up' \subseteq 1..made' /\ dead' \subseteq 1..made'
         /\ GatewayInv'
<1>1. /\ made \in 0..MaxGens /\ made < MaxGens /\ made' = made + 1 /\ gen' = made'
      /\ up' = up \cup {made'} /\ up \subseteq 1..made /\ dead \subseteq 1..made
  BY DEF Types, WorkerTypes, EngineTypes, NewSession
<1>2. made' \in 0..MaxGens /\ gen' \in 0..made' /\ gen' # 0 /\ 1..made \subseteq 1..made'
      /\ made' \in 1..made'
  BY <1>1, BridgeAssumption
<1>3. up = {}
  BY <1>1 DEF GatewayInv, OneGateway
<1>4. GatewayInv'
  BY <1>1, <1>3 DEF GatewayInv, OneGateway
<1> QED BY <1>1, <1>2, <1>4

(* Prewarm keeps Placed.                                                    *)
LEMMA PrewarmPlaced == ASSUME Placed, Prewarm PROVE Placed'
<1>1. Types /\ QueueInv /\ WorkerInv /\ SubmittedInv /\ GatewayInv
  BY TypesSplit DEF Placed
<1>2. wpc = "boot" /\ wpc' = "take" /\ gen = 0
      /\ UNCHANGED <<workRest, cur, attempt, result, dead, wire>>
  BY <1>1 DEF Prewarm, WorkerInv, Types, WorkerTypes
<1>3. /\ made' \in 0..MaxGens /\ gen' \in 0..made'
      /\ up' \subseteq 1..made' /\ dead' \subseteq 1..made' /\ GatewayInv'
  <2>1. CASE NewSession
    BY <1>1, <1>2, <2>1, SessionMade DEF workRest
  <2>2. CASE UNCHANGED <<made, gen, up>>
    BY <1>1, <1>2, <2>2
    DEF workRest, Types, WorkerTypes, EngineTypes, GatewayInv, OneGateway
  <2> QED BY <2>1, <2>2 DEF Prewarm
<1>4. Types'
  BY <1>1, <1>2, <1>3
  DEF workRest, Types, QueueTypes, WorkerTypes, EngineTypes, OutTypes, Places
<1>5. QueueInv' /\ WorkerInv' /\ SubmittedInv'
  BY <1>1, <1>2 DEF workRest, QueueInv, WorkerInv, SubmittedInv
<1> QED BY <1>3, <1>4, <1>5, TypesSplit DEF Placed

(* TakePrompt keeps Placed.                                                 *)
LEMMA TakePromptPlaced == ASSUME Placed, TakePrompt PROVE Placed'
<1>1. Types /\ QueueInv /\ WorkerInv /\ SubmittedInv /\ GatewayInv
  BY TypesSplit DEF Placed
<1>2. /\ wpc = "take" /\ queue # <<>> /\ cur' = Head(queue) /\ queue' = Tail(queue)
      /\ attempt' = 0 /\ wpc' = "start"
      /\ UNCHANGED <<asked, gen, made, result, dead, submitted, wire, history, engVars>>
  BY DEF TakePrompt
<1>3. /\ cur' \in Prompts /\ queue' \in Seq(Prompts)
      /\ cur' = cur + 1 /\ Len(queue') = Len(queue) - 1 /\ Len(queue) \in Nat
      /\ DOMAIN queue' = 1..(Len(queue) - 1) /\ DOMAIN queue = 1..Len(queue)
      /\ \A k \in DOMAIN queue' : queue'[k] = queue[k + 1] /\ k + 1 \in DOMAIN queue
  <2>1. queue \in Seq(Prompts) /\ queue # <<>>
    BY <1>1, <1>2 DEF Types, QueueTypes
  <2>2. /\ cur' \in Prompts /\ queue' \in Seq(Prompts) /\ cur' = queue[1]
        /\ Len(queue') = Len(queue) - 1 /\ Len(queue) \in Nat \ {0}
        /\ DOMAIN queue' = 1..(Len(queue) - 1) /\ DOMAIN queue = 1..Len(queue)
        /\ \A k \in 1..(Len(queue) - 1) : queue'[k] = queue[k + 1]
    BY <1>2, <2>1
  <2>3. cur' = cur + 1
    BY <1>1, <2>2 DEF QueueInv
  <2> QED BY <2>2, <2>3
<1>4. QueueInv'
  <2>1. cur \in Nat /\ asked' = cur' + Len(queue')
    BY <1>1, <1>2, <1>3 DEF QueueInv, Types, WorkerTypes
  <2>2. \A k \in DOMAIN queue' : queue'[k] = cur' + k
    BY <1>1, <1>3, <2>1 DEF QueueInv
  <2> QED BY <2>1, <2>2 DEF QueueInv
<1>5. Types'
  BY <1>1, <1>2, <1>3
  DEF engVars, Types, QueueTypes, WorkerTypes, EngineTypes, OutTypes, Places, Prompts
<1>6. SubmittedInv'
  <2>1. cur \in Nat /\ \A p \in Prompts : p > cur + 1 => p > cur
    BY <1>1 DEF Types, WorkerTypes, Prompts
  <2>2. cur' > cur
    BY <1>3, <2>1
  <2> QED BY <1>1, <1>2, <1>3, <2>1, <2>2 DEF SubmittedInv, Types, OutTypes
<1>7. WorkerInv' /\ GatewayInv'
  BY <1>1, <1>2, <1>3 DEF engVars, WorkerInv, GatewayInv, OneGateway, Prompts
<1> QED BY <1>4, <1>5, <1>6, <1>7, TypesSplit DEF Placed

(* Start keeps Placed.                                                      *)
LEMMA StartPlaced == ASSUME Placed, Start PROVE Placed'
<1>1. Types /\ QueueInv /\ WorkerInv /\ SubmittedInv /\ GatewayInv
  BY TypesSplit DEF Placed
<1>2. /\ wpc = "start" /\ UNCHANGED <<workRest, cur, result, dead, wire>>
      /\ wpc' \in {"start", "expand", "error"} /\ attempt' \in 0..1 /\ attempt <= attempt'
  BY <1>1 DEF Start, Types, WorkerTypes
<1>3. /\ made' \in 0..MaxGens /\ gen' \in 0..made' /\ (wpc' = "expand" => gen' # 0)
      /\ up' \subseteq 1..made' /\ dead' \subseteq 1..made' /\ GatewayInv'
  <2>1. CASE gen = 0 /\ NewSession
    BY <1>1, <1>2, <2>1, SessionMade DEF workRest
  <2>2. CASE UNCHANGED <<made, gen, up>> /\ (wpc' = "expand" => gen # 0)
    BY <1>1, <1>2, <2>2
    DEF workRest, Types, WorkerTypes, EngineTypes, GatewayInv, OneGateway
  <2> QED BY <1>2, <2>1, <2>2 DEF Start
<1>4. Types'
  BY <1>1, <1>2, <1>3
  DEF workRest, Types, QueueTypes, WorkerTypes, EngineTypes, OutTypes, Places
<1>5. WorkerInv'
  BY <1>1, <1>2, <1>3 DEF workRest, WorkerInv
<1>6. SubmittedInv'
  <2>1. submitted[cur] \in 0..2 /\ submitted[cur] <= attempt /\ attempt \in 0..1
    BY <1>1, <1>2
    DEF SubmittedInv, WorkerInv, Types, WorkerTypes, OutTypes, Prompts
  <2>2. submitted[cur] <= attempt'
    BY <1>2, <2>1
  <2> QED BY <1>1, <1>2, <2>2 DEF workRest, SubmittedInv
<1>7. QueueInv'
  BY <1>1, <1>2, QueueKept DEF workRest
<1> QED BY <1>3, <1>4, <1>5, <1>6, <1>7, TypesSplit DEF Placed

(* A step of the worker that moves on and emits no event, or one of its     *)
(* prompt.                                                                  *)
Quiet(place) ==
  /\ wpc' = place /\ place \in Places
  /\ UNCHANGED <<workRest, cur, attempt, gen, made, result, up, dead>>
Emits(type) == wire' = wire \/ Emit(Event(type, cur))

(* Such a step keeps the first layer.                                       *)
LEMMA QuietPlaced ==
  ASSUME Placed,
         NEW place \in {"take", "ran", "submit", "raised", "done", "lost"}, Quiet(place),
         place \in {"submit", "raised", "done"} => gen # 0,
         place = "submit" => wpc = "expand",
         place = "done" => wpc = "wait",
         place = "raised" => wpc \in {"wait", "done"},
         wpc \notin {"boot", "take"},
         NEW t \in {"text", "done", "error", "cut"}, Emits(t)
  PROVE  Placed'
<1>1. Types /\ QueueInv /\ WorkerInv /\ SubmittedInv /\ GatewayInv
  BY TypesSplit DEF Placed
<1>2. cur \in Prompts
  BY <1>1 DEF WorkerInv, Types, WorkerTypes, Prompts
<1>3. wire' \in Seq(Events)
  BY <1>1, <1>2, EventTyped, Emitted DEF Emits, Types, OutTypes
<1>4. Types'
  BY <1>1, <1>3
  DEF Quiet, workRest, Types, QueueTypes, WorkerTypes, EngineTypes, OutTypes
<1>5. WorkerInv' /\ SubmittedInv'
  BY <1>1, <1>2 DEF Quiet, workRest, WorkerInv, SubmittedInv, Prompts
<1>6. QueueInv' /\ GatewayInv'
  BY <1>1, QueueKept DEF Quiet, workRest, GatewayInv, OneGateway
<1> QED BY <1>4, <1>5, <1>6, TypesSplit DEF Placed

(* A gateway is given a task, or has none any more.                         *)
LEMMA TaskSet ==
  ASSUME Types, NEW n, NEW x \in 0..MaxPrompts, task' = [task EXCEPT ![n] = x]
  PROVE  /\ task' \in [Gens -> 0..MaxPrompts]
         /\ \A h \in Gens : task'[h] = IF h = n THEN x ELSE task[h]
<1>1. task \in [Gens -> 0..MaxPrompts]
  BY DEF Types, EngineTypes
<1>2. task' = [h \in Gens |-> IF h = n THEN x ELSE task[h]]
  BY <1>1
<1>3. \A h \in Gens : task'[h] \in 0..MaxPrompts
  BY <1>1, <1>2
<1> QED BY <1>2, <1>3

(* An event of the worker is emitted or cut off.                            *)
LEMMA Told ==
  ASSUME NEW t, NEW place, NEW thrown, Tell(t, place, thrown)
  PROVE  \/ wpc' = place /\ Emit(Event(t, cur)) /\ Emits(t)
         \/ wpc' = thrown /\ Emit(Event("cut", cur)) /\ Emits("cut")
  BY DEF Tell, CutOff, Emits

(* Expand is such a step.                                                   *)
LEMMA ExpandQuiet ==
  Expand => /\ wpc = "expand"
            /\ UNCHANGED <<workRest, cur, attempt, gen, made, result, up, dead>>
            /\ \/ Quiet("submit") /\ Emits("text")
               \/ Quiet("ran") /\ Emits("text")
               \/ Quiet("lost") /\ Emits("cut")
<1> SUFFICES ASSUME Expand PROVE
        /\ wpc = "expand"
        /\ UNCHANGED <<workRest, cur, attempt, gen, made, result, up, dead>>
        /\ \/ Quiet("submit") /\ Emits("text")
           \/ Quiet("ran") /\ Emits("text")
           \/ Quiet("lost") /\ Emits("cut")
  OBVIOUS
<1>1. /\ wpc = "expand"
      /\ UNCHANGED <<workRest, cur, attempt, gen, made, result, up, dead>>
  BY DEF Expand
<1>2. \/ wpc' = "submit" /\ Emits("text")
      \/ Tell("text", "submit", "lost")
      \/ Tell("text", "ran", "lost")
  BY DEF Expand, Emits
<1>3. \/ wpc' = "submit" /\ Emits("text")
      \/ wpc' = "ran" /\ Emits("text")
      \/ wpc' = "lost" /\ Emits("cut")
  BY <1>2, Told
<1> QED BY <1>1, <1>3 DEF Quiet, Places

(* So is Wait.                                                              *)
LEMMA WaitQuiet ==
  Wait => /\ wpc = "wait" /\ result # "no" /\ wire' = wire
          /\ \/ result = "ok" /\ Quiet("done")
             \/ result # "ok" /\ Quiet("raised")
  BY DEF Wait, Quiet, Places

(* And so are the three ends of a prompt, cut off or not.                   *)
LEMMA FinishQuiet ==
  ASSUME NEW place, NEW t, NEW thrown \in {"lost", "raised"}, Finish(place, t, thrown)
  PROVE  /\ wpc = place
         /\ UNCHANGED <<workRest, cur, attempt, gen, made, result, up, dead>>
         /\ \/ Quiet("take") /\ Emit(Event(t, cur)) /\ Emits(t)
            \/ Quiet(thrown) /\ Emit(Event("cut", cur)) /\ Emits("cut")
<1>1. /\ wpc = place /\ Tell(t, "take", thrown)
      /\ UNCHANGED <<workRest, cur, attempt, gen, made, result, up, dead>>
  BY DEF Finish
<1>2. \/ wpc' = "take" /\ Emit(Event(t, cur)) /\ Emits(t)
      \/ wpc' = thrown /\ Emit(Event("cut", cur)) /\ Emits("cut")
  BY <1>1, Told
<1> QED BY <1>1, <1>2 DEF Quiet, Places

(* These steps keep the first layer.                                        *)
LEMMA QuietStepsPlaced ==
  ASSUME Placed, Expand \/ Wait \/ Ran \/ Done \/ Error PROVE Placed'
<1>1. WorkerInv
  BY DEF Placed
<1>2. CASE Expand
  <2>1. wpc = "expand" /\ gen # 0
    BY <1>1, <1>2, ExpandQuiet DEF WorkerInv
  <2>2. CASE Quiet("submit") /\ Emits("text")
    BY <2>1, <2>2, QuietPlaced
  <2>3. CASE Quiet("ran") /\ Emits("text")
    BY <2>1, <2>3, QuietPlaced
  <2>4. CASE Quiet("lost") /\ Emits("cut")
    BY <2>1, <2>4, QuietPlaced
  <2> QED BY <1>2, <2>2, <2>3, <2>4, ExpandQuiet
<1>3. CASE Wait
  <2>1. /\ wpc = "wait" /\ gen # 0 /\ Emits("text") /\ (Quiet("done") \/ Quiet("raised"))
    BY <1>1, <1>3, WaitQuiet DEF WorkerInv, Emits
  <2>2. CASE Quiet("done")
    BY <2>1, <2>2, QuietPlaced
  <2>3. CASE Quiet("raised")
    BY <2>1, <2>3, QuietPlaced
  <2> QED BY <2>1, <2>2, <2>3
<1>4. CASE Ran
  <2>1. /\ wpc = "ran"
        /\ (Quiet("take") /\ Emits("done")) \/ (Quiet("lost") /\ Emits("cut"))
    BY <1>4, FinishQuiet DEF Ran
  <2> QED BY <2>1, QuietPlaced
<1>5. CASE Done
  <2>1. /\ wpc = "done"
        /\ (Quiet("take") /\ Emits("done")) \/ (Quiet("raised") /\ Emits("cut"))
    BY <1>5, FinishQuiet DEF Done
  <2>2. gen # 0
    BY <1>1, <2>1 DEF WorkerInv
  <2> QED BY <2>1, <2>2, QuietPlaced
<1>6. CASE Error
  <2>1. /\ wpc = "error"
        /\ (Quiet("take") /\ Emits("error")) \/ (Quiet("lost") /\ Emits("cut"))
    BY <1>6, FinishQuiet DEF Error
  <2> QED BY <2>1, QuietPlaced
<1> QED BY <1>2, <1>3, <1>4, <1>5, <1>6

(* Submit keeps Placed.                                                     *)
LEMMA SubmitPlaced == ASSUME Placed, Submit PROVE Placed'
<1>1. Types /\ QueueInv /\ WorkerInv /\ SubmittedInv /\ GatewayInv
  BY TypesSplit DEF Placed
<1>2. /\ wpc = "submit" /\ wpc' \in {"arm", "raised"} /\ result' \in {result, "gone"}
      /\ UNCHANGED <<queue, asked, cur, attempt, gen, made, up, dead, pipe, finished,
                     wire, history>>
  BY DEF Submit
<1>3. cur \in Prompts /\ gen # 0 /\ attempt \in 0..1 /\ submitted[cur] <= attempt
      /\ submitted \in [Prompts -> 0..2] /\ submitted[cur] \in 0..2
  BY <1>1, <1>2
  DEF WorkerInv, SubmittedInv, Types, WorkerTypes, OutTypes, Prompts
<1>4. /\ submitted' \in [Prompts -> 0..2] /\ submitted'[cur] <= attempt + 1
      /\ \A p \in Prompts : p # cur => submitted'[p] = submitted[p]
  <2>1. CASE submitted' = [submitted EXCEPT ![cur] = @ + 1]
    BY <1>3, <2>1
  <2>2. CASE submitted' = submitted
    BY <1>3, <2>2
  <2> QED BY <2>1, <2>2 DEF Submit
<1>5. /\ task' \in [Gens -> 0..MaxPrompts] /\ spoken' \in [Gens -> 0..MaxText]
      /\ \A g \in Gens : task'[g] # 0 => g \in up
  <2>1. CASE /\ gen \in up /\ task' = [task EXCEPT ![gen] = cur]
             /\ spoken' = [spoken EXCEPT ![gen] = 0]
    <3>1. cur \in 0..MaxPrompts /\ 0 \in 0..MaxText
      BY <1>3, BridgeAssumption DEF Prompts
    <3>2. /\ task' \in [Gens -> 0..MaxPrompts]
          /\ \A h \in Gens : task'[h] = IF h = gen THEN cur ELSE task[h]
      BY <1>1, <2>1, <3>1, TaskSet
    <3>3. spoken' \in [Gens -> 0..MaxText]
      BY <1>1, <2>1, <3>1 DEF Types, EngineTypes
    <3> QED BY <1>1, <2>1, <3>2, <3>3 DEF GatewayInv
  <2>2. CASE UNCHANGED <<task, spoken>>
    BY <1>1, <2>2 DEF Types, EngineTypes, GatewayInv
  <2> QED BY <2>1, <2>2 DEF Submit
<1>6. Types'
  BY <1>1, <1>2, <1>4, <1>5
  DEF Types, QueueTypes, WorkerTypes, EngineTypes, OutTypes, Places
<1>7. SubmittedInv'
  <2>1. \A p \in Prompts : p > cur => p # cur
    BY <1>3 DEF Prompts
  <2> QED BY <1>1, <1>2, <1>4, <2>1 DEF SubmittedInv
<1>8. WorkerInv' /\ GatewayInv' /\ QueueInv'
  BY <1>1, <1>2, <1>3, <1>5, QueueKept DEF WorkerInv, GatewayInv, OneGateway
<1> QED BY <1>6, <1>7, <1>8, TypesSplit DEF Placed

(* Arm keeps Placed.                                                        *)
LEMMA ArmPlaced == ASSUME Placed, Arm PROVE Placed'
<1>1. Types /\ QueueInv /\ WorkerInv /\ SubmittedInv /\ GatewayInv
  BY TypesSplit DEF Placed
<1>2. /\ wpc = "arm" /\ wpc' = "wait" /\ result' \in {"no", "gone"}
      /\ UNCHANGED <<workRest, cur, attempt, gen, made, up, dead, wire>>
  BY DEF Arm
<1>3. Types'
  BY <1>1, <1>2
  DEF workRest, Types, QueueTypes, WorkerTypes, EngineTypes, OutTypes, Places
<1>4. WorkerInv' /\ SubmittedInv' /\ GatewayInv' /\ QueueInv'
  BY <1>1, <1>2, QueueKept
  DEF workRest, WorkerInv, SubmittedInv, GatewayInv, OneGateway
<1> QED BY <1>3, <1>4, TypesSplit DEF Placed

(* Raised keeps Placed.                                                     *)
LEMMA RaisedPlaced == ASSUME Placed, Raised PROVE Placed'
<1>1. Types /\ QueueInv /\ WorkerInv /\ SubmittedInv /\ GatewayInv
  BY TypesSplit DEF Placed
<1>2. /\ wpc = "raised" /\ gen' = 0 /\ up' = up \ {gen} /\ dead' = dead \cup {gen}
      /\ task' = [task EXCEPT ![gen] = 0]
      /\ UNCHANGED <<queue, asked, submitted, pipe, spoken, finished, cur, made, result,
                     wire, history>>
      /\ \/ attempt = 0 /\ wpc' = "start" /\ attempt' = 1
         \/ wpc' = "error" /\ attempt' = attempt
  BY DEF Raised
<1>3. cur \in Prompts /\ gen \in 1..made
  BY <1>1, <1>2 DEF WorkerInv, Types, WorkerTypes, Prompts
<1>4. up' = {} /\ dead' \subseteq 1..made
  BY <1>1, <1>2, <1>3 DEF GatewayInv, OneGateway, Types, EngineTypes
<1>5. /\ task' \in [Gens -> 0..MaxPrompts]
      /\ \A g \in Gens : task'[g] = 0
  <2>1. 0 \in 0..MaxPrompts
    BY BridgeAssumption
  <2>2. /\ task' \in [Gens -> 0..MaxPrompts]
        /\ \A h \in Gens : task'[h] = IF h = gen THEN 0 ELSE task[h]
    BY <1>1, <1>2, <2>1, TaskSet
  <2> QED BY <1>1, <2>2 DEF GatewayInv, OneGateway
<1>6. Types'
  <2>1. attempt' \in 0..1 /\ wpc' \in Places /\ gen' \in 0..made' /\ made' \in 0..MaxGens
    BY <1>1, <1>2, BridgeAssumption DEF Types, WorkerTypes, Places
  <2> QED BY <1>1, <1>2, <1>4, <1>5, <2>1
          DEF Types, QueueTypes, WorkerTypes, EngineTypes, OutTypes
<1>7. WorkerInv' /\ SubmittedInv'
  BY <1>1, <1>2, <1>3 DEF WorkerInv, SubmittedInv
<1>8. GatewayInv' /\ QueueInv'
  BY <1>1, <1>2, <1>4, <1>5, QueueKept DEF GatewayInv, OneGateway
<1> QED BY <1>6, <1>7, <1>8, TypesSplit DEF Placed

(* What a gateway writes changes its pipe alone.                            *)
LEMMA Written ==
  ASSUME Types, NEW g \in Gens, NEW t \in {"text", "end", "fail", "refuse"},
         NEW p \in 0..MaxPrompts, Write(g, t, p)
  PROVE  /\ pipe' \in [Gens -> Seq(Frames)]
         /\ In(pipe'[g]) = In(pipe[g]) \cup {[kind |-> t, of |-> p]}
         /\ EndsOnce(pipe[g]) /\ (t = "refuse" \/ \A f \in In(pipe[g]) : ~Closing(f))
              => EndsOnce(pipe'[g])
         /\ \A h \in Gens : h # g => pipe'[h] = pipe[h]
<1>1. PICK x \in Frames : x = [kind |-> t, of |-> p]
  BY DEF Frames
<1>2. pipe \in [Gens -> Seq(Frames)] /\ pipe[g] \in Seq(Frames)
  BY DEF Types, EngineTypes
<1>3. pipe' = [pipe EXCEPT ![g] = Append(pipe[g], x)]
  BY <1>1 DEF Write
<1>4. Append(pipe[g], x) \in Seq(Frames)
  BY <1>2, FrameAppended
<1>5. pipe'[g] = Append(pipe[g], x) /\ \A h \in Gens : h # g => pipe'[h] = pipe[h]
  BY <1>2, <1>3
<1>6. pipe' \in [Gens -> Seq(Frames)]
  BY <1>2, <1>3, <1>4
<1> QED BY <1>1, <1>2, <1>5, <1>6, FrameAppended

LEMMA FrameWritten ==
  ASSUME Types, NEW g \in Gens, NEW t \in {"text", "end", "fail", "refuse"},
         NEW p \in 0..MaxPrompts, Write(g, t, p),
         NEW x, x = [kind |-> t, of |-> p]
  PROVE  /\ In(pipe'[g]) = In(pipe[g]) \cup {x} /\ x.kind = t /\ x.of = p
         /\ \A h \in Gens : h # g => pipe'[h] = pipe[h]
<1>1. /\ In(pipe'[g]) = In(pipe[g]) \cup {[kind |-> t, of |-> p]}
      /\ \A h \in Gens : h # g => pipe'[h] = pipe[h]
  BY Written
<1> QED BY <1>1

(* Speak keeps Placed.                                                      *)
LEMMA SpeakPlaced == ASSUME Placed, NEW g \in Gens, Speak(g) PROVE Placed'
<1>1. Types /\ QueueInv /\ WorkerInv /\ SubmittedInv /\ GatewayInv
  BY TypesSplit DEF Placed
<1>2. /\ task[g] # 0 /\ task[g] \in 0..MaxPrompts /\ Write(g, "text", task[g])
      /\ UNCHANGED <<bridgeRest, result, dead, wire, history, up, task, finished>>
  BY <1>1 DEF Speak, Types, EngineTypes
<1>3. /\ pipe' \in [Gens -> Seq(Frames)]
      /\ In(pipe'[g]) = In(pipe[g]) \cup {[kind |-> "text", of |-> task[g]]}
      /\ \A h \in Gens : h # g => pipe'[h] = pipe[h]
  BY <1>1, <1>2, Written
<1>4. spoken' \in [Gens -> 0..MaxText]
  BY <1>1, BridgeAssumption DEF Speak, Types, EngineTypes
<1>5. Types'
  BY <1>1, <1>2, <1>3, <1>4
  DEF bridgeRest, Types, QueueTypes, WorkerTypes, EngineTypes, OutTypes
<1>6. GatewayInv'
  BY <1>1, <1>2, <1>3 DEF bridgeRest, GatewayInv, OneGateway
<1>7. WorkerInv' /\ SubmittedInv' /\ QueueInv'
  BY <1>1, <1>2, QueueKept DEF bridgeRest, WorkerInv, SubmittedInv
<1> QED BY <1>5, <1>6, <1>7, TypesSplit DEF Placed

(* EndTurn keeps Placed.                                                    *)
LEMMA EndTurnPlaced == ASSUME Placed, NEW g \in Gens, EndTurn(g) PROVE Placed'
<1>1. Types /\ QueueInv /\ WorkerInv /\ SubmittedInv /\ GatewayInv
  BY TypesSplit DEF Placed
<1>2. /\ task[g] # 0 /\ task[g] \in Prompts
      /\ task' = [task EXCEPT ![g] = 0]
      /\ UNCHANGED <<bridgeRest, result, dead, wire, history, up, spoken>>
      /\ finished' \in {finished, finished \cup {task[g]}}
  BY <1>1 DEF EndTurn, Types, EngineTypes, Prompts
<1>3. PICK t \in {"end", "fail"} : Write(g, t, task[g])
  BY DEF EndTurn
<1>4. /\ pipe' \in [Gens -> Seq(Frames)]
      /\ In(pipe'[g]) = In(pipe[g]) \cup {[kind |-> t, of |-> task[g]]}
      /\ \A h \in Gens : h # g => pipe'[h] = pipe[h]
  BY <1>1, <1>2, <1>3, Written DEF Prompts
<1>5. task' \in [Gens -> 0..MaxPrompts] /\ \A h \in Gens : task'[h] # 0 => task[h] # 0
  BY <1>1, <1>2, BridgeAssumption DEF Types, EngineTypes
<1>6. Types'
  BY <1>1, <1>2, <1>4, <1>5
  DEF bridgeRest, Types, QueueTypes, WorkerTypes, EngineTypes, OutTypes
<1>7. GatewayInv'
  BY <1>1, <1>2, <1>4, <1>5 DEF bridgeRest, GatewayInv, OneGateway
<1>8. WorkerInv' /\ SubmittedInv' /\ QueueInv'
  BY <1>1, <1>2, QueueKept DEF bridgeRest, WorkerInv, SubmittedInv
<1> QED BY <1>6, <1>7, <1>8, TypesSplit DEF Placed

(* Refuse keeps Placed.                                                     *)
LEMMA RefusePlaced == ASSUME Placed, NEW g \in Gens, Refuse(g) PROVE Placed'
<1>1. Types /\ QueueInv /\ WorkerInv /\ SubmittedInv /\ GatewayInv
  BY TypesSplit DEF Placed
<1>2. /\ Write(g, "refuse", 0) /\ 0 \in 0..MaxPrompts
      /\ UNCHANGED <<bridgeRest, result, dead, wire, history, up, task, spoken, finished>>
  BY BridgeAssumption DEF Refuse
<1>3. /\ pipe' \in [Gens -> Seq(Frames)]
      /\ In(pipe'[g]) = In(pipe[g]) \cup {[kind |-> "refuse", of |-> 0]}
      /\ \A h \in Gens : h # g => pipe'[h] = pipe[h]
  BY <1>1, <1>2, Written
<1>4. Types'
  BY <1>1, <1>2, <1>3
  DEF bridgeRest, Types, QueueTypes, WorkerTypes, EngineTypes, OutTypes
<1>5. GatewayInv'
  BY <1>1, <1>2, <1>3 DEF bridgeRest, GatewayInv, OneGateway
<1>6. WorkerInv' /\ SubmittedInv' /\ QueueInv'
  BY <1>1, <1>2, QueueKept DEF bridgeRest, WorkerInv, SubmittedInv
<1> QED BY <1>4, <1>5, <1>6, TypesSplit DEF Placed

(* Die keeps Placed.                                                        *)
LEMMA DiePlaced == ASSUME Placed, NEW g \in Gens, Die(g) PROVE Placed'
<1>1. Types /\ QueueInv /\ WorkerInv /\ SubmittedInv /\ GatewayInv
  BY TypesSplit DEF Placed
<1>2. /\ up' = up \ {g} /\ task' = [task EXCEPT ![g] = 0]
      /\ UNCHANGED <<bridgeRest, result, dead, wire, history, pipe, spoken, finished>>
  BY DEF Die
<1>3. /\ task' \in [Gens -> 0..MaxPrompts]
      /\ \A h \in Gens : task'[h] # 0 => h # g /\ task[h] # 0
  BY <1>1, <1>2, BridgeAssumption DEF Types, EngineTypes
<1>4. Types'
  BY <1>1, <1>2, <1>3
  DEF bridgeRest, Types, QueueTypes, WorkerTypes, EngineTypes, OutTypes
<1>5. GatewayInv'
  BY <1>1, <1>2, <1>3 DEF bridgeRest, GatewayInv, OneGateway
<1>6. WorkerInv' /\ SubmittedInv' /\ QueueInv'
  BY <1>1, <1>2, QueueKept DEF bridgeRest, WorkerInv, SubmittedInv
<1> QED BY <1>4, <1>5, <1>6, TypesSplit DEF Placed

(* What a reader takes is the first frame of its pipe.                      *)
Taken(g, f) ==
  /\ f \in Frames /\ In(pipe[g]) = {f} \cup In(pipe'[g])
  /\ pipe' \in [Gens -> Seq(Frames)]
  /\ \A h \in Gens : h # g => pipe'[h] = pipe[h]
  /\ EndsOnce(pipe[g]) =>
       /\ EndsOnce(pipe'[g])
       /\ Closing(f) => \A e \in In(pipe'[g]) : e.kind = "refuse"

(* What follows from the first frame: the event that is emitted, and how    *)
(* the turn that is waited for is ended, by a refusal at the prompt's cost. *)
Follows(g, f) ==
  /\ UNCHANGED <<bridgeRest, dead, up, task, spoken, finished>>
  /\ Translate(f)
  /\ result' \in {"no", "ok", "error", "gone"}
  /\ result' # result => Armed(g) /\ f.kind # "text"
  /\ f.kind = "end" /\ Armed(g) => result' = "ok"
  /\ f.kind \in {"fail", "refuse"} /\ Armed(g) => result' = "error"
  /\ spoiled' = IF f.kind = "refuse" /\ Armed(g)
                THEN spoiled \cup {cur} ELSE spoiled
  /\ overtaken' = IF f.kind \in {"end", "fail"} /\ wpc = "arm" /\ gen = g
                  THEN overtaken \cup {<<cur, g>>} ELSE overtaken

(* Read is the taking of a frame, and what follows from it.                 *)
LEMMA FrameRead ==
  ASSUME Types, NEW g \in Gens, Read(g)
  PROVE  \E f : Taken(g, f) /\ Follows(g, f)
<1>1. pipe \in [Gens -> Seq(Frames)] /\ pipe[g] \in Seq(Frames) /\ pipe[g] # <<>>
      /\ pipe' = [pipe EXCEPT ![g] = Tail(pipe[g])]
  BY DEF Types, EngineTypes, Read
<1>2. PICK f : f = Head(pipe[g])
  OBVIOUS
<1>3. /\ f \in Frames /\ Tail(pipe[g]) \in Seq(Frames)
      /\ In(pipe[g]) = {f} \cup In(Tail(pipe[g]))
      /\ EndsOnce(pipe[g]) =>
           /\ EndsOnce(Tail(pipe[g]))
           /\ Closing(f) => \A e \in In(Tail(pipe[g])) : e.kind = "refuse"
  BY <1>1, <1>2, FrameTaken
<1>4. pipe'[g] = Tail(pipe[g]) /\ \A h \in Gens : h # g => pipe'[h] = pipe[h]
  BY <1>1
<1>5. pipe' \in [Gens -> Seq(Frames)]
  BY <1>1, <1>3
<1>6. Taken(g, f)
  BY <1>3, <1>4, <1>5 DEF Taken
<1>7. Translate(f) /\ UNCHANGED <<bridgeRest, dead, up, task, spoken, finished>>
  BY <1>2 DEF Read
<1>8. /\ spoiled' = IF f.kind = "refuse" /\ Armed(g)
                    THEN spoiled \cup {cur} ELSE spoiled
      /\ overtaken' = IF f.kind \in {"end", "fail"} /\ wpc = "arm" /\ gen = g
                      THEN overtaken \cup {<<cur, g>>} ELSE overtaken
  BY <1>2 DEF Read
<1>9. /\ result' \in {"no", "ok", "error", "gone"}
      /\ result' # result => Armed(g) /\ f.kind # "text"
      /\ f.kind = "end" /\ Armed(g) => result' = "ok"
      /\ f.kind \in {"fail", "refuse"} /\ Armed(g) => result' = "error"
  <2>1. f.kind \in {"text", "end", "fail", "refuse"}
    BY <1>3 DEF Frames
  <2>2. result \in {"no", "ok", "error", "gone"}
    BY DEF Types, WorkerTypes
  <2>3. CASE f.kind = "text"
    <3>1. result' = result
      BY <1>2, <2>3 DEF Read
    <3> QED BY <2>2, <2>3, <3>1
  <2>4. CASE f.kind = "end"
    <3>1. FinishTurn(g, "ok")
      BY <1>2, <2>4 DEF Read
    <3> QED BY <2>2, <2>4, <3>1 DEF FinishTurn, Armed
  <2>5. CASE f.kind \in {"fail", "refuse"}
    <3>1. FinishTurn(g, "error")
      BY <1>2, <2>5 DEF Read
    <3> QED BY <2>2, <2>5, <3>1 DEF FinishTurn, Armed
  <2> QED BY <2>1, <2>3, <2>4, <2>5
<1>10. Follows(g, f)
  BY <1>7, <1>8, <1>9 DEF Follows
<1> QED BY <1>6, <1>10

(* What a reader makes of a frame: nothing, or an event of its prompt.      *)
LEMMA Translated ==
  ASSUME wire \in Seq(Events), NEW f \in Frames, Translate(f),
         f.kind # "refuse" => f.of \in Prompts
  PROVE  \/ wire' = wire
         \/ /\ f.kind # "refuse"
            /\ \E e \in Events : Emit(e) /\ e.of = f.of /\ e.type # "done"
<1>1. CASE f.kind = "text"
  <2>1. Emit(Event("text", f.of))
    BY <1>1 DEF Translate
  <2> QED BY <1>1, <2>1, EventTyped
<1>2. CASE f.kind = "fail"
  <2>1. PICK t \in {"error", "cut"} : Emit(Event(t, f.of))
    BY <1>2 DEF Translate, CutOff
  <2> QED BY <1>2, <2>1, EventTyped
<1>3. CASE f.kind # "text" /\ f.kind # "fail"
  BY <1>3 DEF Translate
<1> QED BY <1>1, <1>2, <1>3

(* Read keeps Placed.                                                       *)
LEMMA ReadPlaced == ASSUME Placed, NEW g \in Gens, Read(g) PROVE Placed'
<1>1. Types /\ QueueInv /\ WorkerInv /\ SubmittedInv /\ GatewayInv
  BY TypesSplit DEF Placed
<1>2. PICK f : Taken(g, f) /\ Follows(g, f)
  BY <1>1, FrameRead
<1>3. f.kind # "refuse" => f.of \in Prompts
  BY <1>1, <1>2 DEF Taken, GatewayInv, Frames, Prompts
<1>4. wire' \in Seq(Events)
  <2>1. wire \in Seq(Events) /\ Translate(f) /\ f \in Frames
    BY <1>1, <1>2 DEF Taken, Follows, Types, OutTypes
  <2> QED BY <1>3, <2>1, Translated, Emitted
<1>5. spoiled' \subseteq Prompts /\ overtaken' \subseteq Prompts \X Gens
  <2>1. Armed(g) \/ wpc = "arm" => cur \in Prompts
    BY <1>1 DEF Armed, WorkerInv, Types, WorkerTypes, Prompts
  <2>2. spoiled \subseteq Prompts /\ overtaken \subseteq Prompts \X Gens
    BY <1>1 DEF Types, OutTypes
  <2>3. wpc = "arm" => <<cur, g>> \in Prompts \X Gens
    BY <2>1
  <2> QED BY <1>2, <2>1, <2>2, <2>3 DEF Follows
<1>6. Types'
  BY <1>1, <1>2, <1>4, <1>5
  DEF Taken, Follows, bridgeRest, Types, QueueTypes, WorkerTypes, EngineTypes, OutTypes
<1>7. GatewayInv'
  BY <1>1, <1>2 DEF Taken, Follows, bridgeRest, GatewayInv, OneGateway
<1>8. WorkerInv' /\ SubmittedInv' /\ QueueInv'
  BY <1>1, <1>2, QueueKept DEF Follows, bridgeRest, WorkerInv, SubmittedInv
<1> QED BY <1>6, <1>7, <1>8, TypesSplit DEF Placed

(* Eof keeps Placed.                                                        *)
LEMMA EofPlaced == ASSUME Placed, NEW g \in Gens, Eof(g) PROVE Placed'
<1>1. Types /\ QueueInv /\ WorkerInv /\ SubmittedInv /\ GatewayInv
  BY TypesSplit DEF Placed
<1>2. /\ UNCHANGED <<bridgeRest, wire, history, engVars>>
      /\ dead' \subseteq 1..made /\ result' \in {"no", "ok", "error", "gone"}
  BY <1>1 DEF Eof, FinishTurn, Armed, Types, WorkerTypes, EngineTypes
<1>3. Types'
  BY <1>1, <1>2
  DEF bridgeRest, engVars, Types, QueueTypes, WorkerTypes, EngineTypes, OutTypes
<1>4. WorkerInv' /\ SubmittedInv' /\ GatewayInv' /\ QueueInv'
  BY <1>1, <1>2, QueueKept
  DEF bridgeRest, engVars, WorkerInv, SubmittedInv, GatewayInv, OneGateway
<1> QED BY <1>3, <1>4, TypesSplit DEF Placed

(* Every step, and stuttering, keeps Placed.                                *)
LEMMA NextPlaced == ASSUME Placed, [Next]_vars PROVE Placed'
<1>1. CASE Next
  BY <1>1, PromptPlaced, PrewarmPlaced, TakePromptPlaced, StartPlaced, QuietStepsPlaced,
     SubmitPlaced, ArmPlaced, RaisedPlaced, SpeakPlaced, EndTurnPlaced, RefusePlaced, DiePlaced,
     ReadPlaced, EofPlaced
  DEF Next, Worker, Gateway, Reader
<1>2. CASE UNCHANGED vars
  <2>1. TypeOK'
    BY <1>2 DEF vars, engVars, Placed, TypeOK
  <2>2. QueueInv' /\ WorkerInv' /\ SubmittedInv' /\ GatewayInv'
    BY <1>2, QueueKept
    DEF vars, engVars, Placed, WorkerInv, SubmittedInv, GatewayInv, OneGateway
  <2> QED BY <2>1, <2>2 DEF Placed
<1> QED BY <1>1, <1>2

(* Wherever the worker is, it has what it needs there, and its gateway is   *)
(* the only one that runs.                                                  *)
THEOREM AlwaysPlaced == Spec => []Placed
<1>1. Init => Placed
  BY InitPlaced
<1>2. Placed /\ [Next]_vars => Placed'
  BY NextPlaced
<1> QED BY <1>1, <1>2, PTL DEF Spec

(* The state is typed and at most one gateway of an agent runs, whatever    *)
(* dies, is retried or is refused (vertus_server.py 240-291).               *)
THEOREM BridgeConsistent == Spec => []Consistent
<1>1. Placed => Consistent
  BY DEF Placed, GatewayInv, Consistent
<1> QED BY <1>1, AlwaysPlaced, PTL

-----------------------------------------------------------------------------
(* Second layer: what is left in the pipes.                                 *)

(* The initial state satisfies Piped.                                       *)
LEMMA InitPiped == Init => Piped
<1> SUFFICES ASSUME Init PROVE Piped
  OBVIOUS
<1>1. \A g \in Gens : task[g] = 0 /\ pipe[g] = <<>> /\ In(pipe[g]) = {} /\ EndsOnce(pipe[g])
  BY DEF Init, In, EndsOnce
<1>2. spoiled = {}
  BY DEF Init
<1> QED BY <1>1, <1>2
        DEF Piped, TaskInv, OwnFrames, OldFrames, LastInv, NewInv, SpoiledInv

(* A step that touches none of this.                                        *)
LEMMA SamePiped ==
  ASSUME Piped, UNCHANGED <<pipe, task, gen, made, spoiled, cur, wpc, result>>
  PROVE  Piped'
  BY DEF Piped, TaskInv, OwnFrames, OldFrames, LastInv, NewInv, SpoiledInv, Current,
         Interrupted

(* While no turn is in progress and none was interrupted, the worker may go *)
(* to another prompt or another session.                                    *)
MovesOn ==
  /\ UNCHANGED <<pipe, spoiled>>
  /\ \A g \in Gens : task'[g] = 0
  /\ cur' \in Nat /\ cur <= cur'
  /\ made' \in Nat /\ made <= made'
  /\ gen' = gen \/ gen' = 0 \/ gen' > made

(* Then the pipes hold what is interrupted or nothing.                      *)
LEMMA IdlePiped ==
  ASSUME Types, Piped, ~Current, ~Interrupted, MovesOn PROVE Piped'
<1>1. TaskInv /\ OwnFrames /\ OldFrames /\ LastInv /\ NewInv /\ SpoiledInv
  BY DEF Piped
<1>2. made \in Nat /\ cur \in Nat /\ \A g \in Gens : g \in Nat \ {0}
  BY BridgeAssumption DEF Types, WorkerTypes, Gens
<1>3. ASSUME NEW g \in Gens, NEW f \in In(pipe[g]), f.kind # "refuse" PROVE g # gen'
  <2>1. CASE gen' = gen
    BY <1>1, <1>3, <2>1 DEF OwnFrames
  <2>2. CASE gen' = 0
    BY <1>2, <2>2
  <2>3. CASE gen' > made
    <3>1. g > made => In(pipe[g]) = {}
      BY <1>1 DEF NewInv, In
    <3> QED BY <1>3, <2>3, <3>1
  <2> QED BY <2>1, <2>2, <2>3 DEF MovesOn
<1>4. ASSUME NEW g \in Gens, NEW f \in In(pipe[g]), f.kind # "refuse"
      PROVE  f.of \in spoiled
  BY <1>1, <1>4 DEF OwnFrames, OldFrames
<1>5. OwnFrames' /\ OldFrames'
  BY <1>3, <1>4 DEF OwnFrames, OldFrames, MovesOn
<1>6. TaskInv' /\ LastInv'
  BY <1>1 DEF TaskInv, LastInv, MovesOn
<1>7. NewInv'
  <2>1. ASSUME NEW g \in Gens, g > made' PROVE g > made
    BY <1>2, <2>1 DEF MovesOn
  <2> QED BY <1>1, <2>1 DEF NewInv, MovesOn
<1>8. SpoiledInv'
  <2>1. 1..cur \subseteq 1..cur'
    BY <1>2 DEF MovesOn
  <2> QED BY <1>1, <2>1 DEF SpoiledInv, MovesOn
<1> QED BY <1>5, <1>6, <1>7, <1>8 DEF Piped

(* Without a turn no gateway has a task.                                    *)
LEMMA NoTask ==
  ASSUME Piped, ~Current, ~Interrupted PROVE \A g \in Gens : task[g] = 0
  BY DEF Piped, TaskInv

(* These are the steps of the worker between turns.                         *)
LEMMA WorkerMovesPiped ==
  ASSUME Placed, Piped,
         Prewarm \/ TakePrompt \/ Start \/ Expand \/ Ran \/ Done \/ Error
  PROVE  Piped'
<1>1. Types /\ QueueInv /\ WorkerInv
  BY TypesSplit DEF Placed
<1>2. wpc \notin {"arm", "wait", "raised"} /\ UNCHANGED <<pipe, spoiled, task>>
  BY DEF Prewarm, TakePrompt, Start, Expand, Ran, Done, Error, Finish, workRest, engVars
<1>3. ~Current /\ ~Interrupted
  BY <1>2 DEF Current, Interrupted
<1>4. \A g \in Gens : task'[g] = 0
  BY <1>2, <1>3, NoTask
<1>5. cur \in Nat /\ made \in Nat /\ gen \in Nat
  BY <1>1 DEF Types, WorkerTypes
<1>6. cur' \in Nat /\ cur <= cur'
  <2>1. CASE TakePrompt
    <3>1. queue # <<>> /\ queue \in Seq(Prompts) /\ cur' = Head(queue)
      BY <1>1, <2>1 DEF TakePrompt, Types, QueueTypes
    <3>2. 1 \in DOMAIN queue /\ Head(queue) = queue[1]
      BY <3>1
    <3> QED BY <1>1, <1>5, <3>1, <3>2 DEF QueueInv
  <2>2. CASE cur' = cur
    BY <1>5, <2>2
  <2> QED BY <2>1, <2>2 DEF Prewarm, Start, Expand, Ran, Done, Error, Finish
<1>7. made' \in Nat /\ made <= made' /\ (gen' = gen \/ gen' = 0 \/ gen' > made)
  <2>1. CASE NewSession
    BY <1>5, <2>1 DEF NewSession
  <2>2. CASE made' = made /\ gen' = gen
    BY <1>5, <2>2
  <2> QED BY <2>1, <2>2 DEF Prewarm, TakePrompt, Start, Expand, Ran, Done, Error, Finish
<1>8. MovesOn
  BY <1>2, <1>4, <1>6, <1>7 DEF MovesOn
<1> QED BY <1>1, <1>3, <1>8, IdlePiped

(* Submit keeps Piped.                                                      *)
LEMMA SubmitPiped == ASSUME Placed, Piped, Submit PROVE Piped'
<1>1. Types /\ WorkerInv /\ GatewayInv
  BY TypesSplit DEF Placed
<1>2. wpc = "submit" /\ UNCHANGED <<pipe, spoiled, cur, gen, made>>
  BY DEF Submit
<1>3. ~Current /\ ~Interrupted
  BY <1>2 DEF Current, Interrupted
<1>4. \A g \in Gens : task[g] = 0
  BY <1>3, NoTask
<1>5. cur \in 0..MaxPrompts /\ made \in Nat
  BY <1>1 DEF Types, WorkerTypes
<1>6. CASE task' = task
  <2>1. MovesOn
    BY <1>2, <1>4, <1>5, <1>6 DEF MovesOn
  <2> QED BY <1>1, <1>3, <2>1, IdlePiped
<1>7. CASE wpc' = "arm" /\ task' = [task EXCEPT ![gen] = cur]
  <2>1. TaskInv /\ OwnFrames /\ OldFrames /\ LastInv /\ NewInv /\ SpoiledInv
    BY DEF Piped
  <2>2. Current'
    BY <1>7 DEF Current
  <2>3. \A h \in Gens : task'[h] = IF h = gen THEN cur ELSE task[h]
    BY <1>1, <1>5, <1>7, TaskSet
  <2>4. TaskInv'
    BY <1>2, <1>4, <2>2, <2>3 DEF TaskInv
  <2>5. \A f \in In(pipe[gen]) : gen \in Gens => ~Closing(f)
    BY <1>3, <2>1 DEF OwnFrames, Closing
  <2>6. LastInv'
    BY <1>2, <1>4, <2>1, <2>3, <2>5 DEF LastInv
  <2>7. OwnFrames' /\ OldFrames' /\ NewInv' /\ SpoiledInv'
    BY <1>2, <1>3, <2>1 DEF OwnFrames, OldFrames, NewInv, SpoiledInv
  <2> QED BY <2>4, <2>6, <2>7 DEF Piped
<1> QED BY <1>6, <1>7 DEF Submit

(* Arm keeps Piped: if the reader is through, nothing of the turn is left.  *)
LEMMA ArmPiped == ASSUME Placed, Piped, DeadInv, Arm PROVE Piped'
<1>1. Types /\ GatewayInv /\ TaskInv /\ OwnFrames /\ OldFrames /\ LastInv /\ NewInv /\ SpoiledInv
  BY TypesSplit DEF Placed, Piped
<1>2. /\ wpc = "arm" /\ wpc' = "wait" /\ UNCHANGED <<pipe, task, gen, made, spoiled, cur>>
      /\ result' = IF gen \in dead THEN "gone" ELSE "no"
  BY DEF Arm, workRest
<1>3. OldFrames' /\ LastInv' /\ NewInv' /\ SpoiledInv'
  BY <1>1, <1>2 DEF OldFrames, LastInv, NewInv, SpoiledInv
<1>4. CASE gen \notin dead
  <2>1. Current'
    BY <1>2, <1>4 DEF Current
  <2> QED BY <1>1, <1>2, <1>3, <2>1 DEF Piped, TaskInv, OwnFrames
<1>5. CASE gen \in dead
  <2>1. gen \notin up /\ (gen \in Gens => In(pipe[gen]) = {})
    BY <1>5 DEF DeadInv, In
  <2>2. \A g \in Gens : task[g] = 0
    BY <1>1, <2>1 DEF GatewayInv, OneGateway
  <2> QED BY <1>2, <1>3, <2>1, <2>2 DEF Piped, TaskInv, OwnFrames
<1> QED BY <1>4, <1>5

(* Wait keeps Piped.                                                        *)
LEMMA WaitPiped == ASSUME Placed, Piped, Wait PROVE Piped'
<1>1. Types
  BY TypesSplit DEF Placed
<1>2. /\ wpc = "wait" /\ result # "no" /\ result' = result
      /\ UNCHANGED <<workRest, cur, gen, made>>
      /\ result # "ok" => wpc' = "raised"
  BY DEF Wait
<1>3. ~Current
  BY <1>2 DEF Current
<1>4. CASE Interrupted
  <2>1. Interrupted'
    BY <1>2, <1>4 DEF Interrupted, workRest
  <2> QED BY <1>2, <1>3, <1>4, <2>1
          DEF workRest, Piped, TaskInv, OwnFrames, OldFrames, LastInv, NewInv, SpoiledInv
<1>5. CASE ~Interrupted
  <2>1. \A g \in Gens : task[g] = 0
    BY <1>3, <1>5, NoTask
  <2>2. MovesOn
    BY <1>1, <1>2, <2>1 DEF MovesOn, workRest, Types, WorkerTypes
  <2> QED BY <1>1, <1>3, <1>5, <2>2, IdlePiped
<1> QED BY <1>4, <1>5

(* Raised keeps Piped.                                                      *)
LEMMA RaisedPiped == ASSUME Placed, Piped, Raised PROVE Piped'
<1>1. Types /\ GatewayInv
  BY TypesSplit DEF Placed
<1>2. /\ wpc = "raised" /\ gen' = 0 /\ task' = [task EXCEPT ![gen] = 0]
      /\ UNCHANGED <<pipe, cur, made, spoiled>>
  BY DEF Raised
<1>3. ~Current
  BY <1>2 DEF Current
<1>4. \A g \in Gens : task'[g] = 0
  <2>1. 0 \in 0..MaxPrompts
    BY BridgeAssumption
  <2>2. \A h \in Gens : task'[h] = IF h = gen THEN 0 ELSE task[h]
    BY <1>1, <1>2, <2>1, TaskSet
  <2> QED BY <1>1, <2>2 DEF GatewayInv, OneGateway
<1>5. TaskInv /\ OwnFrames /\ OldFrames /\ LastInv /\ NewInv /\ SpoiledInv
  BY DEF Piped
<1>6. \A g \in Gens : g # 0
  BY DEF Gens
<1>7. OwnFrames'
  BY <1>2, <1>6 DEF OwnFrames
<1>8. OldFrames'
  BY <1>2, <1>3, <1>5 DEF OwnFrames, OldFrames, Interrupted
<1>9. TaskInv' /\ LastInv' /\ NewInv' /\ SpoiledInv'
  BY <1>2, <1>4, <1>5 DEF TaskInv, LastInv, NewInv, SpoiledInv
<1> QED BY <1>7, <1>8, <1>9 DEF Piped

(* A gateway with a task is the worker's, and exists.                       *)
LEMMA WorkingGateway ==
  ASSUME Placed, Piped, NEW g \in Gens, task[g] # 0
  PROVE  /\ g = gen /\ task[g] = cur /\ (Current \/ Interrupted) /\ ~(g > made)
         /\ \A f \in In(pipe[g]) : ~Closing(f)
<1>1. g \in up /\ up \subseteq {gen} /\ Types
  BY TypesSplit DEF Placed, GatewayInv, OneGateway
<1>2. ~(g > made)
  BY <1>1 DEF Types, WorkerTypes, EngineTypes
<1> QED BY <1>1, <1>2 DEF Piped, TaskInv, LastInv

(* A gateway that runs writes a frame of its task, or a refusal.            *)
LEMMA WritesPiped ==
  ASSUME Placed, Piped, NEW g \in Gens, ~(g > made),
         NEW t \in {"text", "end", "fail", "refuse"}, NEW p \in 0..MaxPrompts,
         Write(g, t, p), t = "refuse" \/ (task[g] # 0 /\ p = task[g]),
         UNCHANGED <<gen, made, spoiled, cur, wpc, result>>,
         \A h \in Gens : task'[h] # 0 => task'[h] = task[h],
         t \in {"end", "fail"} => task'[g] = 0
  PROVE  Piped'
<1>1. Types /\ TaskInv /\ OwnFrames /\ OldFrames /\ LastInv /\ NewInv /\ SpoiledInv
  BY TypesSplit DEF Placed, Piped
<1>2. PICK x : x = [kind |-> t, of |-> p]
  OBVIOUS
<1>3. /\ In(pipe'[g]) = In(pipe[g]) \cup {x} /\ x.kind = t /\ x.of = p
      /\ \A h \in Gens : h # g => pipe'[h] = pipe[h]
  BY TypesSplit, <1>2, FrameWritten DEF Placed
<1>4. t # "refuse" =>
        /\ g = gen /\ p = cur /\ (Current \/ Interrupted)
        /\ \A f \in In(pipe[g]) : ~Closing(f)
  BY WorkingGateway
<1>5. EndsOnce(pipe'[g])
  BY <1>1, <1>4, Written DEF LastInv
<1>6. TaskInv' /\ SpoiledInv'
  BY <1>1 DEF TaskInv, SpoiledInv, Current, Interrupted
<1>7. OwnFrames'
  BY <1>1, <1>3, <1>4 DEF OwnFrames, Current, Interrupted
<1>8. OldFrames'
  BY <1>1, <1>3, <1>4 DEF OldFrames
<1>9. LastInv'
  <2>1. ASSUME NEW h \in Gens, task'[h] # 0, NEW f \in In(pipe'[h]) PROVE ~Closing(f)
    <3>1. CASE f \in In(pipe[h])
      BY <1>1, <2>1, <3>1 DEF LastInv
    <3>2. CASE h = g /\ f = x
      BY <1>3, <2>1, <3>2 DEF Closing
    <3> QED BY <1>3, <2>1, <3>1, <3>2
  <2> QED BY <1>1, <1>3, <1>5, <2>1 DEF LastInv
<1>10. NewInv'
  BY <1>1, <1>3 DEF NewInv
<1> QED BY <1>6, <1>7, <1>8, <1>9, <1>10 DEF Piped

(* Gateway keeps Piped.                                                     *)
LEMMA GatewayPiped == ASSUME Placed, Piped, NEW g \in Gens, Gateway(g) PROVE Piped'
<1>1. Types
  BY TypesSplit DEF Placed
<1>2. task[g] \in 0..MaxPrompts /\ 0 \in 0..MaxPrompts
  BY <1>1, BridgeAssumption DEF Types, EngineTypes
<1>3. CASE Speak(g)
  <2>1. /\ task[g] # 0 /\ Write(g, "text", task[g]) /\ task' = task
        /\ UNCHANGED <<gen, made, spoiled, cur, wpc, result>>
    BY <1>3 DEF Speak, bridgeRest
  <2> QED BY <1>2, <2>1, WorkingGateway, WritesPiped
<1>4. CASE EndTurn(g)
  <2>1. /\ task[g] # 0 /\ task' = [task EXCEPT ![g] = 0]
        /\ UNCHANGED <<gen, made, spoiled, cur, wpc, result>>
    BY <1>4 DEF EndTurn, bridgeRest
  <2>2. PICK t \in {"end", "fail"} : Write(g, t, task[g])
    BY <1>4 DEF EndTurn
  <2>3. task'[g] = 0 /\ \A h \in Gens : task'[h] # 0 => task'[h] = task[h]
    BY <1>1, <1>2, <2>1, TaskSet
  <2> QED BY <1>2, <2>1, <2>2, <2>3, WorkingGateway, WritesPiped
<1>5. CASE Refuse(g)
  <2>1. /\ g \in up /\ Write(g, "refuse", 0) /\ task' = task
        /\ UNCHANGED <<gen, made, spoiled, cur, wpc, result>>
    BY <1>5 DEF Refuse, bridgeRest
  <2>2. ~(g > made)
    BY <1>1, <2>1 DEF Types, WorkerTypes, EngineTypes
  <2> QED BY <1>2, <2>1, <2>2, WritesPiped
<1>6. CASE Die(g)
  <2>1. /\ task' = [task EXCEPT ![g] = 0]
        /\ UNCHANGED <<pipe, gen, made, spoiled, cur, wpc, result>>
    BY <1>6 DEF Die, bridgeRest
  <2>2. \A h \in Gens : task'[h] # 0 => task'[h] = task[h]
    BY <1>1, <1>2, <2>1, TaskSet
  <2> QED BY <2>1, <2>2
          DEF Piped, TaskInv, OwnFrames, OldFrames, LastInv, NewInv, SpoiledInv, Current,
              Interrupted
<1> QED BY <1>3, <1>4, <1>5, <1>6 DEF Gateway

(* When the turn in progress ends without a refusal, nothing of it is left. *)
LEMMA TurnOver ==
  ASSUME Placed, Piped, Current, NEW g \in Gens, g = gen, task[g] = 0,
         UNCHANGED <<gen, made, cur, task, spoiled>>,
         \A f \in In(pipe'[g]) : f.kind = "refuse",
         EndsOnce(pipe'[g]),
         g > made => pipe'[g] = <<>>,
         \A h \in Gens : h # g => pipe'[h] = pipe[h]
  PROVE  Piped'
<1>1. TaskInv /\ OwnFrames /\ OldFrames /\ LastInv /\ NewInv /\ SpoiledInv
  BY DEF Piped
<1>2. \A h \in Gens : task[h] = 0
  BY WorkingGateway
<1>3. TaskInv' /\ LastInv'
  BY <1>1, <1>2 DEF TaskInv, LastInv
<1>4. OwnFrames' /\ OldFrames' /\ NewInv' /\ SpoiledInv'
  BY <1>1 DEF OwnFrames, OldFrames, NewInv, SpoiledInv
<1> QED BY <1>3, <1>4 DEF Piped

(* A turn that is recorded is in progress.                                  *)
LEMMA ArmedCurrent == ASSUME NEW g, Armed(g) PROVE Current /\ gen = g
  BY DEF Armed, Current

(* Read keeps Piped.                                                        *)
LEMMA ReadPiped == ASSUME Placed, Piped, NEW g \in Gens, Read(g) PROVE Piped'
<1>1. Types /\ TaskInv /\ OwnFrames /\ OldFrames /\ LastInv /\ NewInv /\ SpoiledInv
  BY TypesSplit DEF Placed, Piped
<1>2. PICK f : Taken(g, f) /\ Follows(g, f)
  BY <1>1, FrameRead
<1>3. UNCHANGED <<gen, made, cur, wpc, task>>
  BY <1>2 DEF Follows, bridgeRest
<1>4. /\ \A h \in Gens : In(pipe'[h]) \subseteq In(pipe[h])
      /\ \A h \in Gens : EndsOnce(pipe'[h])
      /\ ~(g > made)
  <2>1. g > made => In(pipe[g]) = {}
    BY <1>1 DEF NewInv, In
  <2> QED BY <1>1, <1>2, <2>1 DEF Taken, LastInv
<1>5. LastInv' /\ NewInv'
  BY <1>1, <1>2, <1>3, <1>4 DEF LastInv, NewInv, Taken
<1>6. CASE result' = result
  <2>1. spoiled' = spoiled
    BY <1>2, <1>6 DEF Follows, Armed
  <2>2. TaskInv' /\ SpoiledInv'
    BY <1>1, <1>3, <1>6, <2>1 DEF TaskInv, SpoiledInv, Current, Interrupted
  <2>3. OwnFrames' /\ OldFrames'
    BY <1>1, <1>3, <1>4, <1>6, <2>1 DEF OwnFrames, OldFrames, Current, Interrupted
  <2> QED BY <1>5, <2>2, <2>3 DEF Piped
<1>7. CASE result' # result /\ f.kind = "refuse"
  <2>1. result' = "error" /\ Current /\ spoiled' = spoiled \cup {cur}
    BY <1>2, <1>7, ArmedCurrent DEF Follows
  <2>2. Interrupted'
    BY <1>2, <1>3, <1>7, <2>1 DEF Follows, Armed, Interrupted
  <2>3. TaskInv' /\ OldFrames'
    BY <1>1, <1>3, <1>4, <2>1, <2>2 DEF TaskInv, OldFrames
  <2>4. OwnFrames'
    BY <1>1, <1>3, <1>4, <2>2 DEF OwnFrames
  <2>5. SpoiledInv'
    <3>1. cur \in 1..cur
      <4>1. cur \in Nat /\ cur # 0
        BY <1>1, <2>1 DEF Types, WorkerTypes, Current, Placed, WorkerInv
      <4> QED BY <4>1
    <3> QED BY <1>1, <1>3, <2>1, <3>1 DEF SpoiledInv
  <2> QED BY <1>5, <2>3, <2>4, <2>5 DEF Piped
<1>8. CASE result' # result /\ f.kind # "refuse"
  <2>1. Current /\ gen = g /\ spoiled' = spoiled /\ Closing(f)
    BY <1>2, <1>8, ArmedCurrent DEF Follows, Taken, Frames, Closing
  <2>2. task[g] = 0
    BY <1>1, <1>2, <2>1 DEF LastInv, Taken
  <2>3. \A e \in In(pipe'[g]) : e.kind = "refuse"
    BY <1>1, <1>2, <2>1 DEF Taken, LastInv
  <2>4. \A h \in Gens : h # g => pipe'[h] = pipe[h]
    BY <1>2 DEF Taken
  <2> QED BY <1>3, <1>4, <2>1, <2>2, <2>3, <2>4, TurnOver
<1> QED BY <1>6, <1>7, <1>8

(* Eof keeps Piped.                                                         *)
LEMMA EofPiped == ASSUME Placed, Piped, NEW g \in Gens, Eof(g) PROVE Piped'
<1>1. /\ g \notin up /\ pipe[g] = <<>> /\ FinishTurn(g, "gone")
      /\ UNCHANGED <<bridgeRest, spoiled, engVars>>
  BY DEF Eof
<1>2. CASE result' = result
  BY <1>1, <1>2, SamePiped DEF bridgeRest, engVars
<1>3. CASE result' # result
  <2>1. Current /\ gen = g
    BY <1>1, <1>3, ArmedCurrent DEF FinishTurn
  <2>2. task[g] = 0
    BY <1>1 DEF Placed, GatewayInv
  <2>3. In(pipe[g]) = {} /\ EndsOnce(pipe[g])
    BY <1>1 DEF In, EndsOnce
  <2>4. UNCHANGED <<gen, made, cur, task, spoiled, pipe>>
    BY <1>1 DEF bridgeRest, engVars
  <2> QED BY <1>1, <2>1, <2>2, <2>3, <2>4, TurnOver
<1> QED BY <1>2, <1>3

(* Every step, and stuttering, keeps Piped.                                 *)
LEMMA NextPiped == ASSUME Placed, Piped, DeadInv, [Next]_vars PROVE Piped'
<1>1. CASE Prompt
  BY <1>1, SamePiped DEF Prompt, engVars
<1>2. CASE Worker
  BY <1>2, WorkerMovesPiped, SubmitPiped, ArmPiped, WaitPiped, RaisedPiped DEF Worker
<1>3. CASE \E g \in Gens : Gateway(g) \/ Reader(g)
  BY <1>3, GatewayPiped, ReadPiped, EofPiped DEF Reader
<1>4. CASE UNCHANGED vars
  BY <1>4, SamePiped DEF vars, engVars
<1> QED BY <1>1, <1>2, <1>3, <1>4 DEF Next

(* Every step, and stuttering, keeps DeadInv.                               *)
LEMMA NextDead == ASSUME Placed, DeadInv, [Next]_vars PROVE DeadInv'
<1>1. Types /\ GatewayInv
  BY TypesSplit DEF Placed
<1>2. /\ dead \subseteq 1..made /\ made \in Nat /\ pipe \in [Gens -> Seq(Frames)]
      /\ \A g \in Gens : task[g] # 0 => g \in up
  BY <1>1 DEF Types, WorkerTypes, EngineTypes, GatewayInv
<1>3. CASE UNCHANGED <<gen, up, dead, pipe>>
  BY <1>3 DEF DeadInv
<1>4. CASE UNCHANGED <<dead, pipe>> /\ NewSession
  <2>1. gen' = made + 1 /\ gen' \notin dead'
    BY <1>2, <1>4 DEF NewSession
  <2> QED BY <2>1 DEF DeadInv
<1>5. CASE Raised
  <2>1. gen' = 0 /\ gen' \notin up' /\ 0 \notin Gens
    BY <1>1, <1>5 DEF Raised, GatewayInv, OneGateway, Gens
  <2> QED BY <2>1 DEF DeadInv
<1>6. ASSUME NEW g \in Gens, Gateway(g) PROVE DeadInv'
  <2>1. UNCHANGED <<gen, dead>> /\ up' \subseteq up
    BY <1>6 DEF Gateway, Speak, EndTurn, Refuse, Die, bridgeRest
  <2>2. CASE g = gen /\ gen \in dead
    <3>1. g \notin up
      BY <2>2 DEF DeadInv
    <3> QED BY <1>2, <1>6, <3>1 DEF Gateway, Speak, EndTurn, Refuse, Die
  <2>3. CASE ~(g = gen /\ gen \in dead)
    <3>1. \A h \in Gens : h # g => pipe'[h] = pipe[h]
      BY <1>2, <1>6 DEF Gateway, Speak, EndTurn, Refuse, Die, Write
    <3> QED BY <2>1, <2>3, <3>1 DEF DeadInv
  <2> QED BY <2>2, <2>3
<1>7. ASSUME NEW g \in Gens, Read(g) PROVE DeadInv'
  <2>1. /\ UNCHANGED <<gen, dead, up>> /\ pipe[g] # <<>>
        /\ \A h \in Gens : h # g => pipe'[h] = pipe[h]
    BY <1>2, <1>7 DEF Read, bridgeRest
  <2> QED BY <2>1 DEF DeadInv
<1>8. ASSUME NEW g \in Gens, Eof(g) PROVE DeadInv'
  BY <1>8 DEF Eof, DeadInv, bridgeRest, engVars
<1>9. CASE Worker /\ ~Raised
  <2>1. UNCHANGED <<dead, pipe>> /\ (UNCHANGED <<gen, up>> \/ NewSession)
    BY <1>9 DEF Worker, Prewarm, TakePrompt, Start, Expand, Submit, Arm, Wait, Ran, Done,
                Error, Finish, workRest, engVars
  <2> QED BY <1>3, <1>4, <2>1
<1>10. CASE Prompt \/ UNCHANGED vars
  BY <1>3, <1>10 DEF Prompt, engVars, vars
<1> QED BY <1>5, <1>6, <1>7, <1>8, <1>9, <1>10 DEF Next, Reader

(* Nothing of a prompt is left behind when the worker goes on, but for what *)
(* a refusal has interrupted.                                               *)
THEOREM AlwaysPiped == Spec => [](Placed /\ Piped /\ DeadInv)
<1>1. Init => Placed /\ Piped /\ DeadInv
  BY InitPlaced, InitPiped DEF Init, DeadInv
<1>2. Placed /\ Piped /\ DeadInv /\ [Next]_vars => (Placed /\ Piped /\ DeadInv)'
  BY NextPlaced, NextPiped, NextDead
<1> QED BY <1>1, <1>2, PTL DEF Spec

-----------------------------------------------------------------------------
(* Third layer: the order of the events, and what becomes of a prompt that  *)
(* an engine has finished.                                                  *)

Ordered == WireInv /\ Serialized

(* The same events, for the same prompt or the next.                        *)
LEMMA WireKept ==
  ASSUME Placed, Ordered, wire' = wire, spoiled \subseteq spoiled',
         \/ cur' = cur /\ (wpc = "take" => wpc' = "take")
         \/ cur' = cur + 1
  PROVE  Ordered'
<1>1. cur \in Nat /\ \A k \in DOMAIN wire : wire[k].of \in Nat
  <2>1. wire \in Seq(Events) /\ cur \in Nat
    BY TypesSplit DEF Placed, Types, WorkerTypes, OutTypes
  <2>2. \A k \in DOMAIN wire : wire[k] \in Events
    BY <2>1
  <2> QED BY <2>1, <2>2 DEF Events, Prompts
<1>2. WireInv'
  <2>1. CASE cur' = cur /\ (wpc = "take" => wpc' = "take")
    BY <2>1 DEF Ordered, WireInv
  <2>2. CASE cur' = cur + 1
    BY <1>1, <2>2 DEF Ordered, WireInv
  <2> QED BY <2>1, <2>2
<1>3. Serialized'
  BY DEF Ordered, Serialized
<1> QED BY <1>2, <1>3 DEF Ordered

(* One more event, of the prompt in progress or of an interrupted one.      *)
LEMMA WireGrows ==
  ASSUME Placed, Ordered, NEW e \in Events, Emit(e), UNCHANGED <<spoiled, cur>>,
         e.of <= cur, e.of \in spoiled \/ (e.of = cur /\ wpc # "take"),
         e.type = "done" => wpc' = "take",
         wpc = "take" => wpc' = "take"
  PROVE  Ordered'
<1>1. wire \in Seq(Events) /\ cur \in Nat
  BY TypesSplit DEF Placed, Types, WorkerTypes, OutTypes
<1>2. \A k \in DOMAIN wire : wire[k].of \in Nat
  <2>1. \A k \in DOMAIN wire : wire[k] \in Events
    BY <1>1
  <2> QED BY <2>1 DEF Events, Prompts
<1>3. PICK n \in Nat :
        /\ DOMAIN wire' = DOMAIN wire \cup {n} /\ wire'[n] = e
        /\ \A k \in DOMAIN wire : wire'[k] = wire[k] /\ k < n /\ k \in Nat
  <2>1. /\ Len(wire) \in Nat /\ DOMAIN wire = 1..Len(wire)
        /\ DOMAIN wire' = DOMAIN wire \cup {Len(wire) + 1}
        /\ \A k \in DOMAIN wire : wire'[k] = wire[k] /\ k < Len(wire) + 1
        /\ wire'[Len(wire) + 1] = e
    BY <1>1, Emitted
  <2>2. PICK n \in Nat : n = Len(wire) + 1
    BY <2>1
  <2>3. DOMAIN wire' = DOMAIN wire \cup {n} /\ wire'[n] = e
    BY <2>1, <2>2
  <2>4. \A k \in DOMAIN wire : wire'[k] = wire[k] /\ k < n /\ k \in Nat
    BY <2>1, <2>2
  <2> QED BY <2>3, <2>4
<1>4. WireInv'
  BY <1>3 DEF Ordered, WireInv
<1>5. ASSUME NEW j \in DOMAIN wire', NEW k \in DOMAIN wire', j < k, wire'[k].of \notin spoiled
      PROVE  /\ wire'[j].of <= wire'[k].of
             /\ wire'[j].type = "done" => wire'[j].of < wire'[k].of
  <2>1. CASE k \in DOMAIN wire
    <3>1. j \in DOMAIN wire
      BY <1>3, <1>5, <2>1
    <3> QED BY <1>3, <1>5, <2>1, <3>1 DEF Ordered, Serialized
  <2>2. CASE k = n
    <3>1. j \in DOMAIN wire
      BY <1>3, <1>5, <2>2
    <3>2. wire'[k].of = cur /\ wpc # "take"
      BY <1>3, <1>5, <2>2
    <3>3. wire[j].of <= cur /\ (wire[j].type = "done" => wire[j].of # cur)
      BY <3>1, <3>2 DEF Ordered, WireInv
    <3> QED BY <1>1, <1>2, <1>3, <3>1, <3>2, <3>3
  <2> QED BY <1>3, <2>1, <2>2
<1> QED BY <1>4, <1>5 DEF Ordered, Serialized

(* The initial state satisfies Ordered.                                     *)
LEMMA InitOrdered == Init => Ordered
  BY DEF Init, Ordered, WireInv, Serialized

(* Worker keeps Ordered.                                                    *)
LEMMA WorkerOrdered == ASSUME Placed, Ordered, Worker PROVE Ordered'
<1>1. Types /\ WorkerInv /\ QueueInv
  BY TypesSplit DEF Placed
<1>2. wpc \notin {"boot", "take"} => cur \in Prompts /\ cur <= cur
  BY <1>1 DEF WorkerInv, Types, WorkerTypes, Prompts
<1>3. CASE Prewarm \/ Start \/ Submit \/ Arm \/ Wait \/ Raised
  <2>1. /\ wpc # "take" /\ UNCHANGED <<wire, spoiled, cur>>
    BY <1>3 DEF Prewarm, Start, Submit, Arm, Wait, Raised, workRest
  <2> QED BY <2>1, WireKept
<1>4. CASE TakePrompt
  <2>1. queue # <<>> /\ queue \in Seq(Prompts) /\ cur' = Head(queue)
        /\ UNCHANGED <<wire, spoiled>>
    BY <1>1, <1>4 DEF TakePrompt, Types, QueueTypes
  <2>2. 1 \in DOMAIN queue /\ Head(queue) = queue[1]
    BY <2>1
  <2>3. cur' = cur + 1
    BY <1>1, <2>1, <2>2 DEF QueueInv
  <2> QED BY <2>1, <2>3, WireKept
<1>5. ASSUME NEW t \in {"text", "done", "error", "cut"}, Emits(t),
             wpc \notin {"boot", "take"}, t = "done" => wpc' = "take",
             UNCHANGED <<spoiled, cur>>
      PROVE  Ordered'
  <2>1. PICK e \in Events : e = Event(t, cur) /\ e.of = cur /\ e.type = t
    BY <1>2, <1>5, EventTyped
  <2> QED BY <1>2, <1>5, <2>1, WireGrows, WireKept DEF Emits
<1>6. CASE Expand
  <2>1. wpc = "expand" /\ UNCHANGED <<spoiled, cur>> /\ (Emits("text") \/ Emits("cut"))
    BY <1>6, ExpandQuiet DEF workRest
  <2> QED BY <1>5, <2>1
<1>7. CASE Ran \/ Done \/ Error
  <2>1. PICK place \in {"ran", "done", "error"}, t \in {"done", "error"},
             thrown \in {"lost", "raised"} : Finish(place, t, thrown)
    BY <1>7 DEF Ran, Done, Error
  <2>2. /\ wpc = place /\ UNCHANGED <<spoiled, cur>>
        /\ (wpc' = "take" /\ Emits(t)) \/ Emits("cut")
    BY <2>1, FinishQuiet DEF Quiet, workRest
  <2> QED BY <1>5, <2>2
<1> QED BY <1>3, <1>4, <1>6, <1>7 DEF Worker

(* Read keeps Ordered.                                                      *)
LEMMA ReadOrdered == ASSUME Placed, Piped, Ordered, NEW g \in Gens, Read(g) PROVE Ordered'
<1>1. Types /\ GatewayInv /\ OwnFrames /\ OldFrames /\ SpoiledInv
  BY TypesSplit DEF Placed, Piped
<1>2. PICK f : Taken(g, f) /\ Follows(g, f)
  BY <1>1, FrameRead
<1>3. UNCHANGED <<cur, wpc>> /\ spoiled \subseteq spoiled'
  BY <1>2 DEF Follows, bridgeRest
<1>4. CASE wire' = wire
  BY <1>3, <1>4, WireKept
<1>5. CASE f.kind # "refuse" /\ \E e \in Events : Emit(e) /\ e.of = f.of /\ e.type # "done"
  <2>1. spoiled' = spoiled
    BY <1>2, <1>5 DEF Follows
  <2>2. f.of \in spoiled \/ (f.of = cur /\ wpc # "take")
    BY <1>1, <1>2, <1>5 DEF Taken, OwnFrames, OldFrames, Current, Interrupted
  <2>3. f.of <= cur
    <3>1. cur \in Nat /\ cur <= cur
      BY <1>1 DEF Types, WorkerTypes
    <3>2. \A p \in 1..cur : p <= cur
      BY <3>1
    <3>3. f.of \in spoiled => f.of \in 1..cur
      BY <1>1 DEF SpoiledInv
    <3> QED BY <2>2, <3>1, <3>2, <3>3
  <2> QED BY <1>3, <1>5, <2>1, <2>2, <2>3, WireGrows
<1>6. wire \in Seq(Events) /\ f \in Frames /\ Translate(f)
  BY <1>1, <1>2 DEF Taken, Follows, Types, OutTypes
<1>7. f.kind # "refuse" => f.of \in Prompts
  BY <1>1, <1>2 DEF Taken, GatewayInv, Frames, Prompts
<1> QED BY <1>4, <1>5, <1>6, <1>7, Translated

(* Every step, and stuttering, keeps Ordered.                               *)
LEMMA NextOrdered == ASSUME Placed, Piped, Ordered, [Next]_vars PROVE Ordered'
<1>1. CASE Worker
  BY <1>1, WorkerOrdered
<1>2. CASE \E g \in Gens : Read(g)
  BY <1>2, ReadOrdered
<1>3. CASE \/ Prompt \/ UNCHANGED vars
           \/ \E g \in Gens : Speak(g) \/ EndTurn(g) \/ Refuse(g) \/ Die(g) \/ Eof(g)
  <2>1. UNCHANGED <<wire, spoiled, cur, wpc>>
    BY <1>3 DEF Prompt, Speak, EndTurn, Refuse, Die, Eof, bridgeRest, vars
  <2> QED BY <2>1, WireKept
<1> QED BY <1>1, <1>2, <1>3 DEF Next, Gateway, Reader

(* "Within one agent, prompts still serialize in submission order": no      *)
(* subscriber sees an event of a prompt after one of a later prompt, nor    *)
(* after its own done, but for what was written for an interrupted one      *)
(* (vertus_server.py 222-291).                                              *)
THEOREM EventsSerialized == Spec => []Serialized
<1>1. Init => Ordered
  BY InitOrdered
<1>2. Placed /\ Piped /\ Ordered /\ [Next]_vars => Ordered'
  BY NextOrdered
<1>3. Ordered => Serialized
  BY DEF Ordered
<1> QED BY <1>1, <1>2, <1>3, AlwaysPiped, PTL DEF Spec

(* An end that has escaped the worker stays so.                             *)
LEMMA EscapesForGood ==
  ASSUME Placed, [Next]_vars, NEW p PROVE EndEscaped(p) => EndEscaped(p)'
<1>1. Types /\ WorkerInv /\ GatewayInv
  BY TypesSplit DEF Placed
<1>2. wire \in Seq(Events)
  BY <1>1 DEF Types, OutTypes
<1>3. wpc \notin {"boot", "take"} => cur \in Prompts
  BY <1>1 DEF WorkerInv, Types, WorkerTypes, Prompts
<1>4. spoiled \subseteq spoiled' /\ overtaken \subseteq overtaken'
  <2>1. CASE \E g \in Gens : Read(g)
    <3>1. PICK g \in Gens : \E f : Follows(g, f)
      BY <1>1, <2>1, FrameRead
    <3>2. PICK f : Follows(g, f)
      BY <3>1
    <3> QED BY <3>2 DEF Follows
  <2>2. CASE ~\E g \in Gens : Read(g)
    BY <2>2
    DEF Next, Prompt, Worker, Gateway, Reader, Prewarm, TakePrompt, Start, Expand, Submit,
        Arm, Wait, Raised, Ran, Done, Error, Finish, Speak, EndTurn, Refuse, Die, Eof,
        workRest, bridgeRest, vars
  <2> QED BY <2>1, <2>2
<1>5. wire' = wire \/ \E e \in Events : Emit(e)
  <2>1. CASE \E g \in Gens : Read(g)
    <3>1. PICK g \in Gens : \E f : Taken(g, f) /\ Follows(g, f)
      BY <1>1, <2>1, FrameRead
    <3>2. PICK f : Taken(g, f) /\ Follows(g, f)
      BY <3>1
    <3>3. f \in Frames /\ Translate(f) /\ (f.kind # "refuse" => f.of \in Prompts)
      BY <1>1, <3>2 DEF Taken, Follows, GatewayInv, Frames, Prompts
    <3> QED BY <1>2, <3>3, Translated
  <2>2. ASSUME NEW t \in {"text", "done", "error", "cut"}, Emits(t),
               wpc \notin {"boot", "take"}
        PROVE  wire' = wire \/ \E e \in Events : Emit(e)
    BY <1>3, <2>2, EventTyped DEF Emits
  <2>3. CASE Expand
    <3>1. wpc = "expand" /\ (Emits("text") \/ Emits("cut"))
      BY <2>3, ExpandQuiet
    <3> QED BY <2>2, <3>1
  <2>4. CASE Ran \/ Done \/ Error
    <3>1. PICK place \in {"ran", "done", "error"}, t \in {"done", "error"},
               thrown \in {"lost", "raised"} : Finish(place, t, thrown)
      BY <2>4 DEF Ran, Done, Error
    <3>2. wpc = place /\ (Emits(t) \/ Emits("cut"))
      BY <3>1, FinishQuiet
    <3> QED BY <2>2, <3>2
  <2>5. CASE ~(\E g \in Gens : Read(g)) /\ ~Expand /\ ~Ran /\ ~Done /\ ~Error
    BY <2>5
    DEF Next, Prompt, Worker, Gateway, Reader, Prewarm, TakePrompt, Start, Submit, Arm,
        Wait, Raised, Speak, EndTurn, Refuse, Die, Eof, bridgeRest, vars
  <2> QED BY <2>1, <2>3, <2>4, <2>5
<1>6. \A k \in DOMAIN wire : k \in DOMAIN wire' /\ wire'[k] = wire[k]
  BY <1>2, <1>5, Emitted
<1>7. ASSUME EndEscaped(p) PROVE EndEscaped(p)'
  <2>1. CASE p \in spoiled
    BY <1>4, <2>1 DEF EndEscaped
  <2>2. CASE \E g \in Gens : <<p, g>> \in overtaken
    BY <1>4, <2>2 DEF EndEscaped
  <2>3. CASE \E k \in DOMAIN wire : wire[k] = Event("cut", p)
    <3>1. PICK k \in DOMAIN wire : wire[k] = Event("cut", p)
      BY <2>3
    <3>2. k \in DOMAIN wire' /\ wire'[k] = Event("cut", p)'
      BY <1>6, <3>1 DEF Event
    <3> QED BY <3>2 DEF EndEscaped
  <2> QED BY <1>7, <2>1, <2>2, <2>3 DEF EndEscaped
<1> QED BY <1>7

(* The same prompts are finished, and the end of the worker's one is not    *)
(* forgotten.                                                               *)
LEMMA FinishedKept ==
  ASSUME Placed, [Next]_vars, FinishedInv, UNCHANGED <<finished, cur>>,
         Ended => Ended' \/ EndEscaped(cur)'
  PROVE  FinishedInv'
<1>1. EndEscaped(cur) => EndEscaped(cur)'
  BY EscapesForGood
<1>2. cur' = cur
  OBVIOUS
<1> QED BY <1>1, <1>2 DEF FinishedInv, EndEscaped

(* The initial state satisfies Finished.                                    *)
LEMMA InitFinished == Init => FinishedInv
  BY DEF Init, FinishedInv

(* Worker keeps FinishedInv.                                                *)
LEMMA WorkerFinished ==
  ASSUME Placed, DeadInv, FinishedInv, Worker PROVE FinishedInv'
<1>1. Types /\ QueueInv
  BY TypesSplit DEF Placed
<1>2. CASE TakePrompt
  <2>1. queue # <<>> /\ queue \in Seq(Prompts) /\ cur' = Head(queue)
        /\ finished' = finished
    BY <1>1, <1>2 DEF TakePrompt, Types, QueueTypes, engVars
  <2>2. 1 \in DOMAIN queue /\ Head(queue) = queue[1]
    BY <2>1
  <2>3. cur \in Nat /\ cur' = cur + 1
    BY <1>1, <2>1, <2>2 DEF QueueInv, Types, WorkerTypes
  <2>4. cur' \notin 1..cur /\ 1..cur \subseteq 1..cur'
    BY <2>3
  <2> QED BY <2>1, <2>4 DEF FinishedInv
<1>3. CASE Prewarm \/ Start \/ Expand \/ Submit \/ Raised \/ Ran \/ Error
  <2>1. /\ UNCHANGED <<finished, cur>>
        /\ wpc \notin {"arm", "wait", "done", "take"}
    BY <1>3 DEF Prewarm, Start, Expand, Submit, Raised, Ran, Error, Finish, workRest
  <2>2. ~Ended
    BY <2>1 DEF Ended, Current
  <2> QED BY <2>1, <2>2, FinishedKept DEF Next
<1>4. CASE Done
  <2>1. /\ wpc = "done" /\ UNCHANGED <<finished, cur>>
        /\ wpc' = "take" \/ Emit(Event("cut", cur))
    BY <1>4, FinishQuiet DEF Done, Quiet, workRest
  <2>2. CASE wpc' = "take"
    <3>1. Ended'
      BY <2>2 DEF Ended
    <3> QED BY <2>1, <3>1, FinishedKept DEF Next
  <2>3. CASE Emit(Event("cut", cur))
    <3>1. cur \in Prompts /\ wire \in Seq(Events)
      BY <1>1, <2>1 DEF Placed, WorkerInv, Types, WorkerTypes, OutTypes, Prompts
    <3>2. PICK e \in Events : e = Event("cut", cur)
      BY <3>1, EventTyped
    <3>3. \E k \in DOMAIN wire' : wire'[k] = e
      BY <2>3, <3>1, <3>2, Emitted
    <3>4. e = Event("cut", cur)' /\ cur' = cur
      BY <2>1, <3>2 DEF Event
    <3>5. EndEscaped(cur)'
      BY <3>3, <3>4 DEF EndEscaped
    <3> QED BY <2>1, <3>5, FinishedKept DEF Next
  <2> QED BY <2>1, <2>2, <2>3
<1>5. CASE Arm
  <2>1. /\ UNCHANGED <<finished, cur, gen, pipe>> /\ wpc = "arm" /\ wpc' = "wait"
        /\ result' = IF gen \in dead THEN "gone" ELSE "no"
    BY <1>5 DEF Arm, workRest
  <2>2. gen \in Gens
    BY <1>1, <2>1, BridgeAssumption DEF Placed, WorkerInv, Types, WorkerTypes, Gens
  <2>3. CASE gen \in dead
    <3>1. In(pipe[gen]) = {}
      BY <2>2, <2>3 DEF DeadInv, In
    <3>2. ~Ended
      BY <2>1, <3>1 DEF Ended
    <3> QED BY <2>1, <3>2, FinishedKept DEF Next
  <2>4. CASE gen \notin dead
    <3>1. Ended => Ended'
      BY <2>1, <2>4 DEF Ended, Current
    <3> QED BY <2>1, <3>1, FinishedKept DEF Next
  <2> QED BY <2>3, <2>4
<1>6. CASE Wait
  <2>1. /\ UNCHANGED <<finished, cur>> /\ wpc = "wait" /\ result # "no"
        /\ wpc' = IF result = "ok" THEN "done" ELSE "raised"
    BY <1>6 DEF Wait, workRest
  <2>2. Ended => Ended'
    BY <2>1 DEF Ended, Current
  <2> QED BY <2>1, <2>2, FinishedKept DEF Next
<1> QED BY <1>2, <1>3, <1>4, <1>5, <1>6 DEF Worker

(* Gateway keeps FinishedInv.                                               *)
LEMMA GatewayFinished ==
  ASSUME Placed, Piped, FinishedInv, NEW g \in Gens, Gateway(g) PROVE FinishedInv'
<1>1. Types /\ WorkerInv
  BY TypesSplit DEF Placed
<1>2. UNCHANGED <<cur, wpc, gen, result, spoiled>> /\ Next
  BY DEF Next, Gateway, Speak, EndTurn, Refuse, Die, bridgeRest
<1>3. \A h \in Gens : In(pipe[h]) \subseteq In(pipe'[h])
  <2>1. CASE UNCHANGED pipe
    BY <2>1
  <2>2. CASE \E t \in {"text", "end", "fail", "refuse"}, p \in 0..MaxPrompts : Write(g, t, p)
    BY <1>1, <2>2, Written
  <2>3. task[g] \in 0..MaxPrompts /\ 0 \in 0..MaxPrompts
    BY <1>1, BridgeAssumption DEF Types, EngineTypes
  <2> QED BY <2>1, <2>2, <2>3 DEF Gateway, Speak, EndTurn, Refuse, Die
<1>4. Current => gen \in Gens
  BY <1>1, BridgeAssumption DEF Current, WorkerInv, Types, WorkerTypes, Gens
<1>5. Ended => Ended'
  BY <1>2, <1>3, <1>4 DEF Ended, Current
<1>6. CASE finished' = finished
  BY <1>2, <1>5, <1>6, FinishedKept
<1>7. CASE task[g] # 0 /\ Write(g, "end", task[g]) /\ finished' = finished \cup {task[g]}
  <2>1. g = gen /\ task[g] = cur /\ (Current \/ Interrupted)
    BY <1>7, WorkingGateway
  <2>2. cur \in 1..cur /\ cur \in 0..MaxPrompts
    <3>1. cur \in Nat /\ cur # 0 /\ cur \in 0..MaxPrompts
      BY <1>1, <1>7, <2>1 DEF Types, WorkerTypes
    <3> QED BY <3>1
  <2>3. [kind |-> "end", of |-> cur] \in In(pipe'[g])
    BY <1>1, <1>7, <2>1, <2>2, Written
  <2>4. EndEscaped(cur)' \/ Ended'
    BY <1>2, <2>1, <2>3 DEF Interrupted, EndEscaped, Ended, Current
  <2> QED BY <1>2, <1>7, <2>1, <2>2, <2>4 DEF FinishedInv
<1> QED BY <1>6, <1>7 DEF Gateway, Speak, EndTurn, Refuse, Die

(* Read keeps FinishedInv.                                                  *)
LEMMA ReadFinished ==
  ASSUME Placed, Piped, FinishedInv, NEW g \in Gens, Read(g) PROVE FinishedInv'
<1>1. Types /\ WorkerInv /\ LastInv
  BY TypesSplit DEF Placed, Piped
<1>2. PICK f : Taken(g, f) /\ Follows(g, f)
  BY <1>1, FrameRead
<1>3. UNCHANGED <<cur, wpc, gen, finished>> /\ Next
  BY <1>2 DEF Next, Reader, Follows, bridgeRest
<1>4. CASE ~Current
  <2>1. result' = result
    BY <1>2, <1>4, ArmedCurrent DEF Follows
  <2>2. Ended => Ended'
    BY <1>3, <1>4, <2>1 DEF Ended
  <2> QED BY <1>3, <2>2, FinishedKept
<1>5. CASE Current
  <2>1. gen \in Gens
    BY <1>1, <1>5, BridgeAssumption DEF Current, WorkerInv, Types, WorkerTypes, Gens
  <2>2. ASSUME NEW e \in In(pipe[gen]), e.kind = "end"
        PROVE  Ended' \/ EndEscaped(cur)'
    <3>1. CASE g # gen
      <4>1. result' = result /\ pipe'[gen] = pipe[gen]
        BY <1>2, <2>1, <3>1 DEF Follows, Taken, Armed
      <4> QED BY <1>3, <1>5, <2>2, <4>1 DEF Ended, Current
    <3>2. CASE g = gen /\ f.kind = "end"
      <4>1. CASE wpc = "arm"
        <5>1. <<cur, g>> \in overtaken' /\ cur' = cur
          BY <1>2, <1>3, <3>2, <4>1 DEF Follows
        <5> QED BY <5>1 DEF EndEscaped
      <4>2. CASE wpc = "wait" /\ result = "no"
        <5>1. result' = "ok"
          BY <1>2, <3>2, <4>2 DEF Follows, Armed
        <5> QED BY <1>3, <4>2, <5>1 DEF Ended
      <4> QED BY <1>5, <4>1, <4>2 DEF Current
    <3>3. CASE g = gen /\ f.kind = "text"
      <4>1. result' = result /\ e \in In(pipe'[gen])
        BY <1>2, <2>2, <3>3 DEF Follows, Taken
      <4> QED BY <1>3, <1>5, <2>2, <4>1 DEF Ended, Current
    <3>4. CASE g = gen /\ f.kind = "fail"
      BY <1>1, <1>2, <2>2, <3>4 DEF Taken, LastInv, Closing
    <3>5. CASE g = gen /\ f.kind = "refuse"
      <4>1. CASE wpc = "arm"
        <5>1. result' = result /\ e \in In(pipe'[gen])
          BY <1>2, <2>2, <3>5, <4>1 DEF Follows, Taken, Armed
        <5> QED BY <1>3, <2>2, <4>1, <5>1 DEF Ended, Current
      <4>2. CASE wpc = "wait" /\ result = "no"
        <5>1. cur \in spoiled' /\ cur' = cur
          BY <1>2, <1>3, <3>5, <4>2 DEF Follows, Armed
        <5> QED BY <5>1 DEF EndEscaped
      <4> QED BY <1>5, <4>1, <4>2 DEF Current
    <3> QED BY <1>2, <3>1, <3>2, <3>3, <3>4, <3>5 DEF Taken, Frames
  <2>3. Ended => Ended' \/ EndEscaped(cur)'
    BY <1>5, <2>2 DEF Ended, Current
  <2> QED BY <1>3, <2>3, FinishedKept
<1> QED BY <1>4, <1>5

(* Eof keeps FinishedInv.                                                   *)
LEMMA EofFinished ==
  ASSUME Placed, Piped, FinishedInv, NEW g \in Gens, Eof(g) PROVE FinishedInv'
<1>1. /\ pipe[g] = <<>> /\ FinishTurn(g, "gone")
      /\ UNCHANGED <<cur, wpc, gen, finished, pipe>> /\ Next
  BY DEF Next, Reader, Eof, bridgeRest, engVars
<1>2. In(pipe[g]) = {}
  BY <1>1 DEF In
<1>3. Ended => Ended'
  BY <1>1, <1>2 DEF Ended, Current, FinishTurn, Armed
<1> QED BY <1>1, <1>3, FinishedKept

(* Every step, and stuttering, keeps Finished.                              *)
LEMMA NextFinished ==
  ASSUME Placed, Piped, DeadInv, FinishedInv, [Next]_vars PROVE FinishedInv'
<1>1. CASE Worker
  BY <1>1, WorkerFinished
<1>2. CASE \E g \in Gens : Gateway(g) \/ Reader(g)
  BY <1>2, GatewayFinished, ReadFinished, EofFinished DEF Reader
<1>3. CASE Prompt \/ UNCHANGED vars
  <2>1. UNCHANGED <<finished, cur, wpc, gen, result, pipe>>
    BY <1>3 DEF Prompt, vars, engVars
  <2>2. Ended => Ended'
    BY <2>1 DEF Ended, Current
  <2> QED BY <2>1, <2>2, FinishedKept
<1> QED BY <1>1, <1>2, <1>3 DEF Next

(* A prompt that an engine has finished is not submitted, and none is       *)
(* submitted a third time.                                                  *)
LEMMA SubmittedOnce ==
  ASSUME Placed, FinishedInv, [Next]_vars, NEW p \in Prompts,
         submitted'[p] # submitted[p]
  PROVE  submitted'[p] <= 2 /\ (p \in finished => EndEscaped(p))
<1>1. Types /\ SubmittedInv
  BY TypesSplit DEF Placed
<1>2. Submit
  BY DEF Next, Prompt, Worker, Gateway, Reader, Prewarm, TakePrompt, Start, Expand, Arm,
         Wait, Raised, Ran, Done, Error, Finish, Speak, EndTurn, Refuse, Die, Read, Eof, workRest,
         bridgeRest, vars
<1>3. p = cur /\ submitted'[p] = submitted[p] + 1
  BY <1>1, <1>2 DEF Submit, Types, OutTypes
<1>4. submitted[p] <= attempt /\ attempt \in 0..1 /\ submitted[p] \in 0..2
  BY <1>1, <1>2, <1>3 DEF Submit, SubmittedInv, Types, WorkerTypes, OutTypes
<1>5. ~Ended
  BY <1>2 DEF Submit, Ended, Current
<1> QED BY <1>3, <1>4, <1>5 DEF FinishedInv

(* "Respawn it so the same prompt still goes through": at most once, and    *)
(* never a prompt whose turn an engine has finished, unless that end has    *)
(* escaped the worker (vertus_server.py 266-287).                           *)
THEOREM RetriesAreNeeded == Spec => NoNeedlessRetry
<1>1. Init => FinishedInv
  BY InitFinished
<1>2. Placed /\ Piped /\ DeadInv /\ FinishedInv /\ [Next]_vars => FinishedInv'
  BY NextFinished
<1>3. Placed /\ FinishedInv /\ [Next]_vars =>
        [\A p \in Prompts : submitted'[p] # submitted[p] =>
           submitted'[p] <= 2 /\ (p \in finished => EndEscaped(p))]_vars
  BY SubmittedOnce
<1> QED BY <1>1, <1>2, <1>3, AlwaysPiped, PTL DEF Spec, NoNeedlessRetry
=============================================================================

---------------------------- MODULE AgentSession -----------------------------
(***************************************************************************)
(* A session of the coding agent (agent-session.ts) with the Agent and the *)
(* loop it drives (packages/agent: agent.ts, agent-loop.ts): prompts, the  *)
(* queues of messages that steer a run or follow it, tool calls and their  *)
(* results, retries after errors, compaction, abort, and the messages that *)
(* extensions and shell commands add while all this goes on.               *)
(*                                                                         *)
(* A run is sequential; what it awaits (listeners of an event, the model, a*)
(* tool, a sleep, a summary) lets the session's other operations in.       *)
(***************************************************************************)
EXTENDS Naturals, Sequences, FiniteSets, SequencesExt, FiniteSetsExt

CONSTANTS
  MaxTexts,        \* bound on the texts ever typed
  MaxNotes,        \* bound on the shell commands and custom messages together
  MaxToolTurns,    \* bound on the responses with tool calls
  MaxErrors,       \* bound on the responses that are errors
  MaxCompactions,  \* bound on the compactions: a second one would begin where
                   \* the first cut
  MaxRetries,      \* settings: retry.maxRetries
  ToolCalls,       \* tool calls of a response that has any
  DrainAll         \* queue mode "all" instead of "one-at-a-time"

ASSUME SessionAssumption ==
  /\ {MaxTexts, MaxNotes, MaxToolTurns, MaxErrors, MaxRetries} \subseteq Nat
  /\ MaxCompactions \in {0, 1}
  /\ ToolCalls \in Nat \ {0} /\ DrainAll \in BOOLEAN

Texts == 1..MaxTexts

VARIABLES
  entries,     \* the messages of the session, as they have been persisted
  hidden,      \* the entries that agent.state.messages does not have
  pc,          \* where the run is
  active,      \* _isAgentRunActive
  aborted,     \* the signal of the run's abort controller
  steerQ,      \* steeringQueue
  followQ,     \* followUpQueue
  pending,     \* pendingMessages of the loop
  shown,       \* _steeringMessages and _followUpMessages
  left,        \* tool calls without a result
  attempt,     \* _retryAttempt
  tried,       \* _overflowRecoveryAttempted
  customs,     \* number of _pendingCustomMessages
  shells,      \* number of _pendingBashMessages
  preflight,   \* prompts on their way to their run
  abort,       \* where abort() is
  typed,       \* history: the texts submitted, and those cleared
  cleared,
  notes,       \* history: custom messages and shell commands so far
  compactions, \* history: compactions so far
  threw        \* history: continue() has rejected

queueVars == <<steerQ, followQ, pending, shown>>
noteVars == <<customs, shells, notes>>
retryVars == <<attempt, tried>>
userVars == <<preflight, typed, cleared>>
vars == <<entries, hidden, pc, active, aborted, queueVars, left, retryVars,
          noteVars, userVars, abort, compactions, threw>>

User(t) == [role |-> "user", text |-> t]
Assistant(stop) == [role |-> "assistant", stop |-> stop]
Result(i) == [role |-> "result", of |-> i]
Custom == [role |-> "custom"]
Shell == [role |-> "shell"]
Stops == {"stop", "tools", "error", "overflow", "aborted"}
Errors == {"error", "overflow"}

InLoop == pc \in {"inject", "stream", "tools", "turnEnd", "prepare"}

TypeOK ==
  /\ \A i \in DOMAIN entries :
       entries[i] \in {User(t) : t \in Texts} \cup {Assistant(s) : s \in Stops}
                      \cup {Result(j) : j \in 1..i} \cup {Custom, Shell}
  /\ hidden \subseteq DOMAIN entries
  /\ pc \in {"idle", "inject", "stream", "tools", "turnEnd", "prepare", "post",
             "sleep", "cancelled", "overflow", "threshold"}
  /\ active \in BOOLEAN /\ aborted \in BOOLEAN /\ threw \in BOOLEAN
  /\ {steerQ, followQ, pending} \subseteq Seq(Texts)
  /\ {shown, preflight, typed, cleared} \subseteq SUBSET Texts
  /\ left \in 0..ToolCalls /\ attempt \in 0..MaxRetries /\ tried \in BOOLEAN
  /\ {customs, shells, notes} \subseteq 0..MaxNotes
  /\ abort \in {"none", "waiting", "returned"}
  /\ compactions \in 0..MaxCompactions

Init ==
  /\ entries = <<>> /\ hidden = {} /\ pc = "idle" /\ active = FALSE
  /\ aborted = FALSE /\ steerQ = <<>> /\ followQ = <<>> /\ pending = <<>>
  /\ shown = {} /\ left = 0 /\ attempt = 0 /\ tried = FALSE
  /\ customs = 0 /\ shells = 0 /\ notes = 0
  /\ preflight = {} /\ typed = {} /\ cleared = {} /\ abort = "none"
  /\ compactions = 0 /\ threw = FALSE

-----------------------------------------------------------------------------
(* agent.state.messages: its last message, and what is left without it.     *)
Visible(h) == DOMAIN entries \ h
LastRole(h) == IF Visible(h) = {} THEN "summary"
               ELSE entries[Max(Visible(h))].role
WithoutLastAssistant(h) ==
  IF LastRole(h) = "assistant" THEN h \cup {Max(Visible(h))} ELSE h

(* PendingMessageQueue.drain.                                               *)
Drained(q) == IF DrainAll \/ q = <<>> THEN q ELSE <<Head(q)>>
Rest(q) == SubSeq(q, Len(Drained(q)) + 1, Len(q))
HasQueued == steerQ # <<>> \/ followQ # <<>>

Users(q) == [i \in DOMAIN q |-> User(q[i])]
Customs == [i \in 1..customs |-> Custom]
Shells == [i \in 1..shells |-> Shell]

(* The messages of q are shown in the transcript, and not in the queue.     *)
Deliver(q) ==
  /\ entries' = entries \o Users(q)
  /\ shown' = shown \ ToSet(q)
  /\ tried' = IF q = <<>> THEN tried ELSE FALSE

(* runWithLifecycle: a run begins with the messages of q, if any, and what  *)
(* its first poll finds.                                                    *)
Begin(q, steer, follow, poll, h) ==
  /\ Deliver(q) /\ hidden' = h
  /\ pending' = IF poll THEN Drained(steer) ELSE <<>>
  /\ steerQ' = IF poll THEN Rest(steer) ELSE steer
  /\ followQ' = follow
  /\ aborted' = FALSE /\ pc' = "inject"

(* What has waited for the end of a run is added to the transcript.         *)
FlushCustoms ==
  /\ entries' = entries \o Customs
  /\ customs' = 0 /\ UNCHANGED <<shells, notes>>
FlushNotes ==
  /\ entries' = entries \o Shells \o Customs
  /\ customs' = 0 /\ shells' = 0 /\ UNCHANGED notes

(* The end of _runAgentPrompt.                                              *)
BecomeIdleForgets ==
  /\ active' = FALSE
  /\ UNCHANGED abort
BecomeIdle ==
  /\ active' = FALSE
  /\ abort' = IF abort = "waiting" THEN "returned" ELSE abort
Settle(h) ==
  /\ FlushNotes /\ BecomeIdle
  /\ hidden' = h /\ pc' = "idle"
  /\ UNCHANGED <<aborted, queueVars, tried>>

(* Agent.continue().                                                        *)
Continue(h) ==
  \/ /\ LastRole(h) = "assistant" /\ steerQ # <<>>
     /\ Begin(Drained(steerQ), Rest(steerQ), followQ, FALSE, h)
     /\ UNCHANGED <<active, abort, noteVars, threw>>
  \/ /\ LastRole(h) = "assistant" /\ steerQ = <<>> /\ followQ # <<>>
     /\ Begin(Drained(followQ), steerQ, Rest(followQ), TRUE, h)
     /\ UNCHANGED <<active, abort, noteVars, threw>>
  \/ /\ LastRole(h) = "assistant" /\ ~HasQueued
     /\ threw' = TRUE /\ Settle(h)
  \/ /\ LastRole(h) # "assistant"
     /\ Begin(<<>>, steerQ, followQ, TRUE, h)
     /\ UNCHANGED <<active, abort, noteVars, threw>>

SettleAnyway(h) ==
  Settle(h) /\ UNCHANGED threw
ContinueIfQueued(h) ==
  IF HasQueued THEN Continue(h) ELSE Settle(h) /\ UNCHANGED threw

(* A compaction rebuilds agent.state.messages from the entries it keeps,    *)
(* which do not begin with the result of a tool; it summarizes the others,  *)
(* and there must be some.                                                  *)
Cuts == {1..(k - 1) : k \in {j \in DOMAIN entries \ {1} :
                                entries[j].role # "result"}}
CompactOnce == compactions < MaxCompactions /\ compactions' = compactions + 1

-----------------------------------------------------------------------------
(* What users, extensions and shell commands do.                            *)

New(t) == t \notin typed /\ \A u \in Texts : u < t => u \in typed

(* prompt() finds the session idle; what it awaits before its run comes     *)
(* after this.                                                              *)
(* Assumed of the callers: one prompt at a time is on its way to its run.   *)
Prompt(t) ==
  /\ New(t) /\ typed' = typed \cup {t} /\ ~active
  /\ preflight = {} /\ preflight' = {t}
  /\ FlushNotes
  /\ UNCHANGED <<hidden, pc, active, aborted, queueVars, left, retryVars,
                 cleared, abort, compactions, threw>>

(* _runAgentPrompt.                                                         *)
StartRun(t) ==
  /\ preflight = {t} /\ preflight' = {} /\ pc = "idle"
  /\ active' = TRUE
  /\ Begin(<<t>>, steerQ, followQ, TRUE, hidden)
  /\ UNCHANGED <<left, attempt, noteVars, typed, cleared, abort, compactions, threw>>

(* prompt() with a streamingBehavior, steer() and followUp(); the latter two *)
(* do not ask whether there is a run.                                       *)
Steer(t) ==
  /\ New(t) /\ typed' = typed \cup {t}
  /\ shown' = shown \cup {t} /\ steerQ' = Append(steerQ, t)
  /\ UNCHANGED <<entries, hidden, pc, active, aborted, followQ, pending, left,
                 retryVars, noteVars, preflight, cleared, abort, compactions, threw>>
FollowUp(t) ==
  /\ New(t) /\ typed' = typed \cup {t}
  /\ shown' = shown \cup {t} /\ followQ' = Append(followQ, t)
  /\ UNCHANGED <<entries, hidden, pc, active, aborted, steerQ, pending, left,
                 retryVars, noteVars, preflight, cleared, abort, compactions, threw>>

ClearQueue ==
  /\ shown # {}
  /\ shown' = {} /\ steerQ' = <<>> /\ followQ' = <<>>
  /\ cleared' = cleared \cup shown
  /\ UNCHANGED <<entries, hidden, pc, active, aborted, pending, left, retryVars,
                 noteVars, preflight, typed, abort, compactions, threw>>

(* sendCustomMessage without a turn of its own, and recordBashResult: both  *)
(* wait while a run is active.                                              *)
SendCustomMessageAtOnce ==
  /\ notes < MaxNotes /\ notes' = notes + 1
  /\ entries' = Append(entries, Custom) /\ UNCHANGED customs
  /\ UNCHANGED <<hidden, pc, active, aborted, queueVars, left, retryVars, shells,
                 userVars, abort, compactions, threw>>
SendCustomMessage ==
  /\ notes < MaxNotes /\ notes' = notes + 1
  /\ IF active THEN customs' = customs + 1 /\ UNCHANGED entries
     ELSE entries' = Append(entries, Custom) /\ UNCHANGED customs
  /\ UNCHANGED <<hidden, pc, active, aborted, queueVars, left, retryVars, shells,
                 userVars, abort, compactions, threw>>
RecordBashResult ==
  /\ notes < MaxNotes /\ notes' = notes + 1
  /\ IF active THEN shells' = shells + 1 /\ UNCHANGED entries
     ELSE entries' = Append(entries, Shell) /\ UNCHANGED shells
  /\ UNCHANGED <<hidden, pc, active, aborted, queueVars, left, retryVars, customs,
                 userVars, abort, compactions, threw>>

(* abort(): the sleep before a retry ends, or the run is told.              *)
Abort ==
  /\ abort = "none" /\ active
  /\ abort' = "waiting"
  /\ pc' = IF pc = "sleep" THEN "cancelled" ELSE pc
  /\ aborted' = (aborted \/ InLoop)
  /\ UNCHANGED <<entries, hidden, active, queueVars, left, retryVars, noteVars,
                 userVars, compactions, threw>>

-----------------------------------------------------------------------------
(* The agent loop.                                                          *)

Inject ==
  /\ pc = "inject" /\ pc' = "stream"
  /\ Deliver(pending) /\ pending' = <<>>
  /\ UNCHANGED <<hidden, active, aborted, steerQ, followQ, left, attempt, noteVars,
                 userVars, abort, compactions, threw>>

(* How often the model has answered so.                                     *)
Responses(stops) ==
  Cardinality({i \in DOMAIN entries :
               \E s \in stops : entries[i] = Assistant(s)})

(* streamAssistantResponse ends; an aborted signal leaves no time for tools.*)
Respond(stop) ==
  /\ pc = "stream"
  /\ stop = "aborted" => aborted
  /\ stop = "tools" => ~aborted /\ Responses({"tools"}) < MaxToolTurns
  /\ stop \in Errors => Responses(Errors) < MaxErrors
  /\ attempt' = IF stop \in Errors THEN attempt ELSE 0
  /\ tried' = IF stop \in Errors THEN tried ELSE FALSE
  /\ LET e == Append(entries, Assistant(stop)) IN
     \/ /\ stop = "stop" /\ entries' = e /\ pc' = "turnEnd"
        /\ UNCHANGED <<left, noteVars>>
     \/ /\ stop = "tools" /\ entries' = e /\ pc' = "tools"
        /\ left' = ToolCalls /\ UNCHANGED noteVars
     \/ /\ stop \in Errors \cup {"aborted"} /\ pc' = "post"
        /\ entries' = e \o Customs /\ customs' = 0
        /\ UNCHANGED <<left, shells, notes>>
  /\ UNCHANGED <<hidden, active, aborted, queueVars, userVars, abort, compactions,
                 threw>>

(* A tool's result; after an abort some calls are left without one.         *)
ToolResult ==
  /\ pc = "tools"
  /\ entries' = Append(entries, Result(Max({i \in DOMAIN entries :
                                            entries[i] = Assistant("tools")})))
  /\ \E n \in 0..(left - 1) :
       /\ ~aborted => n = left - 1
       /\ left' = n /\ pc' = IF n = 0 THEN "turnEnd" ELSE "tools"
  /\ UNCHANGED <<hidden, active, aborted, queueVars, retryVars, noteVars, userVars,
                 abort, compactions, threw>>

(* The turn ends, and the queues are polled.                                *)
TurnEnd ==
  /\ pc = "turnEnd"
  /\ entries' = entries \o Customs /\ customs' = 0
  /\ \E more \in {Last(entries).role = "result", FALSE} :
       IF more \/ steerQ # <<>>
       THEN /\ pending' = Drained(steerQ) /\ steerQ' = Rest(steerQ)
            /\ pc' = "prepare" /\ UNCHANGED followQ
       ELSE /\ pending' = Drained(followQ) /\ followQ' = Rest(followQ)
            /\ pc' = IF followQ = <<>> THEN "post" ELSE "prepare"
            /\ UNCHANGED steerQ
  /\ UNCHANGED <<hidden, active, aborted, shown, left, retryVars, shells, notes,
                 userVars, abort, compactions, threw>>

(* prepareNextTurn, which may compact, and a second poll.                   *)
PrepareNextTurnKeeps ==
  /\ pc = "prepare" /\ pc' = "inject"
  /\ \/ UNCHANGED <<hidden, compactions>>
     \/ CompactOnce /\ hidden' \in Cuts
  /\ IF pending = <<>>
     THEN pending' = Drained(steerQ) /\ UNCHANGED steerQ
     ELSE UNCHANGED <<pending, steerQ>>
  /\ UNCHANGED <<entries, active, aborted, followQ, shown, left, retryVars, noteVars,
                 userVars, abort, threw>>
PrepareNextTurn ==
  /\ pc = "prepare" /\ pc' = "inject"
  /\ \/ UNCHANGED <<hidden, compactions>>
     \/ CompactOnce /\ hidden' \in Cuts
  /\ IF pending = <<>>
     THEN pending' = Drained(steerQ) /\ steerQ' = Rest(steerQ)
     ELSE UNCHANGED <<pending, steerQ>>
  /\ UNCHANGED <<entries, active, aborted, followQ, shown, left, retryVars, noteVars,
                 userVars, abort, threw>>

-----------------------------------------------------------------------------
(* _handlePostAgentRun.                                                     *)

LastStopIn(shownTo) ==
  entries[Max({j \in shownTo : entries[j].role = "assistant"})].stop
LastStop == LastStopIn(DOMAIN entries)

PrepareRetry ==
  /\ pc = "post" /\ LastStop = "error" /\ attempt < MaxRetries
  /\ attempt' = attempt + 1 /\ hidden' = WithoutLastAssistant(hidden)
  /\ pc' = "sleep"
  /\ UNCHANGED <<entries, active, aborted, queueVars, left, tried, noteVars, userVars,
                 abort, compactions, threw>>
Retry ==
  /\ pc = "sleep" /\ Continue(hidden)
  /\ UNCHANGED <<left, attempt, userVars, compactions>>

(* _checkCompaction, and what follows when it has nothing to do.            *)
RecoverOverflow ==
  /\ LastStop = "overflow" /\ ~tried
  /\ tried' = TRUE /\ hidden' = WithoutLastAssistant(hidden)
  /\ pc' = "overflow"
  /\ UNCHANGED <<entries, active, aborted, queueVars, noteVars, abort, threw>>
CompactAtThreshold ==
  /\ LastStop \notin {"aborted", "overflow"} /\ compactions < MaxCompactions
  /\ pc' = "threshold"
  /\ UNCHANGED <<entries, hidden, active, aborted, queueVars, tried, noteVars, abort,
                 threw>>
CheckCompaction ==
  \/ RecoverOverflow
  \/ CompactAtThreshold
  \/ ~(LastStop = "overflow" /\ ~tried) /\ ContinueIfQueued(hidden)

PostRun ==
  /\ \/ pc = "post" /\ ~(LastStop = "error" /\ attempt < MaxRetries)
     \/ pc = "cancelled"
  /\ attempt' = 0 /\ CheckCompaction
  /\ UNCHANGED <<left, userVars, compactions>>

(* _runAutoCompaction ends: with a summary, or cancelled or failed.         *)
WithoutLastError(h) ==
  IF LastRole(h) = "assistant" /\ entries[Max(Visible(h))].stop \in Errors
  THEN WithoutLastAssistant(h) ELSE h
CompactionEnds ==
  /\ \/ /\ pc = "overflow" /\ CompactOnce
        /\ \E h \in Cuts : Continue(WithoutLastError(h))
     \/ /\ pc = "threshold" /\ CompactOnce
        /\ \E h \in Cuts : ContinueIfQueued(h)
     \/ /\ pc \in {"overflow", "threshold"} /\ ContinueIfQueued(hidden)
        /\ UNCHANGED compactions
  /\ UNCHANGED <<left, attempt, userVars>>

(* Before a prompt's run, for the last response there is; nothing continues.*)
CompactBeforePrompt ==
  /\ preflight # {} /\ pc = "idle"
  /\ \E i \in Visible(hidden) : entries[i].role = "assistant"
  /\ \/ /\ LastStopIn(Visible(hidden)) = "overflow" /\ ~tried /\ tried' = TRUE
        /\ \/ hidden' = WithoutLastAssistant(hidden) /\ UNCHANGED compactions
           \/ \E h \in Cuts : hidden' = WithoutLastError(h) /\ CompactOnce
     \/ /\ LastStopIn(Visible(hidden)) # "overflow" /\ CompactOnce /\ hidden' \in Cuts
        /\ UNCHANGED tried
  /\ UNCHANGED <<entries, pc, active, aborted, queueVars, left, attempt, noteVars,
                 userVars, abort, threw>>

-----------------------------------------------------------------------------
Next ==
  \/ \E t \in Texts : \/ Prompt(t) \/ StartRun(t) \/ Steer(t) \/ FollowUp(t)
  \/ ClearQueue \/ SendCustomMessage \/ RecordBashResult \/ Abort
  \/ Inject \/ (\E stop \in Stops : Respond(stop)) \/ ToolResult \/ TurnEnd
  \/ PrepareNextTurn \/ PrepareRetry \/ Retry \/ PostRun \/ CompactionEnds
  \/ CompactBeforePrompt

(* A run goes on: models answer, tools and summaries end, and sleeps too.   *)
Fairness ==
  WF_vars(\/ Inject \/ (\E stop \in Stops : Respond(stop)) \/ ToolResult \/ TurnEnd
          \/ PrepareNextTurn \/ PrepareRetry \/ Retry \/ PostRun \/ CompactionEnds)

Spec == Init /\ [][Next]_vars /\ Fairness

-----------------------------------------------------------------------------
(* Properties.                                                              *)

(* The results of tools follow the response that called them: no message of *)
(* a user, an extension or a shell command comes between                    *)
(* (agent-session.ts 1388-1410, 1506-1512, 3028-3031).                      *)
ResultsFollowCalls ==
  \A i \in DOMAIN entries : entries[i].role = "result" =>
    entries[i].of = i - 1 \/ entries[i - 1] = entries[i]

(* A session that is idle has no run, and nothing that waited for its end   *)
(* (agent-session.ts 925-928, 1106-1119).                                   *)
IdleIsIdle == ~active => pc = "idle" /\ customs = 0 /\ shells = 0

(* A text is in one place: on its way to a run, in a queue, taken from it   *)
(* for the next turn, or in the transcript; once, however runs begin, go on *)
(* after errors and compactions and are aborted.                            *)
Count(q, x) == Cardinality({i \in DOMAIN q : q[i] = x})
OnePlace(t) ==
  Count(steerQ, t) + Count(followQ, t) + Count(pending, t) + Count(entries, User(t))
  + (IF t \in preflight THEN 1 ELSE 0)
DeliveredOnce ==
  \A t \in typed : IF t \in cleared THEN OnePlace(t) <= 1 ELSE OnePlace(t) = 1

(* What the user is shown as queued is what will still be delivered: the    *)
(* queues, and what the loop has taken from them and was not cleared since  *)
(* (agent-session.ts 647-668, 1586-1599).  The code takes a text off what   *)
(* is shown by what it says (649-663) and does so for no empty one: texts   *)
(* here are distinct and not empty, and of equal ones another may go first. *)
QueueShown ==
  LET waiting == ToSet(steerQ) \cup ToSet(followQ) IN
  /\ waiting \subseteq shown
  /\ shown = (waiting \cup ToSet(pending)) \ cleared

(* continue() finds something to continue from, or does not get called      *)
(* (agent-session.ts 2388-2400; agent.ts 341-369).                          *)
CanContinue == ~threw

(* A message queued while a run is active is delivered or cleared, even if  *)
(* the run fails or is aborted (agent-session.ts 1121-1149).                *)
QueuedIsDelivered ==
  \A t \in Texts : active /\ t \in shown ~> t \notin shown

(* abort() returns (agent-session.ts 1620-1631).                            *)
AbortReturns == abort = "waiting" ~> abort = "returned"

(* The state is typed, and what the session knows of its run and shows of   *)
(* its queues agrees with the agent.                                        *)
Consistent == TypeOK /\ IdleIsIdle /\ QueueShown
=============================================================================

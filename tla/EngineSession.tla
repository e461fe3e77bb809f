--------------------------- MODULE EngineSession ----------------------------
(***************************************************************************)
(* What the hub's worker can expect of prompt() of an engine session:      *)
(* calls one after the other; the text of a turn reaches the listeners     *)
(* while its prompt() has not returned, never before and, unless the turn  *)
(* was interrupted, never after; a prompt() that returns normally does so  *)
(* when the engine has finished that turn; one whose turn was interrupted  *)
(* raises, although the engine goes on with the turn; and a session whose  *)
(* prompt() has raised is not used again.                                  *)
(***************************************************************************)
EXTENDS Naturals

CONSTANTS Turns      \* the prompts of a session, numbered from 1

VARIABLES
  current,     \* the turn whose prompt() is running, 0 when there is none
  text,        \* how many pieces of each turn's text the listeners have seen
  finished,    \* the turns that the engine has finished
  interrupted, \* the turns given up while the engine was at them
  outcome      \* how prompt() of each turn ended: "none" so far

sessionVars == <<current, text, finished, interrupted, outcome>>

Init ==
  /\ current = 0
  /\ text = [n \in Turns |-> 0]
  /\ finished = {} /\ interrupted = {}
  /\ outcome = [n \in Turns |-> "none"]

Call(n) ==
  /\ current = 0
  /\ outcome[n] = "none"
  /\ \A m \in Turns : outcome[m] # "failed"
  /\ current' = n
  /\ UNCHANGED <<text, finished, interrupted, outcome>>

(* The turns the engine may be at.                                          *)
Open == ({current} \cup interrupted) \ {0}

Say ==
  /\ \E n \in Open : text' = [text EXCEPT ![n] = @ + 1]
  /\ UNCHANGED <<current, finished, interrupted, outcome>>

Finish ==
  /\ \E n \in Open \ finished : finished' = finished \cup {n}
  /\ UNCHANGED <<current, text, interrupted, outcome>>

Interrupt ==
  /\ current # 0
  /\ interrupted' = interrupted \cup {current}
  /\ UNCHANGED <<current, text, finished, outcome>>

Return ==
  /\ current # 0
  /\ \E how \in {"ok", "failed"} :
       /\ how = "ok" => current \in finished \ interrupted
       /\ outcome' = [outcome EXCEPT ![current] = how]
  /\ current' = 0
  /\ UNCHANGED <<text, finished, interrupted>>

Next == (\E n \in Turns : Call(n)) \/ Say \/ Finish \/ Interrupt \/ Return

Spec == Init /\ [][Next]_sessionVars
=============================================================================

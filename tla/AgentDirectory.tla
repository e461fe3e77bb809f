--------------------------- MODULE AgentDirectory ---------------------------
(***************************************************************************)
(* What the agent registry of the hub promises its callers, with every     *)
(* operation a single step: a set of agents, each with the moment it was   *)
(* created, one of which is primary.  AgentRegistry, which spreads each    *)
(* operation over several writes to disk and may crash between any two of  *)
(* them, is shown to implement this specification.                         *)
(***************************************************************************)
EXTENDS AgentOrder

CONSTANTS
  Ids,        \* agent ids, named by their rank in the order of the id strings
  NoId        \* "no agent": the value of an absent primary marker

VARIABLES
  agents,     \* the agents that exist
  born,       \* the created_at of every agent
  primary     \* the agent that is primary

dirVars == <<agents, born, primary>>

-----------------------------------------------------------------------------

Init ==
  /\ agents = {}
  /\ born = [i \in Ids |-> 0]
  /\ primary = NoId

(* A new agent becomes primary only when it is the only one.                *)
Add(i) ==
  /\ i \notin agents
  /\ agents' = agents \cup {i}
  /\ born' = [born EXCEPT ![i] = born'[i]]
  /\ born'[i] \in Nat
  /\ primary' = IF agents = {} THEN i ELSE primary

(* The last agent is never deleted; a deleted primary is succeeded by the   *)
(* oldest remaining agent, and nobody else's deletion moves the primary.    *)
Remove(i) ==
  /\ i \in agents
  /\ agents' = agents \ {i}
  /\ agents' # {}
  /\ born' = [born EXCEPT ![i] = 0]
  /\ primary' = IF primary = i THEN Oldest(agents', born') ELSE primary

Next == \E i \in Ids : Add(i) \/ Remove(i)

Spec == Init /\ [][Next]_dirVars
=============================================================================

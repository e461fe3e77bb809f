--------------------------- MODULE SessionManager ---------------------------
(***************************************************************************)
(* The map from agents to live bridges (session_manager.py) as the hub's   *)
(* HTTP handlers use it (vertus_server.py).  ThreadingHTTPServer gives     *)
(* every request a thread of its own, and HTTP/1.0 every thread a single   *)
(* request.                                                                *)
(*                                                                         *)
(* A request looks its agent up under the lock of the map, asks the        *)
(* registry about the agent without that lock, takes the lock again, looks *)
(* again and, holding the lock, lets the factory ask the registry a second *)
(* time and build the bridge.  The registry is the one of AgentDirectory:  *)
(* agents come and go between any two of these steps.                      *)
(***************************************************************************)
EXTENDS Naturals, Sequences

CONSTANTS
  Ids, NoId,  \* agent ids, and the parameter left out of a request
  PrimaryId,  \* the agent the map is seeded with, DEFAULT_AGENT_ID
  Handlers,   \* requests, each with the thread that handles it
  NoThread,   \* the lock is free
  Endpoints,  \* the endpoints requests go to
  Deletes,    \* whether agents are deleted while the hub runs
  MaxAdds     \* bound on the number of agents ever created

ASSUME ManagerAssumption ==
  /\ Ids \subseteq Nat
  /\ PrimaryId \in Ids
  /\ NoId \notin Ids
  /\ NoThread \notin Handlers
  /\ Endpoints \subseteq {"prompt", "events", "skills"}
  /\ Deletes \in BOOLEAN
  /\ MaxAdds \in Nat \ {0}

VARIABLES
  agents, born, primary,  \* the registry
  sessions,   \* _sessions: the bridge of each agent, 0 when it has none
  lock,       \* holder of SessionManager._lock
  built,      \* the agent of every bridge the factory has built
  pc,         \* where each request is
  route,      \* its endpoint
  arg,        \* its agent
  got,        \* the bridge it works with
  reply,      \* what the client was answered
  ever,       \* history: the agents that have ever existed
  adds        \* number of agents created so far

dirVars == <<agents, born, primary>>
reqVars == <<route, arg>>
vars == <<dirVars, sessions, lock, built, pc, reqVars, got, reply, ever, adds>>

Registry == INSTANCE AgentDirectory

Places == {"new", "lookup", "validate", "recheck", "resolve", "make", "use",
           "over"}

TypeOK ==
  /\ agents \subseteq Ids
  /\ born \in [Ids -> 0..MaxAdds]
  /\ primary \in Ids \cup {NoId}
  /\ sessions \in [Ids -> 0..Len(built)]
  /\ lock \in Handlers \cup {NoThread}
  /\ built \in Seq(Ids)
  /\ pc \in [Handlers -> Places]
  /\ route \in [Handlers -> Endpoints]
  /\ arg \in [Handlers -> Ids]
  /\ got \in [Handlers -> 0..Len(built)]
  /\ reply \in [Handlers -> {"none", "ok", "notfound", "dropped"}]
  /\ ever \subseteq Ids
  /\ adds \in 0..MaxAdds

-----------------------------------------------------------------------------
(* The hub has started: ensure_primary found or made an agent "primary" and *)
(* the constructor has built its bridge.                                    *)
Init ==
  /\ agents = {PrimaryId}
  /\ born = [i \in Ids |-> IF i = PrimaryId THEN 1 ELSE 0]
  /\ primary = PrimaryId
  /\ adds = 1
  /\ built = <<PrimaryId>>
  /\ sessions = [i \in Ids |-> IF i = PrimaryId THEN 1 ELSE 0]
  /\ lock = NoThread
  /\ pc = [t \in Handlers |-> "new"]
  /\ route \in [Handlers -> Endpoints]
  /\ arg = [t \in Handlers |-> PrimaryId]
  /\ got = [t \in Handlers |-> 0]
  /\ reply = [t \in Handlers |-> "none"]
  /\ ever = {PrimaryId}

(* POST /api/agents, and the registry's delete_agent.                       *)
AddAgent(i) ==
  /\ adds < MaxAdds
  /\ adds' = adds + 1
  /\ born' = [born EXCEPT ![i] = adds']
  /\ Registry!Add(i)
  /\ ever' = ever \cup {i}
  /\ UNCHANGED <<sessions, lock, built, pc, reqVars, got, reply>>

DeleteAgent(i) ==
  /\ Deletes
  /\ born' = [born EXCEPT ![i] = 0]
  /\ Registry!Remove(i)
  /\ UNCHANGED <<sessions, lock, built, pc, reqVars, got, reply, ever, adds>>

-----------------------------------------------------------------------------

Goto(t, place) == pc' = [pc EXCEPT ![t] = place]

Answer(t, what) ==
  /\ Goto(t, "over")
  /\ reply' = [reply EXCEPT ![t] = what]

(* A KeyError: /api/prompt and /api/events catch it, /api/skills does not,  *)
(* and its thread ends without an answer.                                   *)
UnknownUncaught(t) == Answer(t, "dropped")
Unknown(t) == Answer(t, IF route[t] = "skills" THEN "dropped" ELSE "notfound")

(* A missing agent_id means the default agent.                              *)
Receive(t) ==
  /\ pc[t] = "new"
  /\ \E i \in Ids \cup {NoId} :
       arg' = [arg EXCEPT ![t] = IF i = NoId THEN PrimaryId ELSE i]
  /\ Goto(t, "lookup")
  /\ UNCHANGED <<dirVars, sessions, lock, built, route, got, reply, ever,
                 adds>>

Lookup(t) ==
  /\ pc[t] = "lookup" /\ lock = NoThread
  /\ got' = [got EXCEPT ![t] = sessions[arg[t]]]
  /\ Goto(t, IF sessions[arg[t]] # 0 THEN "use" ELSE "validate")
  /\ UNCHANGED <<dirVars, sessions, lock, built, reqVars, reply, ever, adds>>

(* registry.get_agent, outside the lock of the map.                         *)
Validate(t) ==
  /\ pc[t] = "validate"
  /\ \/ arg[t] \in agents /\ Goto(t, "recheck") /\ UNCHANGED reply
     \/ arg[t] \notin agents /\ Unknown(t)
  /\ UNCHANGED <<dirVars, sessions, lock, built, reqVars, got, ever, adds>>

(* The second look at the map keeps the lock when a bridge is to be built.  *)
RecheckNothing(t) ==
  /\ pc[t] = "recheck" /\ lock = NoThread
  /\ lock' = t
  /\ Goto(t, "resolve")
  /\ UNCHANGED <<dirVars, sessions, built, reqVars, got, reply, ever, adds>>

Recheck(t) ==
  /\ pc[t] = "recheck" /\ lock = NoThread
  /\ \/ /\ sessions[arg[t]] # 0
        /\ got' = [got EXCEPT ![t] = sessions[arg[t]]]
        /\ Goto(t, "use")
        /\ UNCHANGED lock
     \/ /\ sessions[arg[t]] = 0
        /\ lock' = t
        /\ Goto(t, "resolve")
        /\ UNCHANGED got
  /\ UNCHANGED <<dirVars, sessions, built, reqVars, reply, ever, adds>>

(* The factory resolves the sandbox first; its KeyError leaves the map as   *)
(* it was and the with statement releases the lock.                         *)
ResolveKeepsLock(t) ==
  /\ pc[t] = "resolve"
  /\ \/ arg[t] \in agents /\ Goto(t, "make") /\ UNCHANGED reply
     \/ arg[t] \notin agents /\ Unknown(t)
  /\ UNCHANGED <<dirVars, sessions, lock, built, reqVars, got, ever, adds>>

Resolve(t) ==
  /\ pc[t] = "resolve"
  /\ \/ arg[t] \in agents /\ Goto(t, "make") /\ UNCHANGED <<lock, reply>>
     \/ arg[t] \notin agents /\ Unknown(t) /\ lock' = NoThread
  /\ UNCHANGED <<dirVars, sessions, built, reqVars, got, ever, adds>>

(* AgentBridge() starts the worker thread of the bridge, which may find the *)
(* agent gone by now.                                                       *)
Make(t) ==
  /\ pc[t] = "make"
  /\ built' = Append(built, arg[t])
  /\ sessions' = [sessions EXCEPT ![arg[t]] = Len(built')]
  /\ got' = [got EXCEPT ![t] = Len(built')]
  /\ lock' = NoThread
  /\ Goto(t, "use")
  /\ UNCHANGED <<dirVars, reqVars, reply, ever, adds>>

(* The bridge queues the prompt, registers the subscriber or returns its    *)
(* catalog; the rest of the request only reads.                             *)
Use(t) ==
  /\ pc[t] = "use"
  /\ Answer(t, "ok")
  /\ UNCHANGED <<dirVars, sessions, lock, built, reqVars, got, ever, adds>>

-----------------------------------------------------------------------------

Handle(t) ==
  \/ Lookup(t) \/ Validate(t) \/ Recheck(t) \/ Resolve(t) \/ Make(t) \/ Use(t)

Next ==
  \/ \E t \in Handlers : Receive(t) \/ Handle(t)
  \/ \E i \in Ids : AddAgent(i) \/ DeleteAgent(i)

(* A thread that has a request runs; clients and agents need not come.  A   *)
(* request takes the lock at most twice and there are finitely many, so     *)
(* weak fairness is enough for the lock, which favours nobody.              *)
Spec == Init /\ [][Next]_vars /\ \A t \in Handlers : WF_vars(Handle(t))

-----------------------------------------------------------------------------
(* Properties.                                                              *)

(* "Each agent gets its own bridge": requests that race to the first use of *)
(* an agent share a bridge, and with it a queue and an engine; none is      *)
(* built and then lost from the map with its worker still running.          *)
OneBridgePerAgent ==
  \A b, c \in DOMAIN built :
    /\ built[b] = built[c] => b = c
    /\ sessions[built[b]] = b

(* Nobody can "address agents that don't exist": a bridge is built for an   *)
(* agent that exists or has existed only, and a request for one that has    *)
(* never existed gets none, whatever is created and deleted between the     *)
(* steps of the request; where the KeyError is caught it is a 404, which    *)
(* README.md 141-142 has for any endpoint, though not on /api/skills        *)
(* (session_manager.py 9-11, 62-80, vertus_server.py 422-426, 468-473).      *)
UnknownNotServed ==
  /\ \A b \in DOMAIN built : built[b] \in ever
  /\ \A t \in Handlers : arg[t] \notin ever =>
       /\ got[t] = 0 /\ reply[t] # "ok"
       /\ pc[t] = "over" /\ route[t] # "skills" => reply[t] = "notfound"

(* Every request comes to an end: the factory's failure under the lock, or      *)
(* another request's, blocks nobody.                                        *)
EveryRequestAnswered ==
  \A t \in Handlers : pc[t] = "lookup" ~> pc[t] = "over"
=============================================================================

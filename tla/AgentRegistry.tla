--------------------------- MODULE AgentRegistry ----------------------------
(***************************************************************************)
(* The durable agent registry of the VERTUS hub (agent_registry.py) and    *)
(* the part of the hub that starts on top of it (serve and                 *)
(* resolve_sandbox_cwd in vertus_server.py).                               *)
(*                                                                         *)
(* The registry is a directory: one subdirectory per agent holding its     *)
(* profile.json and its sandbox/, and a marker file naming the primary.    *)
(* Public operations take a process-wide lock, but each consists of        *)
(* several writes to disk, the process may die between any two of them,    *)
(* and the mkdir of the sandbox in resolve_sandbox_cwd takes no lock.      *)
(*                                                                         *)
(* A step is one such access.  Steps that only the lock holder can observe *)
(* are merged; temporary files of _atomic_write, agent names and the text  *)
(* of ids are left out.                                                    *)
(***************************************************************************)
EXTENDS AgentOrder

CONSTANTS
  Ids,        \* agent ids, named by their rank in the order of the id strings
  PrimaryId,  \* the id "primary" that ensure_primary and the hub's seed use
  NoId,       \* the marker file is missing, or a thread holds no id
  Handlers,   \* HTTP handler threads and other callers of the registry
  Main,       \* the thread that runs serve()
  NoThread,   \* the lock is free
  Resolvers,  \* the handlers that may run resolve_sandbox_cwd
  MaxClock    \* bound on the clock

ASSUME RegistryAssumption ==
  /\ Ids \subseteq Nat
  /\ PrimaryId \in Ids
  /\ NoId \notin Ids
  /\ Main \notin Handlers
  /\ NoThread \notin Handlers \cup {Main}
  /\ Resolvers \subseteq Handlers
  /\ MaxClock \in Nat

Threads == Handlers \cup {Main}

VARIABLES
  \* On disk: these survive a crash of the hub process.
  dirs,       \* ids whose directory exists
  profiles,   \* ids whose profile.json exists: the agents, _scan_ids()
  sandboxes,  \* ids whose sandbox/ exists
  worked,     \* ids whose sandbox/ holds files an engine session left there
  created,    \* created_at in the profile, in seconds
  marker,     \* the contents of _primary
  \* In the process.
  hub,        \* "down", "booting", "up", or "failed" (SystemExit in serve)
  lock,       \* holder of AgentRegistry._lock
  pc,         \* where each thread is within its operation
  job,        \* the operation each thread executes
  arg,        \* the agent id it executes it on
  todo,       \* what rmtree, running under the lock, has yet to remove
  clock       \* wall clock, in the resolution of created_at

disk == <<dirs, profiles, sandboxes, worked, created, marker>>
vars == <<disk, hub, lock, pc, job, arg, todo, clock>>

Jobs == {"none", "boot", "list", "create", "get", "resolve", "delete"}
Places == {"idle", "ensure", "mkdir", "profile", "marker", "list",
           "load", "mksandbox", "rmtree", "remark"}

TypeOK ==
  /\ dirs \subseteq Ids /\ profiles \subseteq Ids /\ sandboxes \subseteq Ids
  /\ worked \subseteq Ids
  /\ created \in [Ids -> Nat]
  /\ marker \in Ids \cup {NoId}
  /\ hub \in {"down", "booting", "up", "failed"}
  /\ lock \in Threads \cup {NoThread}
  /\ pc \in [Threads -> Places]
  /\ job \in [Threads -> Jobs]
  /\ arg \in [Threads -> Ids \cup {NoId}]
  /\ todo \subseteq {"profile", "sandbox"}
  /\ clock \in 0..MaxClock

-----------------------------------------------------------------------------
(* Every process is down at first and the store does not exist yet.         *)

Idle == [t \in Threads |-> "idle"]

Init ==
  /\ dirs = {} /\ profiles = {} /\ sandboxes = {} /\ worked = {}
  /\ created = [i \in Ids |-> 0]
  /\ marker = NoId
  /\ hub = "down"
  /\ lock = NoThread
  /\ pc = Idle
  /\ job = [t \in Threads |-> "none"]
  /\ arg = [t \in Threads |-> NoId]
  /\ todo = {}
  /\ clock = 0

Target(t, i) == arg' = [arg EXCEPT ![t] = i]
Goto(t, place) == pc' = [pc EXCEPT ![t] = place]
GoIdle(t) ==
  /\ pc' = [pc EXCEPT ![t] = "idle"]
  /\ job' = [job EXCEPT ![t] = "none"]
  /\ arg' = [arg EXCEPT ![t] = NoId]

(* serve() starts by making sure that there is a primary agent.             *)
Boot ==
  /\ hub \in {"down", "failed"}
  /\ hub' = "booting"
  /\ pc' = [pc EXCEPT ![Main] = "ensure"]
  /\ job' = [job EXCEPT ![Main] = "boot"]
  /\ UNCHANGED <<disk, lock, arg, todo, clock>>

(* The process dies: its threads and its lock vanish, the disk does not.    *)
Crash ==
  /\ hub \in {"booting", "up"}
  /\ hub' = "down"
  /\ lock' = NoThread
  /\ pc' = Idle
  /\ job' = [t \in Threads |-> "none"]
  /\ arg' = [t \in Threads |-> NoId]
  /\ todo' = {}
  /\ UNCHANGED <<disk, clock>>

Tick ==
  /\ clock < MaxClock
  /\ clock' = clock + 1
  /\ UNCHANGED <<disk, hub, lock, pc, job, arg, todo>>

(* A handler picks up a request; get stands for get_agent and rename_agent, *)
(* which differ only in the display name the latter rewrites.               *)
Request(t, j, i) ==
  /\ hub = "up"
  /\ t \in Handlers /\ pc[t] = "idle"
  /\ j = "resolve" => t \in Resolvers
  /\ job' = [job EXCEPT ![t] = j]
  /\ Target(t, i)
  /\ Goto(t, CASE j = "list" -> "ensure"
               [] j \in {"get", "resolve"} -> "load")
  /\ UNCHANGED <<disk, hub, lock, todo, clock>>

RequestList(t) == Request(t, "list", NoId)
RequestAgent(t) ==
  \E i \in Ids, j \in {"get", "resolve"} : Request(t, j, i)

-----------------------------------------------------------------------------
(* Where a thread continues once ensure_primary or a creation is over: the  *)
(* hub goes on to its seed session, /api/agents to list_agents.             *)

Return(t) ==
  CASE job[t] = "boot" -> /\ Goto(t, "load")
                          /\ Target(t, PrimaryId)
                          /\ UNCHANGED job
    [] job[t] = "list" -> Goto(t, "list") /\ UNCHANGED <<job, arg>>
    [] job[t] = "create" -> GoIdle(t)

(* ensure_primary: nothing to do when the marker names an agent; a lost or  *)
(* dangling marker moves to the oldest agent; without agents it creates one.*)
Ensure(t) ==
  /\ pc[t] = "ensure" /\ lock = NoThread
  /\ \/ /\ profiles # {}
        /\ marker' = IF marker \in profiles THEN marker
                     ELSE Oldest(profiles, created)
        /\ Return(t)
        /\ UNCHANGED lock
     \/ /\ profiles = {}
        /\ lock' = t
        /\ Goto(t, "mkdir")
        /\ Target(t, PrimaryId)
        /\ UNCHANGED <<marker, job>>
  /\ UNCHANGED <<dirs, profiles, sandboxes, worked, created,
                 hub, todo, clock>>

(* create_agent takes the lock and an id no directory has: _fresh_id looks  *)
(* at every name in the root, not only at directories that hold a profile.  *)
UnusedId(i) == i \in Ids \ profiles
FreshId(i) == i \in Ids \ dirs

StartCreate(t) ==
  /\ hub = "up" /\ t \in Handlers
  /\ pc[t] = "idle" /\ lock = NoThread
  /\ lock' = t
  /\ \E i \in Ids : FreshId(i) /\ Target(t, i)
  /\ job' = [job EXCEPT ![t] = "create"]
  /\ Goto(t, "mkdir")
  /\ UNCHANGED <<disk, hub, todo, clock>>

(* _create_locked: directories first, then the profile, then the marker.    *)
MakeDirs(t) ==
  /\ pc[t] = "mkdir"
  /\ dirs' = dirs \cup {arg[t]}
  /\ sandboxes' = sandboxes \cup {arg[t]}
  /\ Goto(t, "profile")
  /\ UNCHANGED <<profiles, worked, created, marker,
                 hub, lock, job, arg, todo, clock>>

WriteProfile(t) ==
  /\ pc[t] = "profile"
  /\ dirs' = dirs \cup {arg[t]}
  /\ profiles' = profiles \cup {arg[t]}
  /\ created' = [created EXCEPT ![arg[t]] = clock]
  /\ Goto(t, "marker")
  /\ UNCHANGED <<sandboxes, worked, marker, hub, lock, job, arg, todo,
                 clock>>

WriteMarkerAlways(t) ==
  /\ pc[t] = "marker"
  /\ marker' = arg[t]
  /\ lock' = NoThread
  /\ Return(t)
  /\ UNCHANGED <<dirs, profiles, sandboxes, worked, created,
                 hub, todo, clock>>

WriteMarker(t) ==
  /\ pc[t] = "marker"
  /\ marker' = IF marker \in profiles THEN marker ELSE arg[t]
  /\ lock' = NoThread
  /\ Return(t)
  /\ UNCHANGED <<dirs, profiles, sandboxes, worked, created,
                 hub, todo, clock>>

(* list_agents, one locked read of everything.                              *)
ListAgents(t) ==
  /\ pc[t] = "list" /\ lock = NoThread
  /\ GoIdle(t)
  /\ UNCHANGED <<disk, hub, lock, todo, clock>>

-----------------------------------------------------------------------------
(* get_agent, rename_agent and resolve_sandbox_cwd.                         *)

(* Unknown agents raise KeyError: a handler answers 404, serve() exits.  A  *)
(* known one's marker is read once more, without the lock, for is_primary:  *)
(* that read decides nothing but the reply and is left out.                 *)
Load(t) ==
  /\ pc[t] = "load" /\ lock = NoThread
  /\ \/ /\ arg[t] \in profiles
        /\ IF job[t] = "get" THEN GoIdle(t)
           ELSE Goto(t, "mksandbox") /\ UNCHANGED <<job, arg>>
        /\ UNCHANGED hub
     \/ /\ arg[t] \notin profiles
        /\ GoIdle(t)
        /\ hub' = IF t = Main THEN "failed" ELSE hub
  /\ UNCHANGED <<disk, lock, todo, clock>>

(* mkdir(parents=True, exist_ok=True), without the registry lock.  When it  *)
(* was the seed session's, the hub is up: the bridge prewarms on its own.   *)
MakeSandbox(t) ==
  /\ pc[t] = "mksandbox"
  /\ dirs' = dirs \cup {arg[t]}
  /\ sandboxes' = sandboxes \cup {arg[t]}
  /\ GoIdle(t)
  /\ hub' = IF t = Main THEN "up" ELSE hub
  /\ UNCHANGED <<profiles, worked, created, marker, lock, todo, clock>>

-----------------------------------------------------------------------------
(* delete_agent: rmtree removes the profile and the sandbox in the order    *)
(* the file system lists them, then the directory, then the marker moves.   *)

AnyDeletable(i) == i \in profiles
Deletable(i) == i \in profiles /\ profiles # {i}

StartDelete(t, i) ==
  /\ hub = "up" /\ t \in Handlers
  /\ pc[t] = "idle" /\ lock = NoThread
  /\ Deletable(i)
  /\ lock' = t
  /\ job' = [job EXCEPT ![t] = "delete"]
  /\ Target(t, i)
  /\ Goto(t, "rmtree")
  /\ todo' = {"profile"} \cup (IF i \in sandboxes THEN {"sandbox"} ELSE {})
  /\ UNCHANGED <<disk, hub, clock>>

RemoveProfile(t) ==
  /\ pc[t] = "rmtree" /\ "profile" \in todo
  /\ todo' = todo \ {"profile"}
  /\ profiles' = profiles \ {arg[t]}
  /\ created' = [created EXCEPT ![arg[t]] = 0]
  /\ UNCHANGED <<dirs, sandboxes, worked, marker,
                 hub, lock, pc, job, arg, clock>>

RemoveSandbox(t) ==
  /\ pc[t] = "rmtree" /\ "sandbox" \in todo
  /\ todo' = todo \ {"sandbox"}
  /\ sandboxes' = sandboxes \ {arg[t]}
  /\ worked' = worked \ {arg[t]}
  /\ UNCHANGED <<dirs, profiles, created, marker,
                 hub, lock, pc, job, arg, clock>>

(* rmdir fails, and delete_agent with it, when somebody has recreated the   *)
(* sandbox since the directory was listed.                                  *)
RemoveDir(t) ==
  /\ pc[t] = "rmtree" /\ todo = {}
  /\ \/ /\ arg[t] \notin sandboxes
        /\ dirs' = dirs \ {arg[t]}
        /\ Goto(t, "remark")
        /\ UNCHANGED <<lock, job, arg>>
     \/ /\ arg[t] \in sandboxes
        /\ lock' = NoThread
        /\ GoIdle(t)
        /\ UNCHANGED dirs
  /\ UNCHANGED <<profiles, sandboxes, worked, created, marker,
                 hub, todo, clock>>

RemarkNever(t) ==
  /\ pc[t] = "remark"
  /\ lock' = NoThread
  /\ GoIdle(t)
  /\ UNCHANGED <<disk, hub, todo, clock>>

Remark(t) ==
  /\ pc[t] = "remark"
  /\ marker' = IF marker = arg[t] THEN Oldest(profiles, created) ELSE marker
  /\ lock' = NoThread
  /\ GoIdle(t)
  /\ UNCHANGED <<dirs, profiles, sandboxes, worked, created,
                 hub, todo, clock>>

(* An engine session leaves files in the sandbox of its agent.  Sessions    *)
(* that outlive their agent are the subject of SessionManager.              *)
Work(i) ==
  /\ hub = "up"
  /\ i \in profiles \cap sandboxes
  /\ worked' = worked \cup {i}
  /\ UNCHANGED <<dirs, profiles, sandboxes, created, marker,
                 hub, lock, pc, job, arg, todo, clock>>

-----------------------------------------------------------------------------

Step(t) ==
  \/ Ensure(t) \/ StartCreate(t) \/ MakeDirs(t) \/ WriteProfile(t)
  \/ WriteMarker(t) \/ ListAgents(t) \/ Load(t)
  \/ MakeSandbox(t) \/ RemoveProfile(t) \/ RemoveSandbox(t) \/ RemoveDir(t)
  \/ Remark(t) \/ RequestList(t) \/ RequestAgent(t)
  \/ \E i \in Ids : StartDelete(t, i)

Next ==
  \/ \E t \in Threads : Step(t)
  \/ \E i \in Ids : Work(i)
  \/ Boot \/ Crash \/ Tick

Spec == Init /\ [][Next]_vars

-----------------------------------------------------------------------------
(* Properties.                                                              *)

(* ensure_primary: "exactly one is primary", as /api/agents relies on it.   *)
(* Between the ensure_primary and the list_agents of a request the lock is  *)
(* free and other operations run, yet when list_agents gets it the marker   *)
(* names an agent.                                                          *)
ListShowsOnePrimary ==
  \A t \in Threads :
    pc[t] = "list" /\ lock = NoThread => marker \in profiles

(* delete_agent: "the last remaining agent can never be deleted", whatever  *)
(* deletions run concurrently and wherever the process dies.                *)
LastAgentStays == [][profiles # {} => profiles' # {}]_vars

(* create_agent returns an agent with an "empty sandbox": the directories   *)
(* a creation finds or makes never hold the files of an earlier agent, not  *)
(* even when the process died in the middle of that agent's deletion.       *)
FreshSandbox ==
  \A t \in Threads : pc[t] \in {"mkdir", "profile"} => arg[t] \notin worked

(* Every operation on the registry takes effect at one moment, crashes      *)
(* included.  An agent exists while its profile does, and until a marker    *)
(* that a crash has left dangling is repaired the oldest agent counts as    *)
(* primary: the one the repair chooses.                                     *)
PrimaryOf ==
  IF marker \in profiles THEN marker
  ELSE IF profiles = {} THEN NoId ELSE Oldest(profiles, created)

Dir == INSTANCE AgentDirectory
         WITH agents <- profiles, born <- created, primary <- PrimaryOf

ImplementsDirectory == Dir!Spec
=============================================================================

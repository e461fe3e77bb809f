------------------------ MODULE AgentRegistryProofs -------------------------
(***************************************************************************)
(* Proofs about AgentRegistry, for any set of ids, any number of handlers  *)
(* and any bound on the clock.                                             *)
(*                                                                         *)
(* Two inductive invariants are used.  Safe holds whoever resolves         *)
(* sandboxes; types, the survival of the last agent and the freshness of   *)
(* sandboxes follow from it.  Serving adds where the marker is while the   *)
(* hub serves and needs that no handler resolves a sandbox in the middle   *)
(* of a deletion; that a listing shows one primary and that the registry   *)
(* implements AgentDirectory follow from both.                             *)
(***************************************************************************)
EXTENDS AgentRegistry, AgentOrder, WellFoundedInduction, TLAPS

-----------------------------------------------------------------------------
(* The oldest of a set of agents is one of them.                            *)

LessThan == {p \in Nat \X Nat : p[1] < p[2]}

(* Every set of numbers has a least element.                                *)
LEMMA LeastNumber ==
  ASSUME NEW T, T \subseteq Nat, T # {}
  PROVE  \E x \in T : \A y \in T : x <= y
<1>1. IsWellFoundedOn(LessThan, Nat)
  <2>1. OpToRel(<, Nat) = LessThan
    BY SMT DEF OpToRel, LessThan
  <2> QED BY <2>1, NatLessThanWellFounded
<1>2. PICK x \in T : \A y \in T : ~(<<y, x>> \in LessThan)
  BY <1>1, WFMin, Zenon
<1>3. ASSUME NEW y \in T PROVE x <= y
  <2>1. x \in Nat /\ y \in Nat
    OBVIOUS
  <2>2. <<y, x>> \notin LessThan
    BY <1>2
  <2>3. y < x => <<y, x>> \in LessThan
    BY <2>1, SMT DEF LessThan
  <2> QED BY <2>1, <2>2, <2>3, SMT
<1> QED BY <1>3

(* Oldest(S, age), of which ensure_primary and delete_agent take the id, is *)
(* a member of S, and the first one, whenever S is not empty.               *)
LEMMA OldestIsFirst ==
  ASSUME NEW D, D \subseteq Nat, NEW age \in [D -> Nat],
         NEW S, S \subseteq D, S # {}
  PROVE  /\ Oldest(S, age) \in S
         /\ \A b \in S : Older(age, Oldest(S, age), b)
<1> DEFINE Ages == {age[a] : a \in S}
<1>1. PICK n \in Ages : \A m \in Ages : n <= m
  <2>1. Ages \subseteq Nat /\ Ages # {}
    OBVIOUS
  <2> HIDE DEF Ages
  <2> QED BY <2>1, LeastNumber
<1> DEFINE Eldest == {a \in S : age[a] = n}
<1>2. PICK a \in Eldest : \A b \in Eldest : a <= b
  <2>1. Eldest \subseteq Nat /\ Eldest # {}
    OBVIOUS
  <2> HIDE DEF Eldest
  <2> QED BY <2>1, LeastNumber
<1>3. ASSUME NEW b \in S PROVE Older(age, a, b)
  BY <1>1, <1>2, SMT DEF Older
<1>4. a \in S
  OBVIOUS
<1> QED BY <1>3, <1>4, Zenon DEF Oldest

-----------------------------------------------------------------------------
(* The invariants.                                                          *)

(* Places where a thread holds the lock, and among them those of a creation.*)
Locked == {"mkdir", "profile", "marker", "rmtree", "remark"}
Creating == {"mkdir", "profile", "marker"}

LockInv == \A t \in Threads : lock = t <=> pc[t] \in Locked

(* An agent works in a sandbox, which is in a directory, as its profile is. *)
StoreInv ==
  /\ worked \subseteq sandboxes
  /\ sandboxes \subseteq dirs
  /\ profiles \subseteq dirs
  /\ profiles = {} => worked = {}

ThreadInv(t) ==
  /\ t = Main /\ pc[t] # "idle" => hub = "booting"
  /\ pc[t] \notin {"idle", "ensure", "list"} => arg[t] \in Ids
  /\ pc[t] = "ensure" => job[t] \in {"boot", "list"}
  /\ pc[t] \in Creating => job[t] \in {"boot", "list", "create"}
  /\ pc[t] \in {"mkdir", "profile"} => arg[t] \notin worked \cup profiles
  /\ pc[t] = "marker" => arg[t] \in profiles
  /\ pc[t] = "rmtree" /\ "profile" \in todo =>
       arg[t] \in profiles /\ profiles # {arg[t]}
  /\ (pc[t] = "rmtree" /\ "profile" \notin todo) \/ pc[t] = "remark" =>
       arg[t] \notin profiles /\ profiles # {}

ThreadsInv == \A t \in Threads : ThreadInv(t)

Safe == TypeOK /\ LockInv /\ StoreInv /\ ThreadsInv

(* Handlers work while the hub is up, the main thread before that.          *)
HubInv ==
  /\ hub # "up" => \A t \in Handlers : pc[t] = "idle"
  /\ pc[Main] # "idle" => job[Main] = "boot"
  /\ pc[Main] \notin {"list", "rmtree", "remark"}
  /\ pc[Main] \in {"mkdir", "profile"} => profiles = {}
  /\ pc[Main] = "marker" => profiles = {arg[Main]}
  /\ \A t \in Handlers : /\ job[t] \notin {"boot", "resolve"}
                         /\ pc[t] # "mksandbox"
                         /\ pc[t] = "load" => job[t] = "get"

(* Once the hub has begun to serve, only a deletion under way leaves the    *)
(* marker dangling, and nothing recreates the sandbox that it has removed.  *)
Served == hub = "up" \/ pc[Main] \in {"load", "mksandbox"}

MarkerInv ==
  /\ Served => \/ marker \in profiles
               \/ /\ lock \in Handlers /\ pc[lock] \in {"rmtree", "remark"}
                  /\ marker = arg[lock]
  /\ \A t \in Handlers :
       pc[t] = "rmtree" /\ "sandbox" \notin todo => arg[t] \notin sandboxes

Serving == HubInv /\ MarkerInv

-----------------------------------------------------------------------------
(* Safe is inductive.                                                       *)

(* The type invariant in two parts, the disk's and the process's.           *)
DiskTypes ==
  /\ dirs \subseteq Ids /\ profiles \subseteq Ids /\ sandboxes \subseteq Ids
  /\ worked \subseteq Ids
  /\ created \in [Ids -> Nat]
  /\ marker \in Ids \cup {NoId}

ProcTypes ==
  /\ hub \in {"down", "booting", "up", "failed"}
  /\ lock \in Threads \cup {NoThread}
  /\ pc \in [Threads -> Places]
  /\ job \in [Threads -> Jobs]
  /\ arg \in [Threads -> Ids \cup {NoId}]
  /\ todo \subseteq {"profile", "sandbox"}
  /\ clock \in 0..MaxClock

LEMMA TypesSplit == (TypeOK <=> DiskTypes /\ ProcTypes)
                    /\ (TypeOK' <=> DiskTypes' /\ ProcTypes')
  BY DEF TypeOK, DiskTypes, ProcTypes

LEMMA InitSafe == Init => Safe
  BY RegistryAssumption, SMT
  DEF Init, Safe, TypeOK, LockInv, StoreInv, ThreadsInv, ThreadInv, Idle,
      Threads, Places, Jobs, Locked, Creating

(* Where ensure_primary and a creation continue.                            *)
LEMMA ReturnTypes ==
  ASSUME TypeOK, NEW t \in Threads, job[t] \in {"boot", "list", "create"},
         Return(t)
  PROVE  /\ pc' \in [Threads -> Places]
         /\ job' \in [Threads -> Jobs]
         /\ arg' \in [Threads -> Ids \cup {NoId}]
         /\ \A u \in Threads \ {t} : /\ pc'[u] = pc[u]
                                     /\ job'[u] = job[u]
                                     /\ arg'[u] = arg[u]
         /\ pc'[t] \in {"load", "list", "idle"}
         /\ pc'[t] = "load" => arg'[t] \in Ids
<1>1. CASE job[t] = "boot"
  BY <1>1, RegistryAssumption, SMT
  DEF Return, TypeOK, Goto, Target, Places, Jobs
<1>2. CASE job[t] = "list"
  BY <1>2, SMT DEF Return, TypeOK, Goto, Places, Jobs
<1>3. CASE job[t] = "create"
  BY <1>3, SMT DEF Return, TypeOK, GoIdle, Places, Jobs
<1> QED BY <1>1, <1>2, <1>3

(* The lock keeps the other threads out of the places where it is held.     *)
LEMMA Excluded ==
  ASSUME LockInv, NEW t \in Threads, NEW u \in Threads,
         pc[t] \in Locked \/ lock = NoThread, t # u
  PROVE  pc[u] \notin Locked
BY RegistryAssumption DEF LockInv, Threads

-----------------------------------------------------------------------------
(* Every action preserves Safe.                                             *)

LEMMA RequestSafe ==
  ASSUME Safe, NEW t \in Threads, NEW j, NEW i,
         \/ j = "list" /\ i = NoId
         \/ j \in {"get", "resolve"} /\ i \in Ids,
         Request(t, j, i)
  PROVE  Safe'
<1> USE RegistryAssumption
<1>1. TypeOK /\ StoreInv /\ LockInv /\ ThreadsInv
  BY DEF Safe
<1>2. TypeOK'
  BY <1>1, SMT
  DEF TypeOK, Places, Jobs, Request, Goto, Target, disk
<1>3. LockInv'
  BY <1>1, SMT DEF TypeOK, LockInv, Locked, Request, Goto, disk
<1>4. StoreInv'
  BY <1>1 DEF StoreInv, Request, disk
<1>5. ThreadsInv'
  <2> SUFFICES ASSUME NEW u \in Threads PROVE ThreadInv(u)'
    BY DEF ThreadsInv
  <2> QED
    BY <1>1, SMT
    DEF TypeOK, ThreadsInv, ThreadInv, Creating, Request, Goto, Target, disk
<1> QED BY <1>2, <1>3, <1>4, <1>5 DEF Safe

LEMMA StartDeleteSafe ==
  ASSUME Safe, NEW t \in Threads, NEW i \in Ids, StartDelete(t, i)
  PROVE  Safe'
<1> USE RegistryAssumption
<1>1. TypeOK /\ StoreInv /\ LockInv /\ ThreadsInv
  BY DEF Safe
<1>2. TypeOK'
  BY <1>1, SMT
  DEF TypeOK, Places, Jobs, StartDelete, Goto, Target, disk
<1>3. LockInv'
  BY <1>1, SMT
  DEF TypeOK, LockInv, Locked, Threads, StartDelete, Goto, disk
<1>4. StoreInv'
  BY <1>1 DEF StoreInv, StartDelete, disk
<1>5. ThreadsInv'
  <2> SUFFICES ASSUME NEW u \in Threads PROVE ThreadInv(u)'
    BY DEF ThreadsInv
  <2>1. pc[u] \notin Locked
    BY <1>1 DEF LockInv, StartDelete, Threads
  <2> QED
    BY <1>1, <2>1, SMT
    DEF TypeOK, ThreadsInv, ThreadInv, Creating, Locked, StartDelete,
        Deletable, Goto, Target, disk
<1> QED BY <1>2, <1>3, <1>4, <1>5 DEF Safe

LEMMA WorkSafe ==
  ASSUME Safe, NEW i \in Ids, Work(i)
  PROVE  Safe'
<1>1. TypeOK /\ StoreInv /\ LockInv /\ ThreadsInv
  BY DEF Safe
<1>2. TypeOK'
  BY <1>1, SMT DEF TypeOK, Work
<1>3. LockInv'
  BY <1>1 DEF LockInv, Work
<1>4. StoreInv'
  BY <1>1 DEF StoreInv, Work
<1>5. ThreadsInv'
  BY <1>1, SMT DEF ThreadsInv, ThreadInv, Work
<1> QED BY <1>2, <1>3, <1>4, <1>5 DEF Safe

(* Starting, crashing and the clock.                                        *)
LEMMA HubSafe ==
  ASSUME Safe, Boot \/ Crash \/ Tick
  PROVE  Safe'
<1> USE RegistryAssumption
<1>1. TypeOK /\ StoreInv /\ LockInv /\ ThreadsInv
  BY DEF Safe
<1>2. CASE Boot
  <2>1. TypeOK'
    BY <1>1, <1>2, SMT DEF TypeOK, Places, Jobs, Threads, Boot, disk
  <2> QED
    BY <1>1, <1>2, <2>1, SMT
    DEF Safe, TypeOK, LockInv, StoreInv, ThreadsInv, ThreadInv, Creating,
        Locked, Threads, Boot, disk
<1>3. CASE Crash
  <2>1. TypeOK'
    BY <1>1, <1>3, SMT DEF TypeOK, Places, Jobs, Threads, Idle, Crash, disk
  <2> QED
    BY <1>1, <1>3, <2>1, SMT
    DEF Safe, LockInv, StoreInv, ThreadsInv, ThreadInv, Creating,
        Locked, Threads, Idle, Crash, disk
<1>4. CASE Tick
  BY <1>1, <1>4, SMT
  DEF Safe, TypeOK, LockInv, StoreInv, ThreadsInv, ThreadInv, Tick, disk
<1> QED BY <1>2, <1>3, <1>4

(* A thread's step preserves Safe: one case for each action.                *)
LEMMA StepSafe ==
  ASSUME Safe, NEW t \in Threads, Step(t)
  PROVE  Safe'
<1> USE RegistryAssumption
<1>1. /\ TypeOK /\ DiskTypes /\ ProcTypes
      /\ StoreInv /\ LockInv /\ ThreadInv(t)
  BY TypesSplit DEF Safe, ThreadsInv
<1>2. ASSUME NEW u \in Threads \ {t}
      PROVE  /\ ThreadInv(u)
             /\ pc[t] \in Locked \/ lock = NoThread => pc[u] \notin Locked
  BY <1>1, Excluded DEF Safe, ThreadsInv
<1>3. CASE Ensure(t)
  <2>1. profiles # {} => Oldest(profiles, created) \in Ids
    BY <1>1, OldestIsFirst DEF DiskTypes
  <2>2. DiskTypes' /\ StoreInv'
    BY <1>1, <1>3, <2>1, SMT
    DEF DiskTypes, ThreadInv, StoreInv, Ensure, Goto, Target
  <2>3. ProcTypes'
    BY <1>1, <1>3, ReturnTypes, SMT
    DEF ProcTypes, ThreadInv, Places, Jobs, Creating, Ensure, Goto, Target
  <2>4. LockInv'
    BY <1>1, <1>3, ReturnTypes, SMT
    DEF ProcTypes, LockInv, ThreadInv, Creating, Locked, Threads, Ensure,
        Goto, Target
  <2>5. ThreadInv(t)'
    BY <1>1, <1>3, ReturnTypes, SMT
    DEF DiskTypes, ProcTypes, StoreInv, ThreadInv, Creating, Ensure, Goto,
        Target
  <2>6. ASSUME NEW u \in Threads \ {t} PROVE ThreadInv(u)'
    BY <1>1, <1>3, <1>2, ReturnTypes, SMT
    DEF DiskTypes, ProcTypes, ThreadInv, Creating, Locked, Ensure, Goto,
        Target
  <2> QED BY <2>2, <2>3, <2>4, <2>5, <2>6, TypesSplit DEF Safe, ThreadsInv
<1>4. CASE StartCreate(t)
  <2>2. DiskTypes' /\ StoreInv'
    BY <1>1, <1>4, SMT
    DEF DiskTypes, ThreadInv, StoreInv, StartCreate, FreshId, Goto, Target,
        disk
  <2>3. ProcTypes'
    BY <1>1, <1>4, SMT
    DEF ProcTypes, ThreadInv, Places, Jobs, Creating, StartCreate, FreshId,
        Goto, Target, disk
  <2>4. LockInv'
    BY <1>1, <1>4, SMT
    DEF ProcTypes, LockInv, ThreadInv, Creating, Locked, Threads, StartCreate,
        FreshId, Goto, Target, disk
  <2>5. ThreadInv(t)'
    BY <1>1, <1>4, SMT
    DEF DiskTypes, ProcTypes, StoreInv, ThreadInv, Creating, StartCreate,
        FreshId, Goto, Target, disk
  <2>6. ASSUME NEW u \in Threads \ {t} PROVE ThreadInv(u)'
    BY <1>1, <1>4, <1>2, SMT
    DEF DiskTypes, ProcTypes, ThreadInv, Creating, Locked, StartCreate,
        FreshId, Goto, Target, disk
  <2> QED BY <2>2, <2>3, <2>4, <2>5, <2>6, TypesSplit DEF Safe, ThreadsInv
<1>5. CASE MakeDirs(t)
  <2>1. /\ arg[t] \in Ids
        /\ dirs' = dirs \cup {arg[t]} /\ sandboxes' = sandboxes \cup {arg[t]}
        /\ UNCHANGED <<profiles, worked, created, marker>>
    BY <1>1, <1>5, SMT DEF DiskTypes, ProcTypes, StoreInv, ThreadInv, MakeDirs
  <2>2. DiskTypes' /\ StoreInv'
    BY <1>1, <2>1 DEF DiskTypes, StoreInv
  <2>3. ProcTypes'
    BY <1>1, <1>5, SMT
    DEF ProcTypes, ThreadInv, Places, Jobs, Creating, MakeDirs, Goto
  <2>4. LockInv'
    BY <1>1, <1>5, SMT
    DEF ProcTypes, LockInv, ThreadInv, Creating, Locked, Threads, MakeDirs,
        Goto
  <2>5. ThreadInv(t)'
    BY <1>1, <1>5, SMT
    DEF DiskTypes, ProcTypes, StoreInv, ThreadInv, Creating, MakeDirs, Goto
  <2>6. ASSUME NEW u \in Threads \ {t} PROVE ThreadInv(u)'
    BY <1>1, <1>5, <1>2, SMT
    DEF DiskTypes, ProcTypes, ThreadInv, Creating, Locked, MakeDirs, Goto
  <2> QED BY <2>2, <2>3, <2>4, <2>5, <2>6, TypesSplit DEF Safe, ThreadsInv
<1>6. CASE WriteProfile(t)
  <2>1. /\ arg[t] \in Ids /\ arg[t] \notin worked
        /\ dirs' = dirs \cup {arg[t]} /\ profiles' = profiles \cup {arg[t]}
        /\ created' = [created EXCEPT ![arg[t]] = clock] /\ clock \in Nat
        /\ UNCHANGED <<sandboxes, worked, marker>>
    BY <1>1, <1>6, SMT
    DEF DiskTypes, ProcTypes, StoreInv, ThreadInv, WriteProfile
  <2>2. DiskTypes' /\ StoreInv'
    BY <1>1, <2>1 DEF DiskTypes, StoreInv
  <2>3. ProcTypes'
    BY <1>1, <1>6, SMT
    DEF ProcTypes, ThreadInv, Places, Jobs, Creating, WriteProfile, Goto
  <2>4. LockInv'
    BY <1>1, <1>6, SMT
    DEF ProcTypes, LockInv, ThreadInv, Creating, Locked, Threads,
        WriteProfile, Goto
  <2>5. ThreadInv(t)'
    BY <1>1, <1>6, SMT
    DEF DiskTypes, ProcTypes, StoreInv, ThreadInv, Creating, WriteProfile,
        Goto
  <2>6. ASSUME NEW u \in Threads \ {t} PROVE ThreadInv(u)'
    BY <1>1, <1>6, <1>2, SMT
    DEF DiskTypes, ProcTypes, ThreadInv, Creating, Locked, WriteProfile, Goto
  <2> QED BY <2>2, <2>3, <2>4, <2>5, <2>6, TypesSplit DEF Safe, ThreadsInv
<1>7. CASE WriteMarker(t)
  <2>2. DiskTypes' /\ StoreInv'
    BY <1>1, <1>7, SMT DEF DiskTypes, ThreadInv, StoreInv, WriteMarker
  <2>3. ProcTypes'
    BY <1>1, <1>7, ReturnTypes, SMT
    DEF ProcTypes, ThreadInv, Places, Jobs, Creating, WriteMarker
  <2>4. LockInv'
    BY <1>1, <1>7, ReturnTypes, SMT
    DEF ProcTypes, LockInv, ThreadInv, Creating, Locked, Threads, WriteMarker
  <2>5. ThreadInv(t)'
    BY <1>1, <1>7, ReturnTypes, SMT
    DEF DiskTypes, ProcTypes, StoreInv, ThreadInv, Creating, WriteMarker
  <2>6. ASSUME NEW u \in Threads \ {t} PROVE ThreadInv(u)'
    BY <1>1, <1>7, <1>2, ReturnTypes, SMT
    DEF DiskTypes, ProcTypes, ThreadInv, Creating, Locked, WriteMarker
  <2> QED BY <2>2, <2>3, <2>4, <2>5, <2>6, TypesSplit DEF Safe, ThreadsInv
<1>8. CASE ListAgents(t)
  <2>2. DiskTypes' /\ StoreInv'
    BY <1>1, <1>8, SMT
    DEF DiskTypes, ThreadInv, StoreInv, ListAgents, GoIdle, disk
  <2>3. ProcTypes'
    BY <1>1, <1>8, SMT
    DEF ProcTypes, ThreadInv, Places, Jobs, Creating, ListAgents, GoIdle, disk
  <2>4. LockInv'
    BY <1>1, <1>8, SMT
    DEF ProcTypes, LockInv, ThreadInv, Creating, Locked, Threads, ListAgents,
        GoIdle, disk
  <2>5. ThreadInv(t)'
    BY <1>1, <1>8, SMT
    DEF DiskTypes, ProcTypes, StoreInv, ThreadInv, Creating, ListAgents,
        GoIdle, disk
  <2>6. ASSUME NEW u \in Threads \ {t} PROVE ThreadInv(u)'
    BY <1>1, <1>8, <1>2, SMT
    DEF DiskTypes, ProcTypes, ThreadInv, Creating, Locked, ListAgents, GoIdle,
        disk
  <2> QED BY <2>2, <2>3, <2>4, <2>5, <2>6, TypesSplit DEF Safe, ThreadsInv
<1>9. CASE Load(t)
  <2>2. DiskTypes' /\ StoreInv'
    BY <1>1, <1>9, SMT
    DEF DiskTypes, ThreadInv, StoreInv, Load, Goto, GoIdle, disk
  <2>3. ProcTypes'
    BY <1>1, <1>9, SMT
    DEF ProcTypes, ThreadInv, Places, Jobs, Load, Goto, GoIdle, disk
  <2>4. LockInv'
    BY <1>1, <1>9, SMT
    DEF ProcTypes, LockInv, ThreadInv, Creating, Locked, Threads, Load, Goto,
        GoIdle, disk
  <2>5. ThreadInv(t)'
    BY <1>1, <1>9, SMT
    DEF DiskTypes, ProcTypes, StoreInv, ThreadInv, Creating, Load, Goto,
        GoIdle, disk
  <2>6. ASSUME NEW u \in Threads \ {t} PROVE ThreadInv(u)'
    BY <1>1, <1>9, <1>2, SMT
    DEF DiskTypes, ProcTypes, ThreadInv, Creating, Locked, Load, Goto, GoIdle,
        disk
  <2> QED BY <2>2, <2>3, <2>4, <2>5, <2>6, TypesSplit DEF Safe, ThreadsInv
<1>10. CASE MakeSandbox(t)
  <2>1. /\ arg[t] \in Ids
        /\ dirs' = dirs \cup {arg[t]} /\ sandboxes' = sandboxes \cup {arg[t]}
        /\ UNCHANGED <<profiles, worked, created, marker>>
    BY <1>1, <1>10, SMT
    DEF DiskTypes, ProcTypes, StoreInv, ThreadInv, MakeSandbox
  <2>2. DiskTypes' /\ StoreInv'
    BY <1>1, <2>1 DEF DiskTypes, StoreInv
  <2>3. ProcTypes'
    BY <1>1, <1>10, SMT
    DEF ProcTypes, ThreadInv, Places, Jobs, Creating, MakeSandbox, GoIdle
  <2>4. LockInv'
    BY <1>1, <1>10, SMT
    DEF ProcTypes, LockInv, ThreadInv, Creating, Locked, Threads, MakeSandbox,
        GoIdle
  <2>5. ThreadInv(t)'
    BY <1>1, <1>10, SMT
    DEF DiskTypes, ProcTypes, StoreInv, ThreadInv, Creating, MakeSandbox,
        GoIdle
  <2>6. ASSUME NEW u \in Threads \ {t} PROVE ThreadInv(u)'
    BY <1>1, <1>10, <1>2, SMT
    DEF DiskTypes, ProcTypes, ThreadInv, Creating, Locked, MakeSandbox, GoIdle
  <2> QED BY <2>2, <2>3, <2>4, <2>5, <2>6, TypesSplit DEF Safe, ThreadsInv
<1>11. CASE RemoveProfile(t)
  <2>1. /\ arg[t] \in Ids /\ profiles # {} /\ profiles # {arg[t]}
        /\ profiles' = profiles \ {arg[t]}
        /\ created' = [created EXCEPT ![arg[t]] = 0]
        /\ UNCHANGED <<dirs, sandboxes, worked, marker>>
    BY <1>1, <1>11, SMT
    DEF DiskTypes, ProcTypes, StoreInv, ThreadInv, RemoveProfile
  <2>2. DiskTypes' /\ StoreInv'
    BY <1>1, <2>1 DEF DiskTypes, StoreInv
  <2>3. ProcTypes'
    BY <1>1, <1>11, SMT
    DEF ProcTypes, ThreadInv, Places, Jobs, Creating, RemoveProfile
  <2>4. LockInv'
    BY <1>1, <1>11, SMT
    DEF ProcTypes, LockInv, ThreadInv, Creating, Locked, Threads,
        RemoveProfile
  <2>5. ThreadInv(t)'
    BY <1>1, <1>11, SMT
    DEF DiskTypes, ProcTypes, StoreInv, ThreadInv, Creating, RemoveProfile
  <2>6. ASSUME NEW u \in Threads \ {t} PROVE ThreadInv(u)'
    BY <1>1, <1>11, <1>2, SMT
    DEF DiskTypes, ProcTypes, ThreadInv, Creating, Locked, RemoveProfile
  <2> QED BY <2>2, <2>3, <2>4, <2>5, <2>6, TypesSplit DEF Safe, ThreadsInv
<1>12. CASE RemoveSandbox(t)
  <2>1. /\ sandboxes' = sandboxes \ {arg[t]} /\ worked' = worked \ {arg[t]}
        /\ UNCHANGED <<dirs, profiles, created, marker>>
    BY <1>1, <1>12, SMT
    DEF DiskTypes, ProcTypes, StoreInv, ThreadInv, RemoveSandbox
  <2>2. DiskTypes' /\ StoreInv'
    BY <1>1, <2>1 DEF DiskTypes, StoreInv
  <2>3. ProcTypes'
    BY <1>1, <1>12, SMT
    DEF ProcTypes, ThreadInv, Places, Jobs, Creating, RemoveSandbox
  <2>4. LockInv'
    BY <1>1, <1>12, SMT
    DEF ProcTypes, LockInv, ThreadInv, Creating, Locked, Threads,
        RemoveSandbox
  <2>5. ThreadInv(t)'
    BY <1>1, <1>12, SMT
    DEF DiskTypes, ProcTypes, StoreInv, ThreadInv, Creating, RemoveSandbox
  <2>6. ASSUME NEW u \in Threads \ {t} PROVE ThreadInv(u)'
    BY <1>1, <1>12, <1>2, SMT
    DEF DiskTypes, ProcTypes, ThreadInv, Creating, Locked, RemoveSandbox
  <2> QED BY <2>2, <2>3, <2>4, <2>5, <2>6, TypesSplit DEF Safe, ThreadsInv
<1>13. CASE RemoveDir(t)
  <2>1. /\ \/ dirs' = dirs
           \/ dirs' = dirs \ {arg[t]} /\ arg[t] \notin sandboxes \cup profiles
        /\ UNCHANGED <<profiles, sandboxes, worked, created, marker>>
    BY <1>1, <1>13, SMT
    DEF DiskTypes, ProcTypes, StoreInv, ThreadInv, RemoveDir
  <2>2. DiskTypes' /\ StoreInv'
    BY <1>1, <2>1 DEF DiskTypes, StoreInv
  <2>3. ProcTypes'
    BY <1>1, <1>13, SMT
    DEF ProcTypes, ThreadInv, Places, Jobs, Creating, RemoveDir, Goto, GoIdle
  <2>4. LockInv'
    BY <1>1, <1>13, SMT
    DEF ProcTypes, LockInv, ThreadInv, Creating, Locked, Threads, RemoveDir,
        Goto, GoIdle
  <2>5. ThreadInv(t)'
    BY <1>1, <1>13, SMT
    DEF DiskTypes, ProcTypes, StoreInv, ThreadInv, Creating, RemoveDir, Goto,
        GoIdle
  <2>6. ASSUME NEW u \in Threads \ {t} PROVE ThreadInv(u)'
    BY <1>1, <1>13, <1>2, SMT
    DEF DiskTypes, ProcTypes, ThreadInv, Creating, Locked, RemoveDir, Goto,
        GoIdle
  <2> QED BY <2>2, <2>3, <2>4, <2>5, <2>6, TypesSplit DEF Safe, ThreadsInv
<1>14. CASE Remark(t)
  <2>1. profiles # {} => Oldest(profiles, created) \in Ids
    BY <1>1, OldestIsFirst DEF DiskTypes
  <2>2. DiskTypes' /\ StoreInv'
    BY <1>1, <1>14, <2>1, SMT
    DEF DiskTypes, ThreadInv, StoreInv, Remark, GoIdle
  <2>3. ProcTypes'
    BY <1>1, <1>14, SMT
    DEF ProcTypes, ThreadInv, Places, Jobs, Creating, Remark, GoIdle
  <2>4. LockInv'
    BY <1>1, <1>14, SMT
    DEF ProcTypes, LockInv, ThreadInv, Creating, Locked, Threads, Remark,
        GoIdle
  <2>5. ThreadInv(t)'
    BY <1>1, <1>14, SMT
    DEF DiskTypes, ProcTypes, StoreInv, ThreadInv, Creating, Remark, GoIdle
  <2>6. ASSUME NEW u \in Threads \ {t} PROVE ThreadInv(u)'
    BY <1>1, <1>14, <1>2, SMT
    DEF DiskTypes, ProcTypes, ThreadInv, Creating, Locked, Remark, GoIdle
  <2> QED BY <2>2, <2>3, <2>4, <2>5, <2>6, TypesSplit DEF Safe, ThreadsInv
<1>15. CASE RequestList(t)
  BY <1>15, RequestSafe DEF RequestList
<1>16. CASE RequestAgent(t)
  <2>1. PICK i \in Ids, j \in {"get", "resolve"} : Request(t, j, i)
    BY <1>16 DEF RequestAgent
  <2> QED BY <2>1, RequestSafe
<1>17. CASE \E i \in Ids : StartDelete(t, i)
  BY <1>17, StartDeleteSafe
<1> QED
  BY <1>3, <1>4, <1>5, <1>6, <1>7, <1>8, <1>9, <1>10, <1>11, <1>12,
     <1>13, <1>14, <1>15, <1>16, <1>17
  DEF Step

LEMMA NextSafe == Safe /\ [Next]_vars => Safe'
<1> SUFFICES ASSUME Safe, [Next]_vars PROVE Safe'
  OBVIOUS
<1>1. CASE \E t \in Threads : Step(t)
  BY <1>1, StepSafe
<1>2. CASE \E i \in Ids : Work(i)
  BY <1>2, WorkSafe
<1>3. CASE Boot \/ Crash \/ Tick
  BY <1>3, HubSafe
<1>4. CASE UNCHANGED vars
  BY <1>4
  DEF vars, disk, Safe, TypeOK, LockInv, StoreInv, ThreadsInv, ThreadInv
<1> QED BY <1>1, <1>2, <1>3, <1>4 DEF Next

-----------------------------------------------------------------------------
(* Safe holds in every reachable state of the registry.                     *)
THEOREM AlwaysSafe == Spec => []Safe
  BY InitSafe, NextSafe, PTL DEF Spec

(* The types of AgentRegistry are right for every number of ids and threads:*)
(* in particular Oldest is only ever taken of a store that has an agent.    *)
THEOREM Typed == Spec => []TypeOK
<1>1. Safe => TypeOK
  BY DEF Safe
<1> QED BY <1>1, AlwaysSafe, PTL

(* A creation (create_agent, or ensure_primary on an empty store) never     *)
(* hands out a sandbox in which an earlier agent has left files.            *)
THEOREM SandboxesAreFresh == Spec => []FreshSandbox
<1>1. Safe => FreshSandbox
  BY DEF Safe, ThreadsInv, ThreadInv, FreshSandbox
<1> QED BY <1>1, AlwaysSafe, PTL

(* delete_agent never deletes the last agent, whatever else runs and        *)
(* wherever the process dies: only RemoveProfile removes an agent, and it   *)
(* runs under the lock under which delete_agent has counted the agents.     *)
THEOREM LastAgentSurvives == Spec => LastAgentStays
<1>1. Safe /\ [Next]_vars => [profiles # {} => profiles' # {}]_vars
  <2> SUFFICES ASSUME Safe, Next, profiles # {} PROVE profiles' # {}
    OBVIOUS
  <2>1. ASSUME NEW t \in Threads, RemoveProfile(t) PROVE profiles' # {}
    <3>1. profiles # {arg[t]}
      BY <2>1 DEF Safe, ThreadsInv, ThreadInv, RemoveProfile
    <3> QED BY <2>1, <3>1 DEF RemoveProfile
  <2>2. ASSUME NEW t \in Threads, WriteProfile(t) PROVE profiles' # {}
    BY <2>2 DEF WriteProfile
  <2>3. ASSUME NEW t \in Threads, Step(t), ~RemoveProfile(t), ~WriteProfile(t)
        PROVE  profiles' = profiles
    BY <2>3
    DEF Step, Ensure, StartCreate, MakeDirs, WriteMarker, ListAgents, Load,
        MakeSandbox, RemoveSandbox, RemoveDir, Remark, RequestList,
        RequestAgent, Request, StartDelete, disk
  <2>4. ASSUME \/ Boot \/ Crash \/ Tick
               \/ \E i \in Ids : Work(i)
        PROVE  profiles' = profiles
    BY <2>4 DEF Boot, Crash, Tick, Work, disk
  <2> QED BY <2>1, <2>2, <2>3, <2>4 DEF Next
<1> QED BY <1>1, AlwaysSafe, PTL DEF Spec, LastAgentStays

-----------------------------------------------------------------------------
(* Serving, while no handler resolves a sandbox.                            *)

(* A handler goes on to list_agents or is done.                             *)
LEMMA HandlerReturns ==
  ASSUME NEW t, job[t] \in {"list", "create"}, Return(t)
  PROVE  \/ /\ job[t] = "list"
            /\ pc' = [pc EXCEPT ![t] = "list"]
            /\ UNCHANGED <<job, arg>>
         \/ /\ job[t] = "create"
            /\ pc' = [pc EXCEPT ![t] = "idle"]
            /\ job' = [job EXCEPT ![t] = "none"]
            /\ arg' = [arg EXCEPT ![t] = NoId]
<1>1. CASE job[t] = "list"
  BY <1>1, SMT DEF Return, Goto
<1>2. CASE job[t] = "create"
  BY <1>2, SMT DEF Return, GoIdle
<1> QED BY <1>1, <1>2

LEMMA InitServing == Init => Serving
  BY RegistryAssumption, SMT
  DEF Init, Serving, HubInv, MarkerInv, Served, Idle, Threads

LEMMA RequestServing ==
  ASSUME Resolvers = {}, Safe, Serving, NEW t \in Threads, NEW j, NEW i,
         j \in {"list", "get", "resolve"}, Request(t, j, i)
  PROVE  Serving'
<1> USE RegistryAssumption
<1>1. TypeOK /\ LockInv /\ HubInv /\ MarkerInv
  BY DEF Safe, Serving
<1>2. j # "resolve"
  BY DEF Request
<1>3. HubInv'
  BY <1>1, <1>2, SMT DEF TypeOK, HubInv, Threads, Request, Goto, Target, disk
<1>4. MarkerInv'
  BY <1>1, <1>2, SMT
  DEF TypeOK, LockInv, Locked, HubInv, MarkerInv, Served, Threads, Request,
      Goto, Target, disk
<1> QED BY <1>3, <1>4 DEF Serving

LEMMA StartDeleteServing ==
  ASSUME Resolvers = {}, Safe, Serving, NEW t \in Threads, NEW i \in Ids,
         StartDelete(t, i)
  PROVE  Serving'
<1> USE RegistryAssumption
<1>1. TypeOK /\ LockInv /\ HubInv /\ MarkerInv
  BY DEF Safe, Serving
<1>2. HubInv'
  BY <1>1, SMT DEF TypeOK, HubInv, Threads, StartDelete, Goto, Target, disk
<1>3. MarkerInv'
  BY <1>1, SMT
  DEF TypeOK, LockInv, Locked, HubInv, MarkerInv, Served, Threads,
      StartDelete, Goto, Target, disk
<1> QED BY <1>2, <1>3 DEF Serving

LEMMA HubServing ==
  ASSUME Safe, Serving,
         Boot \/ Crash \/ Tick \/ (\E i \in Ids : Work(i)) \/ UNCHANGED vars
  PROVE  Serving'
<1> USE RegistryAssumption
<1>1. TypeOK /\ LockInv /\ HubInv /\ MarkerInv
  BY DEF Safe, Serving
<1>2. CASE Boot
  BY <1>1, <1>2, SMT
  DEF Serving, TypeOK, HubInv, MarkerInv, Served, Threads, Boot, disk
<1>3. CASE Crash
  BY <1>1, <1>3, SMT
  DEF Serving, TypeOK, HubInv, MarkerInv, Served, Threads, Crash, Idle, disk
<1>4. CASE Tick \/ (\E i \in Ids : Work(i)) \/ UNCHANGED vars
  BY <1>1, <1>4
  DEF Serving, HubInv, MarkerInv, Served, Tick, Work, vars, disk
<1> QED BY <1>2, <1>3, <1>4

(* A thread's step preserves Serving: one case for each action.             *)
LEMMA StepServing ==
  ASSUME Resolvers = {}, Safe, Serving, NEW t \in Threads, Step(t)
  PROVE  Serving'
<1> USE RegistryAssumption
<1>1. TypeOK /\ LockInv /\ StoreInv /\ ThreadInv(t) /\ HubInv /\ MarkerInv
  BY DEF Safe, ThreadsInv, Serving
<1>2. CASE Ensure(t)
  <2>2. profiles # {} => Oldest(profiles, created) \in profiles
    BY <1>1, <1>2, OldestIsFirst DEF TypeOK
  <2>3. CASE t = Main
    <3>1. job[t] = "boot" /\ hub = "booting"
      BY <1>1, <1>2, <2>3 DEF HubInv, ThreadInv, Ensure
    <3>2. HubInv'
      BY <1>1, <1>2, <2>3, <3>1, SMT
      DEF TypeOK, ThreadInv, HubInv, Threads, Ensure, Return, Goto, GoIdle,
          Target
    <3>3. MarkerInv'
      BY <1>1, <1>2, <2>3, <2>2, <3>1, SMT
      DEF TypeOK, LockInv, Locked, ThreadInv, HubInv, MarkerInv, Served,
          Threads, Ensure, Return, Goto, GoIdle, Target
    <3> QED BY <3>2, <3>3 DEF Serving
  <2>4. CASE t \in Handlers
    <3>1. job[t] \in {"list", "create"} /\ hub = "up" /\ pc[Main] = "idle"
      BY <1>1, <1>2, <2>4
      DEF HubInv, ThreadInv, Creating, Safe, ThreadsInv, Threads, Ensure
    <3>2. profiles # {}
      BY <1>1, <1>2, <2>4, <3>1
      DEF MarkerInv, Served, LockInv, Locked, Ensure, Threads
    <3>3. /\ pc' = [pc EXCEPT ![t] = "list"]
          /\ UNCHANGED <<hub, job, arg, profiles, sandboxes, todo, lock>>
          /\ marker' \in profiles
      <4>1. job[t] = "list" /\ Return(t)
        BY <1>1, <1>2, <3>1, <3>2 DEF ThreadInv, Ensure
      <4>2. marker' \in profiles
        BY <1>2, <2>2, <3>2 DEF Ensure
      <4> QED BY <1>2, <3>2, <4>1, <4>2, HandlerReturns DEF Ensure
    <3>4. HubInv'
      BY <1>1, <1>2, <2>4, <3>1, <3>3, SMT DEF TypeOK, HubInv, Threads
    <3>5. MarkerInv'
      BY <1>1, <1>2, <2>4, <3>1, <3>3, SMT DEF TypeOK, MarkerInv, Threads
    <3> QED BY <3>4, <3>5 DEF Serving
  <2> QED BY <2>3, <2>4 DEF Threads
<1>3. CASE StartCreate(t)
  <2>3. HubInv'
    BY <1>1, <1>3, SMT
    DEF TypeOK, LockInv, Locked, ThreadInv, Creating, HubInv, Threads,
        StartCreate, FreshId, Goto, Target, disk
  <2>4. MarkerInv'
    BY <1>1, <1>3, SMT
    DEF TypeOK, LockInv, Locked, ThreadInv, Creating, HubInv, MarkerInv, Served,
        Threads, StartCreate, FreshId, Goto, Target, disk
  <2> QED BY <2>3, <2>4 DEF Serving
<1>4. CASE MakeDirs(t)
  <2>3. HubInv'
    BY <1>1, <1>4, SMT
    DEF TypeOK, LockInv, Locked, ThreadInv, Creating, HubInv, Threads, MakeDirs,
        Goto
  <2>4. MarkerInv'
    BY <1>1, <1>4, SMT
    DEF TypeOK, LockInv, Locked, ThreadInv, Creating, HubInv, MarkerInv, Served,
        Threads, MakeDirs, Goto
  <2> QED BY <2>3, <2>4 DEF Serving
<1>5. CASE WriteProfile(t)
  <2>2. pc[Main]' = "marker" => profiles' = {arg[Main]'}
    <3>1. CASE t = Main
      BY <1>1, <1>5, <3>1 DEF HubInv, WriteProfile
    <3>2. CASE t # Main
      BY <1>1, <1>5, <3>2
      DEF TypeOK, HubInv, LockInv, Locked, Threads, WriteProfile, Goto
    <3> QED BY <3>1, <3>2
  <2>3. HubInv'
    BY <1>1, <1>5, <2>2, SMT
    DEF TypeOK, LockInv, Locked, ThreadInv, Creating, HubInv, Threads,
        WriteProfile, Goto
  <2>4. MarkerInv'
    BY <1>1, <1>5, SMT
    DEF TypeOK, LockInv, Locked, ThreadInv, Creating, HubInv, MarkerInv, Served,
        Threads, WriteProfile, Goto
  <2> QED BY <2>3, <2>4 DEF Serving
<1>6. CASE WriteMarker(t)
  <2>3. CASE t = Main
    <3>1. job[t] = "boot" /\ hub = "booting"
      BY <1>1, <1>6, <2>3 DEF HubInv, ThreadInv, WriteMarker
    <3>2. HubInv'
      BY <1>1, <1>6, <2>3, <3>1, SMT
      DEF TypeOK, ThreadInv, HubInv, Threads, WriteMarker, Return, Goto, GoIdle,
          Target
    <3>3. MarkerInv'
      BY <1>1, <1>6, <2>3, <3>1, SMT
      DEF TypeOK, LockInv, Locked, ThreadInv, HubInv, MarkerInv, Served,
          Threads, WriteMarker, Return, Goto, GoIdle, Target
    <3> QED BY <3>2, <3>3 DEF Serving
  <2>4. CASE t \in Handlers
    <3>1. job[t] \in {"list", "create"} /\ hub = "up" /\ pc[Main] = "idle"
      BY <1>1, <1>6, <2>4
      DEF HubInv, ThreadInv, Creating, Safe, ThreadsInv, Threads, WriteMarker
    <3>2. /\ \/ pc' = [pc EXCEPT ![t] = "list"] /\ UNCHANGED <<job, arg>>
             \/ /\ pc' = [pc EXCEPT ![t] = "idle"]
                /\ job' = [job EXCEPT ![t] = "none"]
                /\ arg' = [arg EXCEPT ![t] = NoId]
          /\ UNCHANGED <<hub, profiles, sandboxes, todo>>
          /\ marker' \in profiles
      BY <1>1, <1>6, <3>1, HandlerReturns DEF ThreadInv, WriteMarker
    <3>4. HubInv'
      BY <1>1, <1>6, <2>4, <3>1, <3>2, SMT DEF TypeOK, HubInv, Threads
    <3>5. MarkerInv'
      BY <1>1, <1>6, <2>4, <3>1, <3>2, SMT DEF TypeOK, MarkerInv, Threads
    <3> QED BY <3>4, <3>5 DEF Serving
  <2> QED BY <2>3, <2>4 DEF Threads
<1>7. CASE ListAgents(t)
  <2>3. HubInv'
    BY <1>1, <1>7, SMT
    DEF TypeOK, LockInv, Locked, ThreadInv, Creating, HubInv, Threads,
        ListAgents, GoIdle, disk
  <2>4. MarkerInv'
    BY <1>1, <1>7, SMT
    DEF TypeOK, LockInv, Locked, ThreadInv, Creating, HubInv, MarkerInv, Served,
        Threads, ListAgents, GoIdle, disk
  <2> QED BY <2>3, <2>4 DEF Serving
<1>8. CASE Load(t)
  <2>3. HubInv'
    BY <1>1, <1>8, SMT
    DEF TypeOK, LockInv, Locked, ThreadInv, Creating, HubInv, Threads, Load,
        Goto, GoIdle, disk
  <2>4. MarkerInv'
    BY <1>1, <1>8, SMT
    DEF TypeOK, LockInv, Locked, ThreadInv, Creating, HubInv, MarkerInv, Served,
        Threads, Load, Goto, GoIdle, disk
  <2> QED BY <2>3, <2>4 DEF Serving
<1>9. CASE MakeSandbox(t)
  <2>3. HubInv'
    BY <1>1, <1>9, SMT
    DEF TypeOK, LockInv, Locked, ThreadInv, Creating, HubInv, Threads,
        MakeSandbox, GoIdle
  <2>4. MarkerInv'
    BY <1>1, <1>9, SMT
    DEF TypeOK, LockInv, Locked, ThreadInv, Creating, HubInv, MarkerInv, Served,
        Threads, MakeSandbox, GoIdle
  <2> QED BY <2>3, <2>4 DEF Serving
<1>10. CASE RemoveProfile(t)
  <2>3. HubInv'
    BY <1>1, <1>10, SMT
    DEF TypeOK, LockInv, Locked, ThreadInv, Creating, HubInv, Threads,
        RemoveProfile
  <2>4. MarkerInv'
    BY <1>1, <1>10, SMT
    DEF TypeOK, LockInv, Locked, ThreadInv, Creating, HubInv, MarkerInv, Served,
        Threads, RemoveProfile
  <2> QED BY <2>3, <2>4 DEF Serving
<1>11. CASE RemoveSandbox(t)
  <2>3. HubInv'
    BY <1>1, <1>11, SMT
    DEF TypeOK, LockInv, Locked, ThreadInv, Creating, HubInv, Threads,
        RemoveSandbox
  <2>4. MarkerInv'
    BY <1>1, <1>11, SMT
    DEF TypeOK, LockInv, Locked, ThreadInv, Creating, HubInv, MarkerInv, Served,
        Threads, RemoveSandbox
  <2> QED BY <2>3, <2>4 DEF Serving
<1>12. CASE RemoveDir(t)
  <2>3. HubInv'
    BY <1>1, <1>12, SMT
    DEF TypeOK, LockInv, Locked, ThreadInv, Creating, HubInv, Threads,
        RemoveDir, Goto, GoIdle
  <2>4. MarkerInv'
    BY <1>1, <1>12, SMT
    DEF TypeOK, LockInv, Locked, ThreadInv, Creating, HubInv, MarkerInv, Served,
        Threads, RemoveDir, Goto, GoIdle
  <2> QED BY <2>3, <2>4 DEF Serving
<1>13. CASE Remark(t)
  <2>2. profiles # {} => Oldest(profiles, created) \in profiles
    BY <1>1, <1>13, OldestIsFirst DEF TypeOK
  <2>3. HubInv'
    BY <1>1, <1>13, SMT
    DEF TypeOK, LockInv, Locked, ThreadInv, Creating, HubInv, Threads, Remark,
        GoIdle
  <2>4. MarkerInv'
    BY <1>1, <1>13, <2>2, SMT
    DEF TypeOK, LockInv, Locked, ThreadInv, Creating, HubInv, MarkerInv, Served,
        Threads, Remark, GoIdle
  <2> QED BY <2>3, <2>4 DEF Serving
<1>14. CASE RequestList(t)
  BY <1>14, RequestServing DEF RequestList
<1>15. CASE RequestAgent(t)
  <2>1. PICK i \in Ids, j \in {"get", "resolve"} : Request(t, j, i)
    BY <1>15 DEF RequestAgent
  <2> QED BY <2>1, RequestServing
<1>16. CASE \E i \in Ids : StartDelete(t, i)
  BY <1>16, StartDeleteServing
<1> QED
  BY <1>2, <1>3, <1>4, <1>5, <1>6, <1>7, <1>8, <1>9, <1>10, <1>11,
     <1>12, <1>13, <1>14, <1>15, <1>16
  DEF Step

LEMMA NextServing ==
  Resolvers = {} /\ Safe /\ Serving /\ [Next]_vars => Serving'
<1> SUFFICES ASSUME Resolvers = {}, Safe, Serving, [Next]_vars
             PROVE  Serving'
  OBVIOUS
<1>1. CASE \E t \in Threads : Step(t)
  BY <1>1, StepServing
<1>2. CASE \/ Boot \/ Crash \/ Tick \/ (\E i \in Ids : Work(i))
           \/ UNCHANGED vars
  BY <1>2, HubServing
<1> QED BY <1>1, <1>2 DEF Next

(* While no handler resolves a sandbox, the marker is where Serving says.   *)
THEOREM AlwaysServing == ASSUME Resolvers = {} PROVE Spec => []Serving
<1>1. Init => Safe /\ Serving
  BY InitSafe, InitServing
<1>2. Safe /\ Serving /\ [Next]_vars => (Safe /\ Serving)'
  BY NextSafe, NextServing
<1> QED BY <1>1, <1>2, PTL DEF Spec

(* "Exactly one is primary": a listing finds the marker on an agent.        *)
THEOREM ListingsShowOnePrimary ==
  ASSUME Resolvers = {} PROVE Spec => []ListShowsOnePrimary
<1>1. Safe /\ Serving => ListShowsOnePrimary
  <2> SUFFICES ASSUME Safe, Serving, NEW t \in Threads, pc[t] = "list",
                      lock = NoThread
               PROVE  marker \in profiles
    BY DEF ListShowsOnePrimary
  <2>1. t \in Handlers /\ hub = "up"
    BY DEF Serving, HubInv, Threads
  <2>2. lock \notin Handlers
    BY RegistryAssumption
  <2> QED BY <2>1, <2>2 DEF Serving, MarkerInv, Served
<1> QED BY <1>1, AlwaysSafe, AlwaysServing, PTL

-----------------------------------------------------------------------------
(* The registry implements AgentDirectory.                                  *)

(* The two modules order agents alike.                                      *)
LEMMA SameOrder ==
  ASSUME NEW S, NEW age PROVE Dir!Oldest(S, age) = Oldest(S, age)
  BY DEF Dir!Oldest, Dir!Older, Oldest, Older

(* The only agent is the oldest.                                            *)
LEMMA OldestOfOne ==
  ASSUME NEW a \in Ids, NEW age \in [Ids -> Nat]
  PROVE  Oldest({a}, age) = a
<1>1. Ids \subseteq Nat /\ {a} \subseteq Ids /\ {a} # {}
  BY RegistryAssumption
<1>2. Oldest({a}, age) \in {a}
  BY <1>1, OldestIsFirst
<1> QED BY <1>2

LEMMA InitDirectory == Init => Dir!Init
  BY RegistryAssumption DEF Init, Dir!Init, PrimaryOf

(* The profile makes the agent.                                             *)
LEMMA WriteProfileAdds ==
  ASSUME Safe, Serving, NEW t \in Threads, WriteProfile(t)
  PROVE  Dir!Next
<1> USE RegistryAssumption
<1>1. /\ TypeOK /\ ThreadInv(t) /\ HubInv /\ MarkerInv
      /\ pc[t] = "profile" /\ lock = t
  BY DEF Safe, Serving, ThreadsInv, LockInv, Locked, WriteProfile
<1>2. arg[t] \in Ids /\ arg[t] \notin profiles
  BY <1>1 DEF ThreadInv
<1>3. /\ profiles' = profiles \cup {arg[t]}
      /\ created' = [created EXCEPT ![arg[t]] = clock]
      /\ marker' = marker
  BY DEF WriteProfile
<1>4. created \in [Ids -> Nat] /\ clock \in Nat
  BY <1>1, SMT DEF TypeOK
<1>5. created'[arg[t]] = clock /\ created' \in [Ids -> Nat]
  BY <1>2, <1>3, <1>4
<1>6. profiles # {} => marker \in profiles
  <2>1. CASE t = Main
    BY <1>1, <2>1 DEF HubInv
  <2>2. CASE t \in Handlers
    BY <1>1, <2>2 DEF HubInv, MarkerInv, Served
  <2> QED BY <2>1, <2>2 DEF Threads
<1>7. PrimaryOf' = IF profiles = {} THEN arg[t] ELSE PrimaryOf
  <2>1. CASE profiles = {}
    <3>1. profiles' = {arg[t]}
      BY <1>3, <2>1
    <3> QED BY <1>2, <1>5, <2>1, <3>1, OldestOfOne DEF PrimaryOf
  <2>2. CASE profiles # {}
    BY <1>3, <1>6, <2>2 DEF PrimaryOf
  <2> QED BY <2>1, <2>2
<1>8. Dir!Add(arg[t])
  BY <1>2, <1>3, <1>4, <1>5, <1>7 DEF Dir!Add
<1> QED BY <1>2, <1>8 DEF Dir!Next

(* Its removal unmakes it.                                                  *)
LEMMA RemoveProfileRemoves ==
  ASSUME Safe, Serving, NEW t \in Threads, RemoveProfile(t)
  PROVE  Dir!Next
<1> USE RegistryAssumption
<1>1. /\ TypeOK /\ ThreadInv(t) /\ HubInv /\ MarkerInv
      /\ pc[t] = "rmtree" /\ "profile" \in todo /\ lock = t
  BY DEF Safe, Serving, ThreadsInv, LockInv, Locked, RemoveProfile
<1>2. arg[t] \in profiles /\ profiles # {arg[t]} /\ arg[t] \in Ids
  BY <1>1 DEF ThreadInv
<1>3. /\ profiles' = profiles \ {arg[t]}
      /\ created' = [created EXCEPT ![arg[t]] = 0]
      /\ marker' = marker
  BY DEF RemoveProfile
<1>4. marker \in profiles
  BY <1>1, <1>2 DEF HubInv, MarkerInv, Served, Threads
<1>5. PrimaryOf' = IF PrimaryOf = arg[t] THEN Dir!Oldest(profiles', created')
                   ELSE PrimaryOf
  BY <1>2, <1>3, <1>4, SameOrder DEF PrimaryOf
<1>6. profiles' # {}
  BY <1>2, <1>3
<1>7. Dir!Remove(arg[t])
  BY <1>2, <1>3, <1>5, <1>6 DEF Dir!Remove
<1> QED BY <1>2, <1>7 DEF Dir!Next

(* Moving the marker, by whichever operation, repairs what was dangling.    *)
LEMMA MarkerMovesUnseen ==
  ASSUME Safe, Serving, NEW t \in Threads,
         Ensure(t) \/ WriteMarker(t) \/ Remark(t)
  PROVE  UNCHANGED <<profiles, created, PrimaryOf>>
<1> USE RegistryAssumption
<1>1. /\ TypeOK /\ ThreadInv(t) /\ HubInv /\ MarkerInv /\ LockInv
  BY DEF Safe, Serving, ThreadsInv
<1>2. UNCHANGED <<profiles, created>>
  BY DEF Ensure, WriteMarker, Remark
<1>3. profiles # {} => Oldest(profiles, created) \in profiles
  BY <1>1, OldestIsFirst DEF TypeOK
<1>4. CASE Ensure(t)
  BY <1>2, <1>3, <1>4 DEF Ensure, PrimaryOf
<1>5. CASE WriteMarker(t)
  <2>1. pc[t] = "marker" /\ lock = t /\ arg[t] \in profiles /\ arg[t] \in Ids
    BY <1>1, <1>5 DEF WriteMarker, ThreadInv, LockInv, Locked
  <2>2. CASE t = Main
    <3>1. profiles = {arg[t]}
      BY <1>1, <2>1, <2>2 DEF HubInv
    <3>2. Oldest(profiles, created) = arg[t]
      BY <1>1, <2>1, <3>1, OldestOfOne DEF TypeOK
    <3> QED BY <1>2, <1>5, <3>1, <3>2 DEF WriteMarker, PrimaryOf
  <2>3. CASE t \in Handlers
    <3>1. marker \in profiles
      BY <1>1, <2>1, <2>3 DEF HubInv, MarkerInv, Served
    <3> QED BY <1>2, <1>5, <3>1 DEF WriteMarker, PrimaryOf
  <2> QED BY <2>2, <2>3 DEF Threads
<1>6. CASE Remark(t)
  <2>1. arg[t] \notin profiles /\ profiles # {}
    BY <1>1, <1>6 DEF Remark, ThreadInv
  <2> QED BY <1>2, <1>3, <1>6, <2>1 DEF Remark, PrimaryOf
<1> QED BY <1>4, <1>5, <1>6

(* Each operation of the registry takes effect in a single step, crashes    *)
(* included: when the profile of its agent is written or removed.           *)
THEOREM RegistryIsDirectory ==
  ASSUME Resolvers = {} PROVE Spec => ImplementsDirectory
<1>1. Safe /\ Serving /\ [Next]_vars => [Dir!Next]_(Dir!dirVars)
  <2> SUFFICES ASSUME Safe, Serving, [Next]_vars
               PROVE  Dir!Next \/ UNCHANGED <<profiles, created, PrimaryOf>>
    BY DEF Dir!dirVars
  <2>1. ASSUME NEW t \in Threads, Step(t)
        PROVE  Dir!Next \/ UNCHANGED <<profiles, created, PrimaryOf>>
    <3>1. CASE WriteProfile(t)
      BY <3>1, WriteProfileAdds
    <3>2. CASE RemoveProfile(t)
      BY <3>2, RemoveProfileRemoves
    <3>3. CASE Ensure(t) \/ WriteMarker(t) \/ Remark(t)
      BY <3>3, MarkerMovesUnseen
    <3>4. CASE \/ StartCreate(t) \/ MakeDirs(t) \/ ListAgents(t) \/ Load(t)
               \/ MakeSandbox(t) \/ RemoveSandbox(t)
               \/ RemoveDir(t) \/ RequestList(t) \/ RequestAgent(t)
               \/ \E i \in Ids : StartDelete(t, i)
      BY <3>4
      DEF StartCreate, MakeDirs, ListAgents, Load, MakeSandbox,
          RemoveSandbox, RemoveDir, RequestList, RequestAgent, Request,
          StartDelete, disk, PrimaryOf
    <3> QED BY <2>1, <3>1, <3>2, <3>3, <3>4 DEF Step
  <2>2. CASE \/ Boot \/ Crash \/ Tick \/ (\E i \in Ids : Work(i))
             \/ UNCHANGED vars
    BY <2>2 DEF Boot, Crash, Tick, Work, vars, disk, PrimaryOf
  <2> QED BY <2>1, <2>2 DEF Next
<1> QED
  BY <1>1, InitDirectory, AlwaysSafe, AlwaysServing, PTL
  DEF Spec, ImplementsDirectory, Dir!Spec
=============================================================================

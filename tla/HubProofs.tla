----------------------------- MODULE HubProofs -----------------------------
(***************************************************************************)
(* Proofs about what the hub does with agents: SessionManager, for any set *)
(* of agents and any number of requests, and EventFanout, for any clients, *)
(* any threads that emit and queues of any size.                           *)
(***************************************************************************)
EXTENDS SessionManager, EventFanout, AgentOrder, WellFoundedInduction, TLAPS

-----------------------------------------------------------------------------
(* SessionManager.  The oldest of a set of agents is one of them.           *)

LessThan == {p \in Nat \X Nat : p[1] < p[2]}

(* Every set of numbers has a least element.                                *)
LEMMA LeastNumber ==
  ASSUME NEW T, T \subseteq Nat, T # {}
  PROVE  \E x \in T : \A y \in T : x <= y
<1>1. IsWellFoundedOn(LessThan, Nat)
  <2>1. OpToRel(<, Nat) = LessThan
    BY SMT DEF OpToRel, LessThan
  <2> QED BY <2>1, NatLessThanWellFounded
<1>2. PICK x \in T : \A y \in T : ~(<<y, x>> \in LessThan)
  BY <1>1, WFMin, Zenon
<1>3. ASSUME NEW y \in T PROVE x <= y
  <2>1. x \in Nat /\ y \in Nat
    OBVIOUS
  <2>2. <<y, x>> \notin LessThan
    BY <1>2
  <2>3. y < x => <<y, x>> \in LessThan
    BY <2>1, SMT DEF LessThan
  <2> QED BY <2>1, <2>2, <2>3, SMT
<1> QED BY <1>3

(* Oldest(S, age), of which ensure_primary and delete_agent take the id, is *)
(* a member of S, and the first one, whenever S is not empty.               *)
LEMMA OldestIsFirst ==
  ASSUME NEW D, D \subseteq Nat, NEW age \in [D -> Nat],
         NEW S, S \subseteq D, S # {}
  PROVE  /\ Oldest(S, age) \in S
         /\ \A b \in S : Older(age, Oldest(S, age), b)
<1> DEFINE Ages == {age[a] : a \in S}
<1>1. PICK n \in Ages : \A m \in Ages : n <= m
  <2>1. Ages \subseteq Nat /\ Ages # {}
    OBVIOUS
  <2> HIDE DEF Ages
  <2> QED BY <2>1, LeastNumber
<1> DEFINE Eldest == {a \in S : age[a] = n}
<1>2. PICK a \in Eldest : \A b \in Eldest : a <= b
  <2>1. Eldest \subseteq Nat /\ Eldest # {}
    OBVIOUS
  <2> HIDE DEF Eldest
  <2> QED BY <2>1, LeastNumber
<1>3. ASSUME NEW b \in S PROVE Older(age, a, b)
  BY <1>1, <1>2, SMT DEF Older
<1>4. a \in S
  OBVIOUS
<1> QED BY <1>3, <1>4, Zenon DEF Oldest

-----------------------------------------------------------------------------
(* The invariants.                                                          *)

(* The lock is held from the second look at the map to the new bridge.      *)
Building == {"resolve", "make"}

LockInv == \A t \in Handlers : lock = t <=> pc[t] \in Building

(* The map and the list of bridges are each other's inverse, and while a    *)
(* bridge is being built the map has none for that agent.                   *)
MapInv ==
  /\ \A i \in Ids : sessions[i] # 0 => built[sessions[i]] = i
  /\ \A b \in DOMAIN built : sessions[built[b]] = b
  /\ \A t \in Handlers : pc[t] \in Building => sessions[arg[t]] = 0

Mapped == TypeOK /\ LockInv /\ MapInv

(* What becomes of a request for an agent that does not exist.              *)
Refusal(t) == IF route[t] = "skills" THEN "dropped" ELSE "notfound"

(* Bridges belong to agents that exist or have existed, and requests get    *)
(* past the validation only for such agents.                                *)
KnownInv ==
  /\ agents \subseteq ever
  /\ \A i \in Ids : sessions[i] # 0 => i \in ever
  /\ \A t \in Handlers :
       /\ pc[t] \in {"recheck", "resolve", "make", "use"} => arg[t] \in ever
       /\ pc[t] = "over" => arg[t] \in ever \/ reply[t] = Refusal(t)
       /\ pc[t] # "over" => reply[t] = "none"
       /\ got[t] # 0 => pc[t] \in {"use", "over"} /\ arg[t] \in ever

-----------------------------------------------------------------------------
(* Mapped is inductive.                                                     *)

LEMMA InitMapped == Init => Mapped
<1> SUFFICES ASSUME Init PROVE Mapped
  OBVIOUS
<1> USE ManagerAssumption
<1>1. built \in Seq(Ids) /\ Len(built) = 1
  BY DEF Init
<1>2. DOMAIN built = {1} /\ built[1] = PrimaryId
  BY DEF Init
<1>3. /\ sessions = [i \in Ids |-> IF i = PrimaryId THEN 1 ELSE 0]
      /\ pc = [t \in Handlers |-> "new"]
  BY DEF Init
<1>4. TypeOK
  BY <1>1, SMT DEF Init, TypeOK, Places
<1>5. LockInv
  BY DEF Init, LockInv, Building
<1>6. MapInv
  BY <1>2, <1>3, SMT DEF MapInv, Building
<1> QED BY <1>4, <1>5, <1>6 DEF Mapped

(* The type invariant in parts.                                             *)
DirTypes ==
  /\ agents \subseteq Ids
  /\ born \in [Ids -> 0..MaxAdds]
  /\ primary \in Ids \cup {NoId}
  /\ adds \in 0..MaxAdds

MapTypes ==
  /\ sessions \in [Ids -> 0..Len(built)]
  /\ built \in Seq(Ids)
  /\ got \in [Handlers -> 0..Len(built)]

ReqTypes ==
  /\ lock \in Handlers \cup {NoThread}
  /\ pc \in [Handlers -> Places]
  /\ arg \in [Handlers -> Ids]
  /\ reply \in [Handlers -> {"none", "ok", "notfound", "dropped"}]

HistTypes ==
  /\ route \in [Handlers -> Endpoints]
  /\ ever \subseteq Ids

LEMMA TypesSplit ==
  /\ TypeOK <=> DirTypes /\ MapTypes /\ ReqTypes /\ HistTypes
  /\ TypeOK' <=> DirTypes' /\ MapTypes' /\ ReqTypes' /\ HistTypes'
  BY DEF TypeOK, DirTypes, MapTypes, ReqTypes, HistTypes

(* A new bridge takes the next place in the list and leaves the others.     *)
LEMMA Appended ==
  ASSUME built \in Seq(Ids), NEW i \in Ids
  PROVE  /\ Append(built, i) \in Seq(Ids)
         /\ Len(Append(built, i)) = Len(built) + 1
         /\ DOMAIN Append(built, i) = DOMAIN built \cup {Len(built) + 1}
         /\ Append(built, i)[Len(built) + 1] = i
         /\ \A b \in DOMAIN built : Append(built, i)[b] = built[b]
         /\ DOMAIN built = 1..Len(built) /\ Len(built) \in Nat
  BY SMT

(* A step of a request.                                                     *)
LEMMA RequestMapped ==
  ASSUME Mapped, NEW t \in Handlers, Receive(t) \/ Handle(t)
  PROVE  Mapped'
<1> USE ManagerAssumption
<1>1. /\ DirTypes /\ MapTypes /\ ReqTypes /\ HistTypes /\ LockInv /\ MapInv
      /\ built \in Seq(Ids) /\ Len(built) \in Nat
  BY TypesSplit DEF Mapped, MapTypes
<1>2. DirTypes'
  BY <1>1
  DEF DirTypes, Receive, Handle, Lookup, Validate, Recheck, Resolve, Make,
      Use, dirVars
<1>3. HistTypes'
  BY <1>1
  DEF HistTypes, Receive, Handle, Lookup, Validate, Recheck, Resolve, Make,
      Use, reqVars
<1>4. CASE Receive(t)
  <2>1. ReqTypes' /\ MapTypes'
    BY <1>1, <1>4, SMT DEF ReqTypes, MapTypes, Places, Receive, Goto
  <2>2. LockInv' /\ MapInv'
    BY <1>1, <1>4, SMT
    DEF ReqTypes, MapTypes, LockInv, MapInv, Building, Receive, Goto
  <2> QED BY <1>2, <1>3, <2>1, <2>2, TypesSplit DEF Mapped
<1>5. CASE Lookup(t) \/ Validate(t) \/ Recheck(t)
  <2>1. MapTypes'
    <3>1. sessions[arg[t]] \in 0..Len(built)
      BY <1>1 DEF ReqTypes, MapTypes
    <3> QED BY <1>1, <1>5, <3>1 DEF MapTypes, Lookup, Validate, Recheck
  <2>2. ReqTypes'
    BY <1>1, <1>5, SMT
    DEF ReqTypes, Places, Lookup, Validate, Recheck, Unknown, Answer, Goto,
        reqVars
  <2>3. LockInv' /\ MapInv'
    BY <1>1, <1>5, SMT
    DEF ReqTypes, MapTypes, LockInv, MapInv, Building, Lookup, Validate,
        Recheck, Unknown, Answer, Goto, reqVars
  <2> QED BY <1>2, <1>3, <2>1, <2>2, <2>3, TypesSplit DEF Mapped
<1>6. CASE Resolve(t) \/ Use(t)
  <2>1. MapTypes'
    BY <1>1, <1>6 DEF MapTypes, Resolve, Use
  <2>2. ReqTypes'
    BY <1>1, <1>6, SMT
    DEF ReqTypes, Places, Resolve, Use, Unknown, Answer, Goto, reqVars
  <2>3. LockInv' /\ MapInv'
    BY <1>1, <1>6, SMT
    DEF ReqTypes, MapTypes, LockInv, MapInv, Building, Resolve, Use, Unknown,
        Answer, Goto, reqVars
  <2> QED BY <1>2, <1>3, <2>1, <2>2, <2>3, TypesSplit DEF Mapped
<1>7. CASE Make(t)
  <2> DEFINE n == Len(built) + 1
  <2>1. /\ built' = Append(built, arg[t]) /\ arg[t] \in Ids
        /\ sessions' = [sessions EXCEPT ![arg[t]] = n]
        /\ got' = [got EXCEPT ![t] = n]
    BY <1>1, <1>7, Appended DEF ReqTypes, Make
  <2>2. /\ built' \in Seq(Ids) /\ Len(built') = n /\ n \in Nat \ {0}
        /\ DOMAIN built' = DOMAIN built \cup {n} /\ built'[n] = arg[t]
        /\ \A b \in DOMAIN built : built'[b] = built[b] /\ b # n /\ b # 0
        /\ DOMAIN built = 1..Len(built)
    BY <1>1, <2>1, Appended, SMT
  <2>3. MapTypes'
    BY <1>1, <2>1, <2>2, SMT DEF MapTypes
  <2>4. ReqTypes'
    BY <1>1, <1>7, SMT DEF ReqTypes, Places, Make, Goto, reqVars
  <2>5. LockInv'
    BY <1>1, <1>7, SMT DEF ReqTypes, LockInv, Building, Make, Goto
  <2>6. MapInv'
    <3>1. /\ sessions[arg[t]] = 0 /\ arg' = arg
          /\ \A u \in Handlers : pc'[u] \notin Building
      BY <1>1, <1>7, SMT
      DEF ReqTypes, LockInv, MapInv, Building, Make, Goto, reqVars
    <3>2. \A i \in Ids : sessions'[i] # 0 => built'[sessions'[i]] = i
      BY <1>1, <2>1, <2>2, <3>1, SMT DEF MapTypes, MapInv
    <3>3. \A b \in DOMAIN built' : sessions'[built'[b]] = b
      BY <1>1, <2>1, <2>2, <3>1, SMT DEF MapTypes, MapInv
    <3> QED BY <3>1, <3>2, <3>3 DEF MapInv
  <2> QED BY <1>2, <1>3, <2>3, <2>4, <2>5, <2>6, TypesSplit DEF Mapped
<1> QED BY <1>4, <1>5, <1>6, <1>7 DEF Handle

(* Agents come and go without touching the map.                             *)
LEMMA RegistryMapped ==
  ASSUME Mapped, NEW i \in Ids, AddAgent(i) \/ DeleteAgent(i)
  PROVE  Mapped'
<1> USE ManagerAssumption
<1>1. DirTypes /\ MapTypes /\ ReqTypes /\ HistTypes /\ LockInv /\ MapInv
  BY TypesSplit DEF Mapped
<1>2. CASE AddAgent(i)
  <2>1. DirTypes'
    BY <1>1, <1>2, SMT DEF DirTypes, AddAgent, Registry!Add
  <2>2. HistTypes'
    BY <1>1, <1>2 DEF HistTypes, AddAgent, reqVars
  <2>3. MapTypes' /\ ReqTypes' /\ LockInv' /\ MapInv'
    BY <1>1, <1>2
    DEF MapTypes, ReqTypes, LockInv, MapInv, AddAgent, reqVars
  <2> QED BY <2>1, <2>2, <2>3, TypesSplit DEF Mapped
<1>3. CASE DeleteAgent(i)
  <2>1. agents' \subseteq Ids /\ agents' # {} /\ born' \in [Ids -> 0..MaxAdds]
    BY <1>1, <1>3, SMT DEF DirTypes, DeleteAgent, Registry!Remove
  <2>2. Registry!Oldest(agents', born') \in Ids
    <3>1. born' \in [Ids -> Nat] /\ Ids \subseteq Nat
      BY <2>1, SMT
    <3>2. Oldest(agents', born') \in agents'
      BY <2>1, <3>1, OldestIsFirst
    <3> QED
      BY <2>1, <3>2
      DEF Registry!Oldest, Registry!Older, Oldest, Older
  <2>3. DirTypes'
    BY <1>1, <1>3, <2>1, <2>2 DEF DirTypes, DeleteAgent, Registry!Remove
  <2>4. MapTypes' /\ ReqTypes' /\ HistTypes' /\ LockInv' /\ MapInv'
    BY <1>1, <1>3
    DEF MapTypes, ReqTypes, HistTypes, LockInv, MapInv, DeleteAgent, reqVars
  <2> QED BY <2>3, <2>4, TypesSplit DEF Mapped
<1> QED BY <1>2, <1>3

LEMMA NextMapped == Mapped /\ [Next]_vars => Mapped'
<1> SUFFICES ASSUME Mapped, [Next]_vars PROVE Mapped'
  OBVIOUS
<1>1. CASE UNCHANGED vars
  BY <1>1
  DEF vars, dirVars, reqVars, Mapped, TypeOK, LockInv, MapInv
<1> QED BY <1>1, RequestMapped, RegistryMapped DEF Next

-----------------------------------------------------------------------------
(* The map and the bridges correspond in every reachable state.             *)
THEOREM AlwaysMapped == Spec => []Mapped
  BY InitMapped, NextMapped, PTL DEF Spec

(* The types of SessionManager are right for any number of requests.        *)
THEOREM Typed == Spec => []TypeOK
<1>1. Mapped => TypeOK
  BY DEF Mapped
<1> QED BY <1>1, AlwaysMapped, PTL

(* "Each agent gets its own bridge": however many requests race to the      *)
(* first use of an agent, and whatever becomes of the agent meanwhile, it   *)
(* gets one bridge, which stays in the map.                                 *)
THEOREM OneBridge == Spec => []OneBridgePerAgent
<1>1. Mapped => OneBridgePerAgent
  BY DEF Mapped, MapInv, OneBridgePerAgent
<1> QED BY <1>1, AlwaysMapped, PTL

-----------------------------------------------------------------------------
(* Requests for agents that have never existed.                             *)

LEMMA NextKnown ==
  Mapped /\ KnownInv /\ [Next]_vars => KnownInv'
<1> SUFFICES ASSUME Mapped, KnownInv, [Next]_vars
             PROVE  KnownInv'
  OBVIOUS
<1>1. DirTypes /\ MapTypes /\ ReqTypes /\ HistTypes
  BY TypesSplit DEF Mapped
<1>2. route' = route
  BY DEF Next, vars, reqVars, Receive, Handle, Lookup, Validate, Recheck,
         Resolve, Make, Use, AddAgent, DeleteAgent
<1>3. ASSUME NEW t \in Handlers, Receive(t) PROVE KnownInv'
  <2>1. /\ pc[t] = "new" /\ pc' = [pc EXCEPT ![t] = "lookup"] /\ reply' = reply
        /\ UNCHANGED <<sessions, agents, ever, got>>
        /\ \A u \in Handlers \ {t} : arg'[u] = arg[u]
    BY <1>1, <1>3 DEF ReqTypes, Receive, Goto, dirVars
  <2> QED BY <1>1, <1>2, <2>1, SMT DEF ReqTypes, KnownInv, Refusal
<1>4. ASSUME NEW t \in Handlers, Handle(t) PROVE KnownInv'
  <2>1. agents' = agents /\ ever' = ever /\ arg' = arg
    BY <1>4
    DEF Handle, Lookup, Validate, Recheck, Resolve, Make, Use, dirVars, reqVars
  <2>2. ASSUME NEW u \in Handlers \ {t}
        PROVE  pc'[u] = pc[u] /\ reply'[u] = reply[u] /\ got'[u] = got[u]
    BY <1>1, <1>4, <2>2, SMT
    DEF ReqTypes, HistTypes, MapTypes, Handle, Lookup, Validate, Recheck, Resolve, Make, Use,
        Unknown, Answer, Goto
  <2>3. \A i \in Ids : sessions'[i] # 0 => i \in ever
    <3>1. CASE Make(t)
      <4>1. arg[t] \in ever
        BY <1>1, <3>1, SMT DEF KnownInv, Make
      <4> QED BY <1>1, <3>1, <4>1, SMT DEF MapTypes, KnownInv, Make
    <3>2. CASE sessions' = sessions
      BY <3>2 DEF KnownInv
    <3> QED
      BY <1>4, <3>1, <3>2
      DEF Handle, Lookup, Validate, Recheck, Resolve, Use
  <2>4. /\ pc'[t] \in {"recheck", "resolve", "make", "use"} => arg[t] \in ever
        /\ pc'[t] = "over" => arg[t] \in ever \/ reply'[t] = Refusal(t)
        /\ pc'[t] # "over" => reply'[t] = "none"
        /\ got'[t] # 0 => pc'[t] \in {"use", "over"} /\ arg[t] \in ever
    <3>1. CASE Lookup(t)
      BY <1>1, <3>1, SMT DEF ReqTypes, MapTypes, KnownInv, Lookup, Goto
    <3>2. CASE Validate(t) \/ Resolve(t)
      BY <1>1, <3>2, SMT
      DEF ReqTypes, HistTypes, KnownInv, Validate, Resolve, Unknown, Refusal,
          Answer, Goto
    <3>3. CASE Recheck(t) \/ Make(t) \/ Use(t)
      BY <1>1, <3>3, SMT
      DEF ReqTypes, KnownInv, Recheck, Make, Use, Answer, Goto
    <3> QED BY <1>4, <3>1, <3>2, <3>3 DEF Handle
  <2> QED BY <1>1, <1>2, <2>1, <2>2, <2>3, <2>4, SMT DEF KnownInv, Refusal
<1>5. ASSUME NEW i \in Ids, AddAgent(i) PROVE KnownInv'
  BY <1>1, <1>2, <1>5 DEF ReqTypes, KnownInv, Refusal, AddAgent, Registry!Add, reqVars
<1>6. ASSUME NEW i \in Ids, DeleteAgent(i) PROVE KnownInv'
  BY <1>1, <1>2, <1>6
  DEF ReqTypes, KnownInv, Refusal, DeleteAgent, Registry!Remove, reqVars
<1>7. CASE UNCHANGED vars
  BY <1>7 DEF vars, dirVars, reqVars, KnownInv, Refusal
<1> QED BY <1>3, <1>4, <1>5, <1>6, <1>7 DEF Next

(* Nobody can address agents that don't exist: agents may come and go, but  *)
(* no bridge is built for one that has never existed, a request for it is   *)
(* handed none and, where the KeyError is caught, is told so                *)
(* (session_manager.py 9-11, 62-80, vertus_server.py 422-426, 468-473).     *)
THEOREM UnknownAgentsNotServed == Spec => []UnknownNotServed
<1>1. Init => KnownInv
  BY DEF Init, KnownInv
<1>2. Mapped /\ KnownInv => UnknownNotServed
  <2>1. SUFFICES ASSUME Mapped, KnownInv PROVE UnknownNotServed
    OBVIOUS
  <2>2. DirTypes /\ MapTypes /\ ReqTypes /\ HistTypes
    BY <2>1, TypesSplit DEF Mapped
  <2>3. ASSUME NEW b \in DOMAIN built PROVE built[b] \in ever
    <3>1. sessions[built[b]] = b /\ b # 0 /\ built[b] \in Ids
      BY <2>1, <2>2, SMT DEF Mapped, MapInv, MapTypes
    <3> QED BY <2>1, <3>1 DEF KnownInv
  <2>4. ASSUME NEW t \in Handlers, arg[t] \notin ever
        PROVE  /\ got[t] = 0 /\ reply[t] # "ok"
               /\ pc[t] = "over" /\ route[t] # "skills" => reply[t] = "notfound"
    BY <2>1, <2>4, SMT DEF KnownInv, Refusal
  <2> QED BY <2>3, <2>4 DEF UnknownNotServed
<1>3. Mapped /\ KnownInv /\ [Next]_vars => KnownInv'
  BY NextKnown
<1> QED BY <1>1, <1>2, <1>3, AlwaysMapped, PTL DEF Spec

-----------------------------------------------------------------------------
(* EventFanout.                                                             *)

(* x is in the sequence s, and is so once.                                  *)
In(x, s) == \E i \in 1..Len(s) : s[i] = x
Once(x, s) == \A i, j \in 1..Len(s) : s[i] = x /\ s[j] = x => i = j

LEMMA ContainsIsIn == \A s, x : Contains(s, x) <=> In(x, s)
BY Zenon DEF Contains, In

LEMMA NothingIn == \A x : ~In(x, <<>>) /\ Once(x, <<>>)
BY SMT DEF In, Once

LEMMA AppendIn ==
  ASSUME NEW V, NEW s \in Seq(V), NEW x, NEW y \in V
  PROVE  /\ Append(s, y) \in Seq(V)
         /\ In(x, Append(s, y)) <=> In(x, s) \/ x = y
         /\ Once(x, s) /\ (x = y => ~In(x, s)) => Once(x, Append(s, y))
BY SMT DEF In, Once

LEMMA TailIn ==
  ASSUME NEW V, NEW s \in Seq(V), s # <<>>, NEW x
  PROVE  /\ Tail(s) \in Seq(V) /\ Head(s) \in V /\ In(Head(s), s)
         /\ In(x, Tail(s)) => In(x, s)
         /\ x # Head(s) /\ In(x, s) => In(x, Tail(s))
         /\ Once(x, s) => Once(x, Tail(s))
         /\ Once(x, s) /\ x = Head(s) => ~In(x, Tail(s))
<1>1. /\ Tail(s) \in Seq(V) /\ Len(Tail(s)) = Len(s) - 1
      /\ \A i \in 1..(Len(s) - 1) : Tail(s)[i] = s[i + 1]
  BY SMT
<1>2. Len(s) \in Nat \ {0} /\ Head(s) = s[1] /\ Head(s) \in V
  BY SMT
<1>3. In(Head(s), s)
  BY <1>2, SMT DEF In
<1>4. In(x, Tail(s)) => In(x, s)
  BY <1>1, <1>2, SMT DEF In
<1>5. x # Head(s) /\ In(x, s) => In(x, Tail(s))
  <2>1. SUFFICES ASSUME x # Head(s), NEW i \in 1..Len(s), s[i] = x
                 PROVE  In(x, Tail(s))
    BY DEF In
  <2>2. i - 1 \in 1..Len(Tail(s)) /\ Tail(s)[i - 1] = x
    BY <1>1, <1>2, <2>1, SMT
  <2> QED BY <2>2 DEF In
<1>6. Once(x, s) => Once(x, Tail(s))
  BY <1>1, <1>2, SMT DEF Once
<1>7. Once(x, s) /\ x = Head(s) => ~In(x, Tail(s))
  BY <1>1, <1>2, SMT DEF Once, In
<1> QED BY <1>1, <1>2, <1>3, <1>4, <1>5, <1>6, <1>7

LEMMA ConcatIs ==
  ASSUME NEW V, NEW a \in Seq(V), NEW b \in Seq(V)
  PROVE  /\ a \o b \in Seq(V) /\ Len(a \o b) = Len(a) + Len(b)
         /\ \A k \in 1..(Len(a) + Len(b)) :
              (a \o b)[k] = IF k <= Len(a) THEN a[k] ELSE b[k - Len(a)]
BY SMT

(* list.remove(), which takes the first of what is equal to x.              *)
LEMMA RemoveFirstIn ==
  ASSUME NEW V, NEW s \in Seq(V), NEW x, NEW y
  PROVE  /\ RemoveFirst(s, x) \in Seq(V)
         /\ In(y, RemoveFirst(s, x)) => In(y, s)
         /\ y # x /\ In(y, s) => In(y, RemoveFirst(s, x))
         /\ Once(y, s) => Once(y, RemoveFirst(s, x))
         /\ Once(x, s) => ~In(x, RemoveFirst(s, x))
<1> DEFINE r == RemoveFirst(s, x)
<1>1. CASE ~In(x, s)
  <2>1. r = s
    BY <1>1 DEF RemoveFirst, In
  <2> QED BY <1>1, <2>1
<1>2. CASE In(x, s)
  <2>1. PICK i \in 1..Len(s) : s[i] = x /\ r = RemoveAt(s, i)
    <3> DEFINE I == {i \in 1..Len(s) : s[i] = x}
               m == CHOOSE a \in I : \A b \in I : a =< b
    <3>1. I # {}
      BY <1>2 DEF In
    <3>2. r = RemoveAt(s, m)
      BY <3>1 DEF RemoveFirst, SelectInSeq, Min
    <3>3. \E a \in I : \A b \in I : a =< b
      <4>1. I \subseteq Nat /\ I # {}
        BY <3>1
      <4> HIDE DEF I
      <4> QED BY <4>1, LeastNumber
    <3>4. m \in I
      <4> HIDE DEF I
      <4> QED BY <3>3, Zenon
    <3> QED BY <3>2, <3>4
  <2>2. /\ Len(s) \in Nat \ {0} /\ r \in Seq(V) /\ Len(r) = Len(s) - 1
        /\ \A k \in 1..(Len(s) - 1) : r[k] = IF k < i THEN s[k] ELSE s[k + 1]
    <3> DEFINE a == SubSeq(s, 1, i - 1)  b == SubSeq(s, i + 1, Len(s))
    <3>1. /\ Len(s) \in Nat \ {0} /\ i \in 1..Len(s)
          /\ a \in Seq(V) /\ Len(a) = i - 1 /\ \A k \in 1..(i - 1) : a[k] = s[k]
          /\ b \in Seq(V) /\ Len(b) = Len(s) - i
          /\ \A k \in 1..(Len(s) - i) : b[k] = s[k + i]
      BY <2>1, SMT
    <3>2. r = a \o b
      BY <2>1 DEF RemoveAt
    <3> HIDE DEF a, b, r
    <3>3. /\ a \o b \in Seq(V) /\ Len(a \o b) = Len(a) + Len(b)
          /\ \A k \in 1..(Len(a) + Len(b)) :
               (a \o b)[k] = IF k <= Len(a) THEN a[k] ELSE b[k - Len(a)]
      BY <3>1, ConcatIs
    <3>4. r \in Seq(V) /\ Len(r) = Len(s) - 1
      <4>1. Len(a) + Len(b) = Len(s) - 1
        BY <3>1, SMT
      <4> QED BY <3>2, <3>3, <4>1, Zenon
    <3>5. ASSUME NEW k \in 1..(Len(s) - 1)
          PROVE  r[k] = IF k < i THEN s[k] ELSE s[k + 1]
      <4>1. /\ k \in 1..(Len(a) + Len(b)) /\ (k <= Len(a) <=> k < i)
            /\ k < i => a[k] = s[k]
            /\ ~(k < i) => b[k - Len(a)] = s[k + 1]
        BY <3>1, SMT
      <4> QED BY <3>2, <3>3, <4>1, Zenon
    <3> QED BY <3>1, <3>4, <3>5
  <2> HIDE DEF r
  <2>3. In(y, r) => In(y, s)
    BY <2>2, SMT DEF In
  <2>4. y # x /\ In(y, s) => In(y, r)
    <3>1. SUFFICES ASSUME y # x, NEW j \in 1..Len(s), s[j] = y PROVE In(y, r)
      BY DEF In
    <3>2. CASE j < i
      <4>1. j \in 1..Len(r) /\ r[j] = y
        BY <2>1, <2>2, <3>1, <3>2, SMT
      <4> QED BY <4>1 DEF In
    <3>3. CASE ~(j < i)
      <4>1. j # i
        BY <2>1, <3>1
      <4>2. j - 1 \in 1..Len(r) /\ r[j - 1] = y
        BY <2>1, <2>2, <3>1, <3>3, <4>1, SMT
      <4> QED BY <4>2 DEF In
    <3> QED BY <3>2, <3>3
  <2>5. Once(y, s) => Once(y, r)
    BY <2>2, SMT DEF Once
  <2>6. Once(x, s) => ~In(x, r)
    BY <2>1, <2>2, SMT DEF Once, In
  <2> QED BY <2>2, <2>3, <2>4, <2>5, <2>6 DEF r
<1> QED BY <1>1, <1>2

(* What is sent to a client is the next of its stream.                      *)
LEMMA StreamMoves ==
  ASSUME NEW V, NEW s \in Seq(V), NEW q \in Seq(V), q # <<>>
  PROVE  Append(s, Head(q)) \o Tail(q) = s \o q
BY SMT


(* The invariants.                                                          *)
Stages == {"new", "open", "leave", "remove", "closed"}
FanoutTypes ==
  /\ subscribers \in Seq(Clients)
  /\ queue \in [Clients -> Seq(Events)]
  /\ \A c \in Clients : Len(queue[c]) <= Capacity
  /\ seen \in [Clients -> Seq(Events)]
  /\ spc \in [Clients -> Stages]
  /\ count \in [Emitters -> Nat] /\ \A e \in Emitters : count[e] <= MaxEvents[e]
  /\ rest \in [Emitters -> Seq(Clients)]
  /\ owed \in [Clients -> SUBSET Events]
  /\ cut \subseteq Events
RemovingTypes ==
  /\ removing \in [Emitters -> BOOLEAN]
  /\ \A e \in Emitters : removing[e] => rest[e] # <<>>

(* Who is subscribed, and whom an emission still comes to; none twice.      *)
Subscribed(c) == In(c, subscribers)
ToCome(e, c) == In(c, rest[e])
Got(c, ev) == In(ev, Stream(c))

ListInv ==
  \A c \in Clients :
    /\ Once(c, subscribers)
    /\ Subscribed(c) => spc[c] \in {"open", "leave", "remove"}
    /\ spc[c] = "new" => seen[c] = <<>> /\ queue[c] = <<>>
    /\ \A e \in Emitters : Once(c, rest[e])
                        /\ (ToCome(e, c) => spc[c] # "new" /\ count[e] # 0)

(* A client has got no event that has not been emitted to it.               *)
NumberInv ==
  \A c \in Clients, e \in Emitters : \A i :
    Got(c, <<e, i>>) => i \in 1..count[e] /\ (ToCome(e, c) => i # count[e])

(* The events of a thread after one that the client has got: it has got     *)
(* them, or an exception has ended their emission, or the last is still to  *)
(* come, or the client gets no more of them.                                *)
Coming(c, e, i) ==
  \/ i = count[e] /\ ToCome(e, c)
  \/ ~Subscribed(c) /\ ~ToCome(e, c)
GapInv ==
  \A c \in Clients, e \in Emitters : \A l : Got(c, <<e, l>>) =>
    \A i \in l..count[e] : Got(c, <<e, i>>) \/ <<e, i>> \in cut \/ Coming(c, e, i)

FanoutIInv ==
  /\ FanoutTypes /\ RemovingTypes /\ ListInv /\ NumberInv /\ GapInv /\ NoGap

LEMMA EventsKnown ==
  /\ \A ev \in Events : \E e \in Emitters : \E i \in 1..MaxEvents[e] :
       ev = <<e, i>>
  /\ \A e \in Emitters, i \in Nat \ {0} :
       i <= MaxEvents[e] => <<e, i>> \in Events
BY FanoutAssumption DEF Events

LEMMA Streams ==
  ASSUME FanoutTypes, NEW c \in Clients
  PROVE  Stream(c) \in Seq(Events)
<1>1. seen[c] \in Seq(Events) /\ queue[c] \in Seq(Events)
  BY DEF FanoutTypes
<1> QED BY <1>1, SMT DEF Stream

(* When the clients' streams stay as they are.                              *)
SameStreams == \A c \in Clients : Stream(c)' = Stream(c)

LEMMA SameStreamsKeep ==
  ASSUME NoGap, SameStreams, cut \subseteq cut'
  PROVE  /\ NoGap'
         /\ \A c \in Clients : \A ev : Got(c, ev)' <=> Got(c, ev)
<1>1. ASSUME NEW c \in Clients
      PROVE  /\ Stream(c)' = Stream(c)
             /\ \A ev : Got(c, ev)' <=> Got(c, ev)
  BY DEF SameStreams, Got
<1>2. NoGap'
  BY <1>1, Zenon DEF NoGap
<1> QED BY <1>1, <1>2

LEMMA QueuesSame ==
  ASSUME seen' = seen, queue' = queue
  PROVE  SameStreams
BY DEF SameStreams, Stream

(* The steps that take clients off the list, if anything, and emissions on. *)
LEMMA GapKept ==
  ASSUME ListInv, NumberInv, GapInv, SameStreams, NoGap, cut \subseteq cut',
         count' = count,
         \A c \in Clients : Subscribed(c)' => Subscribed(c),
         \A c \in Clients, e \in Emitters : ToCome(e, c)' => ToCome(e, c),
         \A c \in Clients, e \in Emitters :
           ToCome(e, c) /\ ~ToCome(e, c)' => ~Subscribed(c)' \/ <<e, count[e]>> \in cut'
  PROVE  NumberInv' /\ GapInv' /\ NoGap'
<1>1. NoGap' /\ \A c \in Clients : \A ev : Got(c, ev)' <=> Got(c, ev)
  BY SameStreamsKeep
<1>2. NumberInv'
  BY <1>1 DEF NumberInv
<1>3. ASSUME NEW c \in Clients, NEW e \in Emitters, NEW l, Got(c, <<e, l>>),
             NEW i \in l..count[e]
      PROVE  Got(c, <<e, i>>) \/ <<e, i>> \in cut' \/ Coming(c, e, i)'
  BY <1>3, Zenon DEF GapInv, Coming
<1>4. GapInv'
  BY <1>1, <1>3, Zenon DEF GapInv
<1> QED BY <1>1, <1>2, <1>4

(* The SSE threads.                                                         *)
LEMMA SubscribeKeeps ==
  ASSUME FanoutIInv, NEW c \in Clients, Subscribe(c)
  PROVE  FanoutIInv'
<1>1. /\ spc[c] = "new" /\ subscribers' = Append(subscribers, c)
      /\ spc' = [spc EXCEPT ![c] = "open"]
      /\ queue' = queue /\ seen' = seen /\ count' = count /\ rest' = rest
      /\ removing' = removing /\ owed' = owed /\ cut' = cut
  BY DEF Subscribe, emitVars
<1>2. subscribers \in Seq(Clients) /\ spc \in [Clients -> Stages]
  BY DEF FanoutIInv, FanoutTypes
<1>3. \A x : /\ Append(subscribers, c) \in Seq(Clients)
             /\ In(x, Append(subscribers, c)) <=> In(x, subscribers) \/ x = c
             /\ Once(x, subscribers) /\ (x = c => ~In(x, subscribers))
                  => Once(x, Append(subscribers, c))
  BY <1>2, AppendIn
<1>4. \A d \in Clients : Subscribed(d)' <=> Subscribed(d) \/ d = c
  BY <1>1, <1>3 DEF Subscribed
<1>5. ~Subscribed(c) /\ \A e \in Emitters : ~ToCome(e, c)
  BY <1>1 DEF FanoutIInv, ListInv
<1>6. \A d \in Clients, e \in Emitters : ToCome(e, d)' <=> ToCome(e, d)
  BY <1>1 DEF ToCome
<1>7. FanoutTypes'
  BY <1>1, <1>2, <1>3 DEF FanoutIInv, FanoutTypes, Stages
<1>8. RemovingTypes'
  BY <1>1, Zenon DEF FanoutIInv, RemovingTypes
<1>9. ListInv'
  <2>1. \A d \in Clients : spc'[d] = IF d = c THEN "open" ELSE spc[d]
    BY <1>1, <1>2
  <2>2. \A d \in Clients : Once(d, subscribers')
    BY <1>1, <1>3, <1>5 DEF FanoutIInv, ListInv, Subscribed
  <2> QED BY <1>1, <1>4, <1>6, <2>1, <2>2 DEF FanoutIInv, ListInv
<1>10. NoGap' /\ \A d \in Clients : \A ev : Got(d, ev)' <=> Got(d, ev)
  BY <1>1, QueuesSame, SameStreamsKeep DEF FanoutIInv
<1>11. NumberInv'
  BY <1>1, <1>6, <1>10 DEF FanoutIInv, NumberInv
<1>12. GapInv'
  <2>1. \A ev : ~Got(c, ev)
    <3>1. Stream(c) = <<>>
      BY <1>1 DEF FanoutIInv, ListInv, Stream
    <3> QED BY <3>1, NothingIn DEF Got
  <2>2. ASSUME NEW d \in Clients, NEW e \in Emitters, NEW i, d # c, Coming(d, e, i)
        PROVE  Coming(d, e, i)'
    BY <1>1, <1>4, <1>6, <2>2, Zenon DEF Coming
  <2> QED BY <1>1, <1>10, <2>1, <2>2, Zenon DEF FanoutIInv, GapInv
<1> QED BY <1>7, <1>8, <1>9, <1>10, <1>11, <1>12 DEF FanoutIInv

LEMMA SendKeeps ==
  ASSUME FanoutIInv, NEW c \in Clients, Send(c)
  PROVE  FanoutIInv'
<1>1. /\ queue[c] # <<>> /\ queue' = [queue EXCEPT ![c] = Tail(queue[c])]
      /\ seen' = [seen EXCEPT ![c] = Append(seen[c], Head(queue[c]))]
      /\ spc[c] = "open" /\ subscribers' = subscribers /\ spc' = spc
      /\ count' = count /\ rest' = rest /\ removing' = removing /\ owed' = owed /\ cut' = cut
  BY DEF Send, emitVars
<1>2. /\ seen \in [Clients -> Seq(Events)] /\ queue \in [Clients -> Seq(Events)]
      /\ Len(queue[c]) <= Capacity
  BY DEF FanoutIInv, FanoutTypes
<1>3. /\ Append(seen[c], Head(queue[c])) \o Tail(queue[c]) = seen[c] \o queue[c]
      /\ Append(seen[c], Head(queue[c])) \in Seq(Events)
      /\ Tail(queue[c]) \in Seq(Events) /\ Len(Tail(queue[c])) = Len(queue[c]) - 1
      /\ Len(queue[c]) \in Nat
  <2>1. seen[c] \in Seq(Events) /\ queue[c] \in Seq(Events)
    BY <1>2
  <2>2. Append(seen[c], Head(queue[c])) \o Tail(queue[c]) = seen[c] \o queue[c]
    BY <1>1, <2>1, StreamMoves
  <2>3. /\ Append(seen[c], Head(queue[c])) \in Seq(Events)
        /\ Tail(queue[c]) \in Seq(Events) /\ Len(Tail(queue[c])) = Len(queue[c]) - 1
        /\ Len(queue[c]) \in Nat
    BY <1>1, <2>1, SMT
  <2> QED BY <2>2, <2>3
<1>4. \A d \in Clients : /\ queue'[d] = IF d = c THEN Tail(queue[c]) ELSE queue[d]
                         /\ seen'[d] = IF d = c THEN Append(seen[c], Head(queue[c])) ELSE seen[d]
  BY <1>1, <1>2
<1>5. SameStreams
  BY <1>3, <1>4 DEF SameStreams, Stream
<1>6. /\ \A d \in Clients : Subscribed(d)' <=> Subscribed(d)
      /\ \A d \in Clients, e \in Emitters : ToCome(e, d)' <=> ToCome(e, d)
  BY <1>1 DEF Subscribed, ToCome
<1>7. NumberInv' /\ GapInv' /\ NoGap'
  BY <1>1, <1>5, <1>6, GapKept DEF FanoutIInv
<1>8. FanoutTypes'
  <2>1. /\ queue' \in [Clients -> Seq(Events)] /\ seen' \in [Clients -> Seq(Events)]
    BY <1>1, <1>2, <1>3
  <2>2. \A d \in Clients : Len(queue'[d]) <= Capacity
    <3>1. Len(queue[c]) - 1 <= Capacity
      BY <1>1, <1>2, <1>3, FanoutAssumption, SMT
    <3> QED BY <1>3, <1>4, <3>1 DEF FanoutIInv, FanoutTypes
  <2> QED BY <1>1, <2>1, <2>2 DEF FanoutIInv, FanoutTypes
<1>9. RemovingTypes'
  BY <1>1, Zenon DEF FanoutIInv, RemovingTypes
<1>10. ListInv'
  BY <1>1, <1>4, <1>6 DEF FanoutIInv, ListInv
<1> QED BY <1>7, <1>8, <1>9, <1>10 DEF FanoutIInv

(* An SSE thread goes on to leave, or has left.                             *)
LEMMA LeavingKeeps ==
  ASSUME FanoutIInv, NEW c \in Clients,
         Disconnect(c) \/ Leave(c) \/ Unsubscribe(c)
  PROVE  FanoutIInv'
<1>1. /\ queue' = queue /\ seen' = seen
      /\ count' = count /\ rest' = rest /\ removing' = removing /\ owed' = owed /\ cut' = cut
  BY DEF Disconnect, Leave, Unsubscribe, emitVars
<1>2. subscribers \in Seq(Clients) /\ spc \in [Clients -> Stages]
  BY DEF FanoutIInv, FanoutTypes
<1>3. \A x : /\ RemoveFirst(subscribers, c) \in Seq(Clients)
             /\ In(x, RemoveFirst(subscribers, c)) => In(x, subscribers)
             /\ Once(x, subscribers) => Once(x, RemoveFirst(subscribers, c))
             /\ Once(c, subscribers) => ~In(c, RemoveFirst(subscribers, c))
  BY <1>2, RemoveFirstIn
<1>4. /\ spc[c] \in {"open", "leave", "remove"}
      /\ spc' = [spc EXCEPT ![c] = spc'[c]]
      /\ \/ subscribers' = subscribers /\ spc'[c] \in {"leave", "remove"}
         \/ subscribers' = subscribers /\ spc'[c] = "closed" /\ ~In(c, subscribers)
         \/ subscribers' = RemoveFirst(subscribers, c) /\ spc'[c] = "closed"
  BY <1>2, ContainsIsIn
  DEF Disconnect, Leave, Unsubscribe, Without
<1>5. PICK w : w = spc'[c]
  OBVIOUS
<1>6. /\ spc' \in [Clients -> Stages] /\ w \in {"leave", "remove", "closed"}
      /\ \A d \in Clients : spc'[d] = IF d = c THEN w ELSE spc[d]
  <2>1. w \in {"leave", "remove", "closed"} /\ spc' = [spc EXCEPT ![c] = w]
    BY <1>4, <1>5
  <2> QED BY <1>2, <2>1 DEF Stages
<1>7. /\ subscribers' \in Seq(Clients)
      /\ \A d \in Clients : /\ Once(d, subscribers')
                            /\ Subscribed(d)' => Subscribed(d)
      /\ w = "closed" => ~Subscribed(c)'
  BY <1>2, <1>3, <1>4, <1>5 DEF FanoutIInv, ListInv, Subscribed
<1>8. \A d \in Clients, e \in Emitters : ToCome(e, d)' <=> ToCome(e, d)
  BY <1>1 DEF ToCome
<1>9. NumberInv' /\ GapInv' /\ NoGap'
  BY <1>1, <1>7, <1>8, QueuesSame, GapKept DEF FanoutIInv
<1>10. FanoutTypes'
  BY <1>1, <1>6, <1>7 DEF FanoutIInv, FanoutTypes
<1>11. RemovingTypes'
  BY <1>1, Zenon DEF FanoutIInv, RemovingTypes
<1>12. ListInv'
  BY <1>1, <1>4, <1>6, <1>7, <1>8 DEF FanoutIInv, ListInv
<1> QED BY <1>9, <1>10, <1>11, <1>12 DEF FanoutIInv

(* The threads that emit.                                                   *)
LEMMA EmitKeeps ==
  ASSUME FanoutIInv, NEW e \in Emitters, Emit(e)
  PROVE  FanoutIInv'
<1>1. /\ rest[e] = <<>> /\ count[e] < MaxEvents[e]
      /\ count' = [count EXCEPT ![e] = count[e] + 1]
      /\ rest' = [rest EXCEPT ![e] = subscribers]
      /\ owed' = [c \in Clients |-> IF Contains(subscribers, c)
                                    THEN owed[c] \cup {<<e, count'[e]>>} ELSE owed[c]]
      /\ subscribers' = subscribers /\ queue' = queue /\ seen' = seen /\ spc' = spc
      /\ removing' = removing /\ cut' = cut
  BY DEF Emit, sseVars
<1>2. /\ subscribers \in Seq(Clients) /\ count \in [Emitters -> Nat]
      /\ rest \in [Emitters -> Seq(Clients)] /\ owed \in [Clients -> SUBSET Events]
      /\ \A d \in Emitters : count[d] <= MaxEvents[d]
  BY DEF FanoutIInv, FanoutTypes
<1>3. /\ count' \in [Emitters -> Nat] /\ rest' \in [Emitters -> Seq(Clients)]
      /\ \A d \in Emitters : /\ count'[d] = IF d = e THEN count[e] + 1 ELSE count[d]
                             /\ rest'[d] = IF d = e THEN subscribers ELSE rest[d]
  BY <1>1, <1>2
<1>4. /\ \A c \in Clients : Subscribed(c)' <=> Subscribed(c)
      /\ \A c \in Clients, d \in Emitters :
           ToCome(d, c)' <=> IF d = e THEN Subscribed(c) ELSE ToCome(d, c)
      /\ \A c \in Clients : ~ToCome(e, c)
  BY <1>1, <1>3, NothingIn DEF Subscribed, ToCome
<1>5. count[e] + 1 <= MaxEvents[e] /\ count[e] + 1 \in Nat \ {0}
  BY <1>1, <1>2, FanoutAssumption, SMT
<1>6. FanoutTypes'
  <2>1. \A d \in Emitters : count'[d] <= MaxEvents[d]
    BY <1>2, <1>3, <1>5
  <2>2. owed' \in [Clients -> SUBSET Events]
    <3>1. <<e, count'[e]>> \in Events
      BY <1>3, <1>5, EventsKnown
    <3> QED BY <1>1, <1>2, <3>1
  <2> QED BY <1>1, <1>3, <2>1, <2>2 DEF FanoutIInv, FanoutTypes
<1>7. RemovingTypes'
  <2>1. ~removing[e]
    BY <1>1, Zenon DEF FanoutIInv, RemovingTypes
  <2> QED BY <1>1, <1>3, <2>1, Zenon DEF FanoutIInv, RemovingTypes
<1>8. ListInv'
  BY <1>1, <1>3, <1>4, <1>5 DEF FanoutIInv, ListInv
<1>9. NoGap' /\ \A c \in Clients : \A ev : Got(c, ev)' <=> Got(c, ev)
  BY <1>1, QueuesSame, SameStreamsKeep DEF FanoutIInv
<1>10. NumberInv'
  <2>1. SUFFICES ASSUME NEW c \in Clients, NEW d \in Emitters, NEW i, Got(c, <<d, i>>)
                 PROVE  i \in 1..count'[d] /\ (ToCome(d, c)' => i # count'[d])
    BY <1>9 DEF NumberInv
  <2>2. i \in 1..count[d] /\ (ToCome(d, c) => i # count[d])
    BY <2>1 DEF FanoutIInv, NumberInv
  <2>3. CASE d = e
    BY <1>2, <1>3, <2>2, <2>3, SMT
  <2>4. CASE d # e
    BY <1>3, <1>4, <2>2, <2>4
  <2> QED BY <2>3, <2>4
<1>11. GapInv'
  <2>1. SUFFICES ASSUME NEW c \in Clients, NEW d \in Emitters, NEW l, Got(c, <<d, l>>),
                        NEW i \in l..count'[d]
                 PROVE  Got(c, <<d, i>>) \/ <<d, i>> \in cut \/ Coming(c, d, i)'
    BY <1>1, <1>9, Zenon DEF GapInv
  <2>2. l \in 1..count[d]
    BY <2>1 DEF FanoutIInv, NumberInv
  <2>3. CASE d # e
    <3>1. i \in l..count[d]
      BY <1>3, <2>3
    <3>2. Got(c, <<d, i>>) \/ <<d, i>> \in cut \/ Coming(c, d, i)
      BY <2>1, <3>1 DEF FanoutIInv, GapInv
    <3> QED BY <1>3, <1>4, <2>3, <3>2, Zenon DEF Coming
  <2>4. CASE d = e
    <3>1. CASE i = count'[e]
      BY <1>4, <2>4, <3>1, Zenon DEF Coming
    <3>2. CASE i # count'[e]
      <4>1. i \in l..count[e]
        BY <1>2, <1>3, <2>1, <2>2, <2>4, <3>2, SMT
      <4>2. Got(c, <<e, i>>) \/ <<e, i>> \in cut \/ Coming(c, e, i)
        BY <2>1, <2>4, <4>1 DEF FanoutIInv, GapInv
      <4> QED BY <1>4, <2>4, <4>2, Zenon DEF Coming
    <3> QED BY <3>1, <3>2
  <2> QED BY <2>3, <2>4
<1> QED BY <1>6, <1>7, <1>8, <1>9, <1>10, <1>11 DEF FanoutIInv

(* An emission goes on to the next client of its copy, or ends.             *)
LEMMA GoingOn ==
  ASSUME FanoutIInv, NEW e \in Emitters, rest[e] # <<>>,
         rest' = [rest EXCEPT ![e] = Tail(rest[e])]
  PROVE  /\ rest' \in [Emitters -> Seq(Clients)] /\ Head(rest[e]) \in Clients
         /\ \A d \in Emitters : d # e => rest'[d] = rest[d]
         /\ \A c \in Clients, d \in Emitters :
              /\ ToCome(d, c)' <=> ToCome(d, c) /\ (d # e \/ c # Head(rest[e]))
              /\ Once(c, rest'[d])
         /\ ToCome(e, Head(rest[e]))
<1>1. rest \in [Emitters -> Seq(Clients)]
  BY DEF FanoutIInv, FanoutTypes
<1>2. rest[e] \in Seq(Clients)
  BY <1>1
<1>3. \A x : /\ Tail(rest[e]) \in Seq(Clients) /\ Head(rest[e]) \in Clients
             /\ In(Head(rest[e]), rest[e])
             /\ In(x, Tail(rest[e])) => In(x, rest[e])
             /\ x # Head(rest[e]) /\ In(x, rest[e]) => In(x, Tail(rest[e]))
             /\ Once(x, rest[e]) => Once(x, Tail(rest[e]))
             /\ Once(x, rest[e]) /\ x = Head(rest[e]) => ~In(x, Tail(rest[e]))
  BY <1>2, TailIn
<1>4. \A d \in Emitters : rest'[d] = IF d = e THEN Tail(rest[e]) ELSE rest[d]
  BY <1>1
<1>5. \A c \in Clients, d \in Emitters : Once(c, rest[d])
  BY DEF FanoutIInv, ListInv
<1>6. rest' \in [Emitters -> Seq(Clients)]
  BY <1>1, <1>3
<1> QED BY <1>3, <1>4, <1>5, <1>6, Zenon DEF ToCome

LEMMA QueueGrows ==
  ASSUME FanoutTypes, NEW c \in Clients, NEW ev \in Events
  PROVE  seen[c] \o Append(queue[c], ev) = Append(seen[c] \o queue[c], ev)
<1>1. seen[c] \in Seq(Events) /\ queue[c] \in Seq(Events)
  BY DEF FanoutTypes
<1>2. \A t, q \in Seq(Events) : t \o Append(q, ev) = Append(t \o q, ev)
  BY SMT
<1> QED BY <1>1, <1>2, Zenon

(* The event goes into a client's queue: it is the last of its thread's     *)
(* events in the stream.                                                    *)
LEMMA PutKeeps ==
  ASSUME FanoutIInv, NEW e \in Emitters, rest[e] # <<>>, ~removing[e],
         Len(queue[Head(rest[e])]) < Capacity,
         queue' = [queue EXCEPT ![Head(rest[e])] =
                     Append(queue[Head(rest[e])], Event(e))],
         GoOn(e),
         UNCHANGED <<subscribers, seen, spc, count, removing, owed, cut>>
  PROVE  FanoutIInv'
<1>1. PICK c, ev : c = Head(rest[e]) /\ ev = <<e, count[e]>>
  OBVIOUS
<1>2. rest' = [rest EXCEPT ![e] = Tail(rest[e])]
  BY DEF GoOn
<1>3. /\ rest' \in [Emitters -> Seq(Clients)] /\ c \in Clients
      /\ \A d \in Emitters : d # e => rest'[d] = rest[d]
      /\ \A b \in Clients, d \in Emitters :
           /\ ToCome(d, b)' <=> ToCome(d, b) /\ (d # e \/ b # c)
           /\ Once(b, rest'[d])
      /\ ToCome(e, c)
  BY <1>1, <1>2, GoingOn
<1>5. /\ queue' = [queue EXCEPT ![c] = Append(queue[c], ev)]
      /\ seen' = seen /\ subscribers' = subscribers /\ spc' = spc /\ count' = count
      /\ removing' = removing /\ owed' = owed /\ cut' = cut
      /\ Len(queue[c]) < Capacity
  BY <1>1 DEF Event
<1>6. /\ seen \in [Clients -> Seq(Events)] /\ queue \in [Clients -> Seq(Events)]
      /\ count[e] \in Nat /\ count[e] <= MaxEvents[e]
  BY DEF FanoutIInv, FanoutTypes
<1>7. ev \in Events /\ count[e] \in Nat \ {0}
  <2>1. count[e] # 0
    BY <1>3 DEF FanoutIInv, ListInv
  <2> QED BY <1>1, <1>6, <2>1, EventsKnown
<1>8. /\ seen[c] \in Seq(Events) /\ queue[c] \in Seq(Events)
      /\ Append(queue[c], ev) \in Seq(Events)
      /\ Len(Append(queue[c], ev)) <= Capacity
  BY <1>3, <1>5, <1>6, <1>7, FanoutAssumption, SMT
<1>9. /\ queue' \in [Clients -> Seq(Events)]
      /\ \A d \in Clients : queue'[d] = IF d = c THEN Append(queue[c], ev) ELSE queue[d]
  BY <1>5, <1>6, <1>8
<1>10. FanoutTypes'
  BY <1>3, <1>5, <1>8, <1>9 DEF FanoutIInv, FanoutTypes
<1>11. RemovingTypes'
  BY <1>3, <1>5, Zenon DEF FanoutIInv, RemovingTypes
<1>12. \A d \in Clients : Subscribed(d)' <=> Subscribed(d)
  BY <1>5 DEF Subscribed
<1>13. ListInv'
  BY <1>3, <1>5, <1>9, <1>12 DEF FanoutIInv, ListInv
<1>14. PICK s : s = Stream(c)
  OBVIOUS
<1>15. /\ s \in Seq(Events) /\ Stream(c)' = Append(s, ev)
       /\ \A d \in Clients : d # c => Stream(d)' = Stream(d)
  <2>1. seen[c] \o Append(queue[c], ev) = Append(seen[c] \o queue[c], ev)
    BY <1>3, <1>7, QueueGrows DEF FanoutIInv
  <2>2. s = seen[c] \o queue[c] /\ s \in Seq(Events)
    BY <1>3, <1>14, Streams DEF Stream, FanoutIInv
  <2>3. \A d \in Clients : Stream(d)' = seen[d] \o queue'[d]
    BY <1>5 DEF Stream
  <2>4. \A d \in Clients : d # c => Stream(d)' = Stream(d)
    BY <1>9, <2>3 DEF Stream
  <2> QED BY <1>3, <1>9, <2>1, <2>2, <2>3, <2>4
<1>16. /\ \A x : Got(c, x) <=> In(x, s)
       /\ \A x : Got(c, x)' <=> Got(c, x) \/ x = ev
       /\ \A d \in Clients : d # c => \A x : Got(d, x)' <=> Got(d, x)
  <2>1. \A x : In(x, Append(s, ev)) <=> In(x, s) \/ x = ev
    BY <1>7, <1>15, AppendIn
  <2> QED BY <1>14, <1>15, <2>1 DEF Got
<1>17. NumberInv'
  <2>1. SUFFICES ASSUME NEW b \in Clients, NEW d \in Emitters, NEW i, Got(b, <<d, i>>)'
                 PROVE  i \in 1..count[d] /\ (ToCome(d, b)' => i # count[d])
    BY <1>5 DEF NumberInv
  <2>2. CASE Got(b, <<d, i>>)
    BY <1>3, <2>2 DEF FanoutIInv, NumberInv
  <2>3. CASE b = c /\ <<d, i>> = ev
    <3>1. d = e /\ i = count[e]
      BY <1>1, <2>3
    <3> QED BY <1>3, <1>7, <2>3, <3>1, SMT
  <2> QED BY <1>16, <2>1, <2>2, <2>3
<1>18. \A l : Got(c, <<e, l>>) =>
         /\ l \in 1..count[e] /\ l # count[e]
         /\ \A i \in l..count[e] : Got(c, <<e, i>>)' \/ <<e, i>> \in cut'
  <2>1. SUFFICES ASSUME NEW l, Got(c, <<e, l>>), NEW i \in l..count[e]
                 PROVE  Got(c, <<e, i>>)' \/ <<e, i>> \in cut'
    BY <1>3 DEF FanoutIInv, NumberInv
  <2>2. Got(c, <<e, i>>) \/ <<e, i>> \in cut \/ Coming(c, e, i)
    BY <1>3, <2>1 DEF FanoutIInv, GapInv
  <2> QED BY <1>1, <1>3, <1>5, <1>16, <2>2 DEF Coming
<1>19. GapInv'
  <2>1. SUFFICES ASSUME NEW b \in Clients, NEW d \in Emitters, NEW l, Got(b, <<d, l>>)',
                        NEW i \in l..count[d]
                 PROVE  Got(b, <<d, i>>)' \/ <<d, i>> \in cut' \/ Coming(b, d, i)'
    BY <1>5, Zenon DEF GapInv
  <2>2. CASE b = c /\ d = e
    <3>1. CASE Got(c, <<e, l>>)
      BY <1>18, <2>1, <2>2, <3>1
    <3>2. CASE <<e, l>> = ev
      <4>1. l = count[e]
        BY <1>1, <3>2
      <4>2. i = count[e]
        BY <1>6, <2>1, <2>2, <4>1, SMT
      <4> QED BY <1>1, <1>16, <2>2, <4>2
    <3> QED BY <1>16, <2>1, <2>2, <3>1, <3>2
  <2>3. CASE ~(b = c /\ d = e)
    <3>1. Got(b, <<d, l>>)
      BY <1>1, <1>16, <2>1, <2>3
    <3>2. Got(b, <<d, i>>) \/ <<d, i>> \in cut \/ Coming(b, d, i)
      BY <2>1, <3>1 DEF FanoutIInv, GapInv
    <3>3. (ToCome(d, b)' <=> ToCome(d, b)) /\ (Subscribed(b)' <=> Subscribed(b))
      BY <1>3, <1>12, <2>3
    <3> QED BY <1>5, <1>16, <3>2, <3>3, Zenon DEF Coming
  <2> QED BY <2>2, <2>3
<1>20. NoGap'
  <2>1. PICK u : u = Append(s, ev)
    OBVIOUS
  <2>2. /\ Len(s) \in Nat /\ DOMAIN s = 1..Len(s) /\ DOMAIN u = 1..(Len(s) + 1)
        /\ \A j \in 1..Len(s) : u[j] = s[j] /\ s[j] \in Events
        /\ u[Len(s) + 1] = ev
    BY <1>7, <1>15, <2>1, SMT
  <2>3. ASSUME NEW j \in DOMAIN u, NEW k \in DOMAIN u, j < k, u[j][1] = u[k][1]
        PROVE  /\ u[j][2] < u[k][2]
               /\ \A i \in u[j][2]..u[k][2] :
                    In(<<u[j][1], i>>, u) \/ <<u[j][1], i>> \in cut'
    <3>1. \A x : In(x, u) <=> In(x, s) \/ x = ev
      BY <1>7, <1>15, <2>1, AppendIn
    <3>2. CASE k \in 1..Len(s)
      <4>1. j \in 1..Len(s)
        BY <2>2, <2>3, <3>2, SMT
      <4>2. /\ s[j][2] < s[k][2]
            /\ \A i \in s[j][2]..s[k][2] :
                 In(<<s[j][1], i>>, s) \/ <<s[j][1], i>> \in cut
        <5>1. s[j][1] = s[k][1] /\ j \in DOMAIN s /\ k \in DOMAIN s
          BY <2>2, <2>3, <3>2, <4>1
        <5> QED BY <1>3, <1>14, <2>3, <5>1, ContainsIsIn, Zenon DEF FanoutIInv, NoGap
      <4> QED BY <1>5, <2>2, <3>1, <3>2, <4>1, <4>2
    <3>3. CASE k = Len(s) + 1
      <4>1. j \in 1..Len(s) /\ u[k] = ev /\ u[j] = s[j] /\ s[j] \in Events
        BY <2>2, <2>3, <3>3, SMT
      <4>2. PICK d \in Emitters : \E l \in 1..MaxEvents[d] : s[j] = <<d, l>>
        BY <4>1, EventsKnown
      <4>3. PICK l \in 1..MaxEvents[d] : s[j] = <<d, l>>
        BY <4>2
      <4>4. d = e /\ u[j][1] = e /\ u[j][2] = l /\ u[k][2] = count[e]
        BY <1>1, <2>3, <4>1, <4>3
      <4>5. Got(c, <<e, l>>)
        BY <1>16, <4>1, <4>3, <4>4 DEF In
      <4>6. l < count[e]
        BY <1>6, <1>18, <4>5, SMT
      <4>7. \A x : Got(c, x)' <=> In(x, u)
        BY <1>16, <3>1
      <4> QED BY <1>18, <4>4, <4>5, <4>6, <4>7
    <3> QED BY <2>2, <2>3, <3>2, <3>3, SMT
  <2>4. ASSUME NEW d \in Clients, d # c
        PROVE  LET v == Stream(d)' IN
               \A j, k \in DOMAIN v : j < k /\ v[j][1] = v[k][1] =>
                 /\ v[j][2] < v[k][2]
                 /\ \A i \in v[j][2]..v[k][2] :
                      Contains(v, <<v[j][1], i>>) \/ <<v[j][1], i>> \in cut'
    <3>1. Stream(d)' = Stream(d)
      BY <1>15, <2>4
    <3> QED BY <1>5, <3>1, Zenon DEF FanoutIInv, NoGap
  <2>5. Stream(c)' = u
    BY <1>15, <2>1
  <2> QED BY <2>3, <2>4, <2>5, ContainsIsIn, Zenon DEF NoGap
<1> QED BY <1>10, <1>11, <1>13, <1>17, <1>19, <1>20 DEF FanoutIInv

(* A client whose queue is full and that has left the list is passed over.  *)
LEMMA PassKeeps ==
  ASSUME FanoutIInv, NEW e \in Emitters, rest[e] # <<>>, ~removing[e],
         ~Contains(subscribers, Head(rest[e])),
         GoOn(e),
         UNCHANGED <<subscribers, queue, seen, spc, count, removing, owed, cut>>
  PROVE  FanoutIInv'
<1>1. PICK c : c = Head(rest[e])
  OBVIOUS
<1>2. rest' = [rest EXCEPT ![e] = Tail(rest[e])]
  BY DEF GoOn
<1>3. /\ rest' \in [Emitters -> Seq(Clients)] /\ c \in Clients
      /\ \A d \in Emitters : d # e => rest'[d] = rest[d]
      /\ \A b \in Clients, d \in Emitters :
           /\ ToCome(d, b)' <=> ToCome(d, b) /\ (d # e \/ b # c)
           /\ Once(b, rest'[d])
  BY <1>1, <1>2, GoingOn
<1>4. /\ ~Subscribed(c)
      /\ \A d \in Clients : Subscribed(d)' <=> Subscribed(d)
  BY <1>1, ContainsIsIn DEF Subscribed
<1>5. NumberInv' /\ GapInv' /\ NoGap'
  BY <1>3, <1>4, QueuesSame, GapKept DEF FanoutIInv
<1>6. FanoutTypes'
  BY <1>3 DEF FanoutIInv, FanoutTypes
<1>7. RemovingTypes'
  BY <1>3, Zenon DEF FanoutIInv, RemovingTypes
<1>8. ListInv'
  BY <1>3, <1>4 DEF FanoutIInv, ListInv
<1> QED BY <1>5, <1>6, <1>7, <1>8 DEF FanoutIInv

(* A client whose queue is full is about to be taken off the list.          *)
LEMMA LookKeeps ==
  ASSUME FanoutIInv, NEW e \in Emitters, rest[e] # <<>>,
         removing' = [removing EXCEPT ![e] = TRUE],
         UNCHANGED <<subscribers, queue, rest, seen, spc, count, owed, cut>>
  PROVE  FanoutIInv'
<1>1. \A c \in Clients : /\ Subscribed(c)' <=> Subscribed(c)
                         /\ \A d \in Emitters : ToCome(d, c)' <=> ToCome(d, c)
  BY DEF Subscribed, ToCome
<1>2. NumberInv' /\ GapInv' /\ NoGap'
  BY <1>1, QueuesSame, GapKept DEF FanoutIInv
<1>3. FanoutTypes'
  BY DEF FanoutIInv, FanoutTypes
<1>4. RemovingTypes'
  BY Zenon DEF FanoutIInv, RemovingTypes
<1>5. ListInv'
  BY <1>1 DEF FanoutIInv, ListInv
<1> QED BY <1>2, <1>3, <1>4, <1>5 DEF FanoutIInv

(* It is taken off the list, or remove() raises and the emission ends.      *)
LEMMA DropKeeps ==
  ASSUME FanoutIInv, NEW e \in Emitters, Drop(e)
  PROVE  FanoutIInv'
<1>1. PICK c : c = Head(rest[e])
  OBVIOUS
<1>2. /\ removing[e] /\ removing' = [removing EXCEPT ![e] = FALSE]
      /\ queue' = queue /\ seen' = seen /\ spc' = spc /\ count' = count /\ owed' = owed
      /\ \/ /\ subscribers' = RemoveFirst(subscribers, c)
            /\ rest' = [rest EXCEPT ![e] = Tail(rest[e])]
            /\ cut' = cut
         \/ /\ subscribers' = subscribers
            /\ rest' = [rest EXCEPT ![e] = <<>>]
            /\ cut' = cut \cup {<<e, count[e]>>}
  BY <1>1 DEF Drop, sseVars, GoOn, Without, Event
<1>3. rest[e] # <<>>
  BY <1>2, Zenon DEF FanoutIInv, RemovingTypes
<1>4. /\ subscribers \in Seq(Clients) /\ rest \in [Emitters -> Seq(Clients)]
      /\ count[e] \in Nat /\ count[e] <= MaxEvents[e]
  BY DEF FanoutIInv, FanoutTypes
<1>5. rest[e] \in Seq(Clients) /\ c \in Clients /\ ToCome(e, c)
  <2>1. rest[e] \in Seq(Clients)
    BY <1>4
  <2>2. Head(rest[e]) \in Clients /\ In(Head(rest[e]), rest[e])
    BY <1>3, <2>1, TailIn
  <2> QED BY <1>1, <2>1, <2>2 DEF ToCome
<1>6. <<e, count[e]>> \in Events
  <2>1. count[e] # 0
    BY <1>5 DEF FanoutIInv, ListInv
  <2> QED BY <1>4, <2>1, EventsKnown
<1>7. /\ removing' \in [Emitters -> BOOLEAN]
      /\ \A d \in Emitters : removing'[d] => removing[d] /\ d # e
  BY <1>2, Zenon DEF FanoutIInv, RemovingTypes
<1>8. CASE /\ subscribers' = RemoveFirst(subscribers, c)
           /\ rest' = [rest EXCEPT ![e] = Tail(rest[e])]
           /\ cut' = cut
  <2>1. \A x : /\ RemoveFirst(subscribers, c) \in Seq(Clients)
               /\ In(x, RemoveFirst(subscribers, c)) => In(x, subscribers)
               /\ Once(x, subscribers) => Once(x, RemoveFirst(subscribers, c))
               /\ Once(c, subscribers) => ~In(c, RemoveFirst(subscribers, c))
    BY <1>4, RemoveFirstIn
  <2>2. /\ subscribers' \in Seq(Clients)
        /\ \A d \in Clients : Once(d, subscribers') /\ (Subscribed(d)' => Subscribed(d))
        /\ ~Subscribed(c)'
    BY <1>5, <1>8, <2>1 DEF FanoutIInv, ListInv, Subscribed
  <2>3. /\ rest' \in [Emitters -> Seq(Clients)]
        /\ \A d \in Emitters : d # e => rest'[d] = rest[d]
        /\ \A b \in Clients, d \in Emitters :
             /\ ToCome(d, b)' <=> ToCome(d, b) /\ (d # e \/ b # c)
             /\ Once(b, rest'[d])
    BY <1>1, <1>3, <1>8, GoingOn
  <2>4. NumberInv' /\ GapInv' /\ NoGap'
    BY <1>2, <1>8, <2>2, <2>3, QueuesSame, GapKept DEF FanoutIInv
  <2>5. FanoutTypes'
    BY <1>2, <1>8, <2>2, <2>3 DEF FanoutIInv, FanoutTypes
  <2>6. RemovingTypes'
    BY <1>7, <2>3, Zenon DEF FanoutIInv, RemovingTypes
  <2>7. ListInv'
    BY <1>2, <2>2, <2>3 DEF FanoutIInv, ListInv
  <2> QED BY <2>4, <2>5, <2>6, <2>7 DEF FanoutIInv
<1>9. CASE /\ subscribers' = subscribers
           /\ rest' = [rest EXCEPT ![e] = <<>>]
           /\ cut' = cut \cup {<<e, count[e]>>}
  <2>1. /\ rest' \in [Emitters -> Seq(Clients)]
        /\ \A d \in Emitters : rest'[d] = IF d = e THEN <<>> ELSE rest[d]
    <3>1. <<>> \in Seq(Clients)
      BY SMT
    <3> QED BY <1>4, <1>9, <3>1
  <2>2. \A b \in Clients, d \in Emitters :
          /\ ToCome(d, b)' <=> ToCome(d, b) /\ d # e
          /\ Once(b, rest'[d])
    BY <2>1, NothingIn DEF FanoutIInv, ListInv, ToCome
  <2>3. \A d \in Clients : Subscribed(d)' <=> Subscribed(d)
    BY <1>9 DEF Subscribed
  <2>4. NumberInv' /\ GapInv' /\ NoGap'
    BY <1>2, <1>9, <2>2, <2>3, QueuesSame, GapKept DEF FanoutIInv
  <2>5. FanoutTypes'
    BY <1>2, <1>6, <1>9, <2>1 DEF FanoutIInv, FanoutTypes
  <2>6. RemovingTypes'
    BY <1>7, <2>1, Zenon DEF FanoutIInv, RemovingTypes
  <2>7. ListInv'
    BY <1>2, <1>9, <2>2, <2>3 DEF FanoutIInv, ListInv
  <2> QED BY <2>4, <2>5, <2>6, <2>7 DEF FanoutIInv
<1> QED BY <1>2, <1>8, <1>9

LEMMA FanoutInductive ==
  /\ FanoutInit => FanoutIInv
  /\ FanoutIInv /\ [FanoutNext]_fanoutVars => FanoutIInv'
<1>1. ASSUME FanoutInit PROVE FanoutIInv
  <2>1. /\ subscribers = <<>> /\ queue = [c \in Clients |-> <<>>]
        /\ seen = [c \in Clients |-> <<>>] /\ spc = [c \in Clients |-> "new"]
        /\ count = [e \in Emitters |-> 0] /\ rest = [e \in Emitters |-> <<>>]
        /\ removing = [e \in Emitters |-> FALSE]
        /\ owed = [c \in Clients |-> {}] /\ cut = {}
    BY <1>1 DEF FanoutInit
  <2>2. <<>> \in Seq(Clients) /\ <<>> \in Seq(Events) /\ Len(<<>>) = 0 /\ DOMAIN <<>> = {}
    BY SMT
  <2>3. FanoutTypes
    <3>1. queue \in [Clients -> Seq(Events)] /\ seen \in [Clients -> Seq(Events)]
      BY <2>1, <2>2
    <3>2. /\ \A c \in Clients : Len(queue[c]) <= Capacity
          /\ \A e \in Emitters : count[e] <= MaxEvents[e]
      BY <2>1, <2>2, FanoutAssumption, SMT
    <3>3. /\ spc \in [Clients -> Stages] /\ count \in [Emitters -> Nat]
          /\ rest \in [Emitters -> Seq(Clients)] /\ owed \in [Clients -> SUBSET Events]
      BY <2>1, <2>2 DEF Stages
    <3> QED BY <2>1, <2>2, <3>1, <3>2, <3>3 DEF FanoutTypes
  <2>4. RemovingTypes
    BY <2>1, Zenon DEF RemovingTypes
  <2>5. /\ \A c \in Clients : ~Subscribed(c) /\ Once(c, subscribers)
        /\ \A c \in Clients, e \in Emitters : ~ToCome(e, c) /\ Once(c, rest[e])
    BY <2>1, NothingIn DEF Subscribed, ToCome
  <2>6. ListInv
    BY <2>1, <2>5 DEF ListInv
  <2>7. \A c \in Clients : Stream(c) = <<>> /\ \A ev : ~Got(c, ev)
    <3>1. \A c \in Clients : Stream(c) = <<>>
      BY <2>1 DEF Stream
    <3> QED BY <3>1, NothingIn DEF Got
  <2>8. NumberInv /\ GapInv
    BY <2>7 DEF NumberInv, GapInv
  <2>9. NoGap
    BY <2>2, <2>7 DEF NoGap
  <2> QED BY <2>3, <2>4, <2>6, <2>8, <2>9 DEF FanoutIInv
<1>2. ASSUME FanoutIInv, [FanoutNext]_fanoutVars PROVE FanoutIInv'
  <2>1. ASSUME NEW c \in Clients, Subscribe(c) PROVE FanoutIInv'
    BY <1>2, <2>1, SubscribeKeeps
  <2>2. ASSUME NEW c \in Clients, Send(c) PROVE FanoutIInv'
    BY <1>2, <2>2, SendKeeps
  <2>3. ASSUME NEW c \in Clients,
               Disconnect(c) \/ Leave(c) \/ Unsubscribe(c)
        PROVE  FanoutIInv'
    BY <1>2, <2>3, LeavingKeeps
  <2>4. ASSUME NEW e \in Emitters, Emit(e) PROVE FanoutIInv'
    BY <1>2, <2>4, EmitKeeps
  <2>5. ASSUME NEW e \in Emitters, Put(e) PROVE FanoutIInv'
    <3>1. /\ rest[e] # <<>> /\ ~removing[e]
          /\ subscribers' = subscribers /\ seen' = seen /\ spc' = spc
          /\ count' = count /\ owed' = owed /\ cut' = cut
          /\ \/ /\ Len(queue[Head(rest[e])]) < Capacity
                /\ queue' = [queue EXCEPT ![Head(rest[e])] =
                               Append(queue[Head(rest[e])], Event(e))]
                /\ GoOn(e) /\ removing' = removing
             \/ /\ removing' = [removing EXCEPT ![e] = TRUE]
                /\ queue' = queue /\ rest' = rest
             \/ /\ ~Contains(subscribers, Head(rest[e]))
                /\ GoOn(e) /\ queue' = queue /\ removing' = removing
      BY <2>5 DEF Put, sseVars
    <3> QED BY <1>2, <3>1, PutKeeps, LookKeeps, PassKeeps
  <2>6. ASSUME NEW e \in Emitters, Drop(e) PROVE FanoutIInv'
    BY <1>2, <2>6, DropKeeps
  <2>7. CASE UNCHANGED fanoutVars
    <3>1. /\ subscribers' = subscribers /\ queue' = queue /\ seen' = seen /\ spc' = spc
          /\ count' = count /\ rest' = rest /\ removing' = removing /\ owed' = owed
          /\ cut' = cut
      BY <2>7 DEF fanoutVars
    <3>2. \A c \in Clients : /\ Subscribed(c)' <=> Subscribed(c)
                             /\ \A d \in Emitters : ToCome(d, c)' <=> ToCome(d, c)
      BY <3>1 DEF Subscribed, ToCome
    <3>3. NumberInv' /\ GapInv' /\ NoGap'
      BY <1>2, <3>1, <3>2, QueuesSame, GapKept DEF FanoutIInv
    <3>4. FanoutTypes'
      BY <1>2, <3>1 DEF FanoutIInv, FanoutTypes
    <3>5. RemovingTypes'
      BY <1>2, <3>1, Zenon DEF FanoutIInv, RemovingTypes
    <3>6. ListInv'
      BY <1>2, <3>1, <3>2 DEF FanoutIInv, ListInv
    <3> QED BY <3>3, <3>4, <3>5, <3>6 DEF FanoutIInv
  <2> QED BY <1>2, <2>1, <2>2, <2>3, <2>4, <2>5, <2>6, <2>7
      DEF FanoutNext, Serve, Proceed
<1> QED BY <1>1, <1>2

LEMMA FanoutSafe ==
  ASSUME FanoutIInv
  PROVE  Consistent
<1>1. \A e \in Emitters : count[e] \in 0..MaxEvents[e]
  BY FanoutAssumption, SMT DEF FanoutIInv, FanoutTypes
<1>2. FanoutTypeOK
  BY <1>1, Zenon DEF FanoutIInv, FanoutTypes, RemovingTypes, Stages, FanoutTypeOK
<1>3. NoOrphan
  BY ContainsIsIn DEF FanoutIInv, ListInv, Subscribed, NoOrphan
<1> QED BY <1>2, <1>3 DEF Consistent

(* For any number of clients and of threads that emit, whatever the size of *)
(* the queues: no queue exceeds its size, and none stays on the list of     *)
(* subscribers once its thread has ended (AgentBridge._emit, subscribe and  *)
(* unsubscribe).                                                            *)
THEOREM NoOrphanQueue ==
  FanoutSpec => []Consistent
<1>1. FanoutInit => FanoutIInv
  BY FanoutInductive
<1>2. FanoutIInv /\ [FanoutNext]_fanoutVars => FanoutIInv'
  BY FanoutInductive
<1>3. FanoutIInv => Consistent
  BY FanoutSafe
<1> QED BY <1>1, <1>2, <1>3, PTL DEF FanoutSpec

(* A client sees each thread's events in the order of their emission, and   *)
(* misses none between two that it sees but one whose emission has ended in *)
(* a ValueError: _emit drops a client whose queue is full for good.         *)
THEOREM StreamsHaveNoGap ==
  FanoutSpec => []NoGap
<1>1. FanoutInit => FanoutIInv
  BY FanoutInductive
<1>2. FanoutIInv /\ [FanoutNext]_fanoutVars => FanoutIInv'
  BY FanoutInductive
<1>3. FanoutIInv => NoGap
  BY DEF FanoutIInv
<1> QED BY <1>1, <1>2, <1>3, PTL DEF FanoutSpec
=============================================================================

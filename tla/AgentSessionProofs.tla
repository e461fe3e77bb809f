-------------------------- MODULE AgentSessionProofs --------------------------
(***************************************************************************)
(* Proofs about AgentSession, for any number of texts, notes, responses,   *)
(* errors and tool calls, and either queue mode.                           *)
(***************************************************************************)
EXTENDS AgentSession, FiniteSetTheorems, WellFoundedInduction, TLAPS

-----------------------------------------------------------------------------
(* Numbers, and lists.                                                      *)

LessThan == {p \in Nat \X Nat : p[1] < p[2]}

(* Every set of numbers has a least element, and one that is bounded has a  *)
(* greatest.                                                                *)
LEMMA LeastNumber ==
  ASSUME NEW T, T \subseteq Nat, T # {}
  PROVE  \E x \in T : \A y \in T : x <= y
<1>1. IsWellFoundedOn(LessThan, Nat)
  <2>1. OpToRel(<, Nat) = LessThan
    BY SMT DEF OpToRel, LessThan
  <2> QED BY <2>1, NatLessThanWellFounded
<1>2. PICK x \in T : \A y \in T : ~(<<y, x>> \in LessThan)
  BY <1>1, WFMin, Zenon
<1>3. ASSUME NEW y \in T PROVE x <= y
  <2>1. x \in Nat /\ y \in Nat
    OBVIOUS
  <2>2. <<y, x>> \notin LessThan
    BY <1>2
  <2>3. y < x => <<y, x>> \in LessThan
    BY <2>1, SMT DEF LessThan
  <2> QED BY <2>1, <2>2, <2>3, SMT
<1> QED BY <1>3

LEMMA MaxIs ==
  ASSUME NEW n \in Nat, NEW S, S \subseteq 1..n, S # {}
  PROVE  Max(S) \in S /\ \A y \in S : y <= Max(S)
<1>1. PICK T : T = {n - y : y \in S}
  OBVIOUS
<1>2. T \subseteq Nat /\ T # {}
  <2>1. ASSUME NEW y \in S PROVE n - y \in Nat
    BY SMT
  <2> QED BY <1>1, <2>1
<1>3. PICK z \in T : \A y \in T : z <= y
  BY <1>2, LeastNumber
<1>4. PICK m \in S : z = n - m
  BY <1>1, <1>3
<1>5. \A y \in S : m >= y
  BY <1>1, <1>3, <1>4, SMT
<1>6. \E x \in S : \A y \in S : x >= y
  BY <1>5
<1>7. PICK x : x = Max(S) /\ x \in S /\ \A y \in S : x >= y
  BY <1>6, Zenon DEF Max
<1>8. \A y \in S : y <= x
  BY <1>7, SMT
<1> QED BY <1>7, <1>8

(* x is in the sequence s, and is so once.                                  *)
In(x, s) == \E i \in 1..Len(s) : s[i] = x
Once(x, s) == \A i, j \in 1..Len(s) : s[i] = x /\ s[j] = x => i = j

LEMMA NothingIn == \A x : ~In(x, <<>>) /\ Once(x, <<>>)
BY SMT DEF In, Once

LEMMA ToSetIs ==
  ASSUME NEW V, NEW s \in Seq(V)
  PROVE  ToSet(s) \subseteq V /\ \A x : x \in ToSet(s) <=> In(x, s)
<1>1. DOMAIN s = 1..Len(s) /\ \A i \in 1..Len(s) : s[i] \in V
  BY SMT
<1> QED BY <1>1, Zenon DEF ToSet, In

LEMMA AppendIs ==
  ASSUME NEW V, NEW s \in Seq(V), NEW y \in V
  PROVE  /\ Append(s, y) \in Seq(V) /\ Len(s) \in Nat /\ Len(Append(s, y)) = Len(s) + 1
         /\ \A i \in 1..Len(s) : Append(s, y)[i] = s[i]
         /\ Append(s, y)[Len(s) + 1] = y
BY SMT

LEMMA AppendIn ==
  ASSUME NEW V, NEW s \in Seq(V), NEW y \in V
  PROVE  \A x : /\ In(x, Append(s, y)) <=> In(x, s) \/ x = y
                /\ Once(x, s) /\ (x = y => ~In(x, s)) => Once(x, Append(s, y))
BY SMT DEF In, Once

LEMMA ConcatIs ==
  ASSUME NEW V, NEW a \in Seq(V), NEW b \in Seq(V)
  PROVE  /\ a \o b \in Seq(V) /\ Len(a \o b) = Len(a) + Len(b)
         /\ Len(a) \in Nat /\ Len(b) \in Nat
         /\ \A k \in 1..Len(a) : (a \o b)[k] = a[k]
         /\ \A k \in (Len(a) + 1)..(Len(a) + Len(b)) : (a \o b)[k] = b[k - Len(a)]
BY SMT

LEMMA ConcatIn ==
  ASSUME NEW V, NEW a \in Seq(V), NEW b \in Seq(V), NEW x
  PROVE  /\ In(x, a \o b) <=> In(x, a) \/ In(x, b)
         /\ Once(x, a) /\ Once(x, b) /\ ~(In(x, a) /\ In(x, b)) => Once(x, a \o b)
<1>1. PICK c : c = a \o b
  OBVIOUS
<1>2. /\ Len(c) = Len(a) + Len(b) /\ Len(a) \in Nat /\ Len(b) \in Nat
      /\ \A k \in 1..Len(a) : c[k] = a[k]
      /\ \A k \in (Len(a) + 1)..(Len(a) + Len(b)) : c[k] = b[k - Len(a)]
  BY <1>1, ConcatIs
<1>3. ASSUME NEW i \in 1..Len(b) PROVE c[i + Len(a)] = b[i] /\ i + Len(a) \in 1..Len(c)
  BY <1>2, SMT
<1>4. ASSUME NEW k \in 1..Len(c), ~(k \in 1..Len(a))
      PROVE  k - Len(a) \in 1..Len(b) /\ c[k] = b[k - Len(a)]
  BY <1>2, <1>4, SMT
<1>5. In(x, c) => In(x, a) \/ In(x, b)
  BY <1>2, <1>4 DEF In
<1>6. In(x, a) => In(x, c)
  BY <1>2, SMT DEF In
<1>7. In(x, b) => In(x, c)
  BY <1>3 DEF In
<1>8. ASSUME Once(x, a), Once(x, b), ~(In(x, a) /\ In(x, b)) PROVE Once(x, c)
  <2>1. SUFFICES ASSUME NEW i \in 1..Len(c), NEW j \in 1..Len(c), c[i] = x, c[j] = x
                 PROVE  i = j
    BY DEF Once
  <2>2. CASE i \in 1..Len(a) /\ j \in 1..Len(a)
    BY <1>2, <1>8, <2>1, <2>2 DEF Once
  <2>3. CASE ~(i \in 1..Len(a)) /\ ~(j \in 1..Len(a))
    <3>1. i - Len(a) = j - Len(a)
      BY <1>4, <1>8, <2>1, <2>3 DEF Once
    <3> QED BY <1>2, <2>1, <3>1, SMT
  <2>4. CASE i \in 1..Len(a) /\ ~(j \in 1..Len(a))
    BY <1>2, <1>4, <1>8, <2>1, <2>4 DEF In
  <2>5. CASE ~(i \in 1..Len(a)) /\ j \in 1..Len(a)
    BY <1>2, <1>4, <1>8, <2>1, <2>5 DEF In
  <2> QED BY <2>2, <2>3, <2>4, <2>5
<1> QED BY <1>1, <1>5, <1>6, <1>7, <1>8

(* PendingMessageQueue.drain() parts a queue.                               *)
LEMMA DrainIs ==
  ASSUME NEW q \in Seq(Texts)
  PROVE  /\ Drained(q) \in Seq(Texts) /\ Rest(q) \in Seq(Texts)
         /\ q = <<>> => Drained(q) = <<>>
         /\ \A t : /\ In(t, q) <=> In(t, Drained(q)) \/ In(t, Rest(q))
                   /\ Once(t, q) => /\ Once(t, Drained(q)) /\ Once(t, Rest(q))
                                    /\ ~(In(t, Drained(q)) /\ In(t, Rest(q)))
<1>1. CASE DrainAll \/ q = <<>>
  <2>1. Drained(q) = q
    BY <1>1 DEF Drained
  <2>2. Rest(q) = <<>>
    BY <2>1, SMT DEF Rest
  <2>3. <<>> \in Seq(Texts)
    BY SMT
  <2> QED BY <2>1, <2>2, <2>3, NothingIn
<1>2. CASE ~(DrainAll \/ q = <<>>)
  <2>1. PICK d, r : d = <<Head(q)>> /\ r = SubSeq(q, 2, Len(q))
    OBVIOUS
  <2>2. /\ d \in Seq(Texts) /\ Len(d) = 1 /\ d[1] = q[1] /\ Len(q) \in Nat \ {0}
        /\ r \in Seq(Texts) /\ Len(r) = Len(q) - 1
        /\ \A i \in 1..(Len(q) - 1) : r[i] = q[i + 1]
    BY <1>2, <2>1, SMT
  <2>3. Drained(q) = d
    BY <1>2, <2>1 DEF Drained
  <2>4. Rest(q) = r
    BY <2>1, <2>2, <2>3, SMT DEF Rest
  <2>5. ASSUME NEW t
        PROVE  /\ In(t, q) <=> In(t, d) \/ In(t, r)
               /\ Once(t, q) => /\ Once(t, d) /\ Once(t, r)
                                /\ ~(In(t, d) /\ In(t, r))
    <3>1. ASSUME NEW i \in 1..Len(q), i # 1
          PROVE  i - 1 \in 1..Len(r) /\ q[i] = r[i - 1]
      BY <2>2, <3>1, SMT
    <3>2. In(t, q) => In(t, d) \/ In(t, r)
      <4>1. SUFFICES ASSUME NEW i \in 1..Len(q), q[i] = t PROVE In(t, d) \/ In(t, r)
        BY DEF In
      <4>2. i = 1 => In(t, d)
        BY <2>2, <4>1, SMT DEF In
      <4>3. i # 1 => In(t, r)
        BY <3>1, <4>1 DEF In
      <4> QED BY <4>2, <4>3
    <3>3. In(t, d) \/ In(t, r) => In(t, q)
      BY <2>2, SMT DEF In
    <3>4. Once(t, q) => Once(t, d) /\ Once(t, r)
      <4>1. \A i \in 1..Len(d) : i = 1
        BY <2>2, SMT
      <4>2. Once(t, d)
        BY <4>1 DEF Once
      <4>3. Once(t, q) => Once(t, r)
        <5>1. ASSUME Once(t, q), NEW i \in 1..Len(r), NEW j \in 1..Len(r), r[i] = t, r[j] = t
              PROVE  i = j
          <6>1. i + 1 \in 1..Len(q) /\ j + 1 \in 1..Len(q) /\ q[i + 1] = t /\ q[j + 1] = t
            BY <2>2, <5>1, SMT
          <6>2. i + 1 = j + 1
            BY <5>1, <6>1 DEF Once
          <6> QED BY <2>2, <6>2, SMT
        <5> QED BY <5>1 DEF Once
      <4> QED BY <4>2, <4>3
    <3>5. Once(t, q) => ~(In(t, d) /\ In(t, r))
      <4>1. SUFFICES ASSUME Once(t, q), In(t, d), NEW i \in 1..Len(r), r[i] = t PROVE FALSE
        BY DEF In
      <4>2. q[1] = t /\ q[i + 1] = t /\ 1 \in 1..Len(q) /\ i + 1 \in 1..Len(q) /\ i + 1 # 1
        BY <2>2, <4>1, SMT DEF In
      <4> QED BY <4>1, <4>2 DEF Once
    <3> QED BY <3>2, <3>3, <3>4, <3>5
  <2> QED BY <1>2, <2>2, <2>3, <2>4, <2>5
<1> QED BY <1>1, <1>2

-----------------------------------------------------------------------------
(* The invariant.                                                           *)

(* The messages of a transcript.                                            *)
Messages == {User(t) : t \in Texts} \cup {Assistant(s) : s \in Stops}
            \cup {Result(j) : j \in Nat} \cup {Custom, Shell}
Pcs == {"idle", "inject", "stream", "tools", "turnEnd", "prepare", "post",
        "sleep", "cancelled", "overflow", "threshold"}

EntryTypes == entries \in Seq(Messages)
QueueTypes == steerQ \in Seq(Texts) /\ followQ \in Seq(Texts) /\ pending \in Seq(Texts)
TextTypes ==
  /\ shown \subseteq Texts /\ preflight \subseteq Texts
  /\ typed \subseteq Texts /\ cleared \subseteq typed
NoteTypes ==
  /\ customs \in Nat /\ shells \in Nat /\ notes \in Nat
  /\ customs + shells <= notes /\ notes <= MaxNotes
RunTypes ==
  /\ hidden \subseteq 1..Len(entries) /\ pc \in Pcs
  /\ left \in 0..ToolCalls /\ attempt \in 0..MaxRetries
  /\ abort \in {"none", "waiting", "returned"} /\ compactions \in 0..MaxCompactions
FlagTypes ==
  /\ active \in BOOLEAN /\ aborted \in BOOLEAN /\ threw \in BOOLEAN /\ tried \in BOOLEAN

(* A result is that of the response before it, or of the one its            *)
(* predecessor is a result of.                                              *)
Follows(s, i) ==
  s[i].role = "result" =>
    /\ i > 1 /\ s[i].of \in 1..(i - 1)
    /\ s[i].of = i - 1 \/ s[i - 1] = s[i]
ResultInv == \A i \in 1..Len(entries) : Follows(entries, i)

(* While tools run, nothing but their results follows the response.         *)
CallAt(s, k) ==
  /\ k \in 1..Len(s) /\ s[k] = Assistant("tools")
  /\ \A j \in (k + 1)..Len(s) : s[j] = Result(k)
CallInv == pc = "tools" => \E k \in Nat : CallAt(entries, k)

(* What the loop has taken from a queue it delivers before it does anything *)
(* else.                                                                    *)
PendingInv == pending # <<>> => pc \in {"inject", "prepare"}

(* Where a text may be.                                                     *)
Places == {"steer", "follow", "pending", "transcript", "preflight"}
At(t, p) ==
  \/ p = "steer" /\ In(t, steerQ)
  \/ p = "follow" /\ In(t, followQ)
  \/ p = "pending" /\ In(t, pending)
  \/ p = "transcript" /\ In(User(t), entries)
  \/ p = "preflight" /\ t \in preflight
Singly(t) ==
  Once(t, steerQ) /\ Once(t, followQ) /\ Once(t, pending) /\ Once(User(t), entries)
Alone(t) ==
  /\ \A p, r \in Places : At(t, p) /\ At(t, r) => p = r
  /\ \A p \in Places : At(t, p) => t \in typed
  /\ t \in typed \ cleared => \E p \in Places : At(t, p)

(* QueueShown, text by text.                                                *)
Waiting(t) == In(t, steerQ) \/ In(t, followQ)
ShownAs(t) ==
  /\ Waiting(t) => t \in shown
  /\ t \in shown <=> (Waiting(t) \/ In(t, pending)) /\ t \notin cleared

TextInv == \A t \in Texts : Singly(t) /\ Alone(t) /\ ShownAs(t)
Types == EntryTypes /\ QueueTypes /\ TextTypes /\ NoteTypes /\ RunTypes /\ FlagTypes
IInv == Types /\ ResultInv /\ CallInv /\ PendingInv /\ IdleIsIdle /\ TextInv

-----------------------------------------------------------------------------
(* The transcript grows.                                                    *)

LEMMA MessagesAre ==
  /\ \A t, u : User(t) = User(u) => t = u
  /\ \A t : User(t).role = "user" /\ (t \in Texts => User(t) \in Messages)
  /\ \A s : /\ Assistant(s).role = "assistant" /\ Assistant(s).stop = s
            /\ s \in Stops => Assistant(s) \in Messages
  /\ \A j : /\ Result(j).role = "result" /\ Result(j).of = j
            /\ j \in Nat => Result(j) \in Messages
  /\ Custom.role = "custom" /\ Shell.role = "shell"
  /\ Custom \in Messages /\ Shell \in Messages
<1>1. ASSUME NEW t, NEW u, User(t) = User(u) PROVE t = u
  <2>1. User(t).text = t /\ User(u).text = u
    BY DEF User
  <2> QED BY <1>1, <2>1
<1>2. /\ \A t : User(t).role = "user"
      /\ \A s : Assistant(s).role = "assistant" /\ Assistant(s).stop = s
      /\ \A j : Result(j).role = "result" /\ Result(j).of = j
      /\ Custom.role = "custom" /\ Shell.role = "shell"
  BY DEF User, Assistant, Result, Custom, Shell
<1>3. /\ \A t \in Texts : User(t) \in Messages
      /\ \A s \in Stops : Assistant(s) \in Messages
      /\ \A j \in Nat : Result(j) \in Messages
      /\ Custom \in Messages /\ Shell \in Messages
  BY Zenon DEF Messages
<1> QED BY <1>1, <1>2, <1>3

(* What is added to a transcript holds no results; or no texts either.      *)
Added(x) == x \in Seq(Messages) /\ \A i \in 1..Len(x) : x[i].role # "result"
Textless(x) == \A t : ~In(User(t), x)

(* r is s and no results after it; it holds the same texts as s.            *)
Longer(s, r) ==
  /\ r \in Seq(Messages) /\ Len(s) <= Len(r)
  /\ \A i \in 1..Len(s) : r[i] = s[i]
  /\ \A i \in (Len(s) + 1)..Len(r) : r[i].role # "result"
SameTexts(s, r) ==
  \A t : /\ In(User(t), r) <=> In(User(t), s)
         /\ Once(User(t), s) => Once(User(t), r)

LEMMA UsersAre ==
  ASSUME NEW q \in Seq(Texts)
  PROVE  /\ Added(Users(q))
         /\ \A t : /\ In(User(t), Users(q)) <=> In(t, q)
                   /\ Once(t, q) => Once(User(t), Users(q))
<1>1. PICK u : u = Users(q)
  OBVIOUS
<1>2. Len(q) \in Nat /\ DOMAIN q = 1..Len(q) /\ \A i \in 1..Len(q) : q[i] \in Texts
  BY SMT
<1>3. u = [i \in 1..Len(q) |-> User(q[i])]
  BY <1>1, <1>2 DEF Users
<1>4. /\ u \in Seq(Messages) /\ Len(u) = Len(q)
      /\ \A i \in 1..Len(q) : u[i] = User(q[i])
  <2>1. \A i \in 1..Len(q) : User(q[i]) \in Messages
    BY <1>2, MessagesAre
  <2>2. u \in [1..Len(q) -> Messages]
    BY <1>3, <2>1
  <2>3. u \in Seq(Messages) /\ Len(u) = Len(q)
    BY <1>2, <2>2, SMT
  <2> QED BY <1>3, <2>3
<1>5. Added(u)
  BY <1>4, MessagesAre DEF Added
<1>6. ASSUME NEW t PROVE \A i \in 1..Len(q) : u[i] = User(t) <=> q[i] = t
  BY <1>4, MessagesAre
<1>7. \A t : /\ In(User(t), u) <=> In(t, q)
             /\ Once(t, q) => Once(User(t), u)
  BY <1>4, <1>6 DEF In, Once
<1> QED BY <1>1, <1>5, <1>7

LEMMA RepeatedAre ==
  ASSUME NEW n \in Nat, NEW m \in Messages, m.role \notin {"user", "result"}
  PROVE  Added([i \in 1..n |-> m]) /\ Textless([i \in 1..n |-> m])
<1>1. PICK x : x = [i \in 1..n |-> m]
  OBVIOUS
<1>2. x \in Seq(Messages) /\ Len(x) = n /\ \A i \in 1..n : x[i] = m
  <2>1. x \in [1..n -> Messages]
    BY <1>1
  <2> QED BY <1>1, <2>1, SMT
<1>3. Added(x) /\ Textless(x)
  BY <1>2, MessagesAre DEF Added, Textless, In
<1> QED BY <1>1, <1>3

LEMMA NotesAre ==
  ASSUME NoteTypes
  PROVE  Added(Customs) /\ Textless(Customs) /\ Added(Shells) /\ Textless(Shells)
BY RepeatedAre, MessagesAre DEF NoteTypes, Customs, Shells

LEMMA ConcatLonger ==
  ASSUME NEW s \in Seq(Messages), NEW x, Added(x)
  PROVE  Longer(s, s \o x) /\ (Textless(x) => SameTexts(s, s \o x))
<1>1. x \in Seq(Messages)
  BY DEF Added
<1>2. PICK r : r = s \o x
  OBVIOUS
<1>3. /\ r \in Seq(Messages) /\ Len(r) = Len(s) + Len(x)
      /\ Len(s) \in Nat /\ Len(x) \in Nat
      /\ \A k \in 1..Len(s) : r[k] = s[k]
      /\ \A k \in (Len(s) + 1)..(Len(s) + Len(x)) : r[k] = x[k - Len(s)]
  BY <1>1, <1>2, ConcatIs
<1>4. ASSUME NEW k \in (Len(s) + 1)..Len(r) PROVE r[k].role # "result"
  <2>1. k - Len(s) \in 1..Len(x) /\ r[k] = x[k - Len(s)]
    BY <1>3, SMT
  <2> QED BY <2>1 DEF Added
<1>5. Len(s) <= Len(r)
  BY <1>3, SMT
<1>6. Longer(s, r)
  BY <1>3, <1>4, <1>5 DEF Longer
<1>7. ASSUME Textless(x) PROVE SameTexts(s, r)
  <2>1. \A y : /\ In(y, r) <=> In(y, s) \/ In(y, x)
               /\ Once(y, s) /\ Once(y, x) /\ ~(In(y, s) /\ In(y, x)) => Once(y, r)
    BY <1>1, <1>2, ConcatIn
  <2>2. \A t : ~In(User(t), x) /\ Once(User(t), x)
    BY <1>7 DEF Textless, In, Once
  <2> QED BY <2>1, <2>2 DEF SameTexts
<1> QED BY <1>2, <1>6, <1>7

LEMMA AppendLonger ==
  ASSUME NEW s \in Seq(Messages), NEW m \in Messages
  PROVE  /\ m.role # "result" => Longer(s, Append(s, m))
         /\ m.role # "user" => SameTexts(s, Append(s, m))
<1>1. PICK r : r = Append(s, m)
  OBVIOUS
<1>2. /\ r \in Seq(Messages) /\ Len(s) \in Nat /\ Len(r) = Len(s) + 1
      /\ \A i \in 1..Len(s) : r[i] = s[i]
      /\ r[Len(s) + 1] = m
  BY <1>1, AppendIs
<1>3. m.role # "result" => Longer(s, r)
  BY <1>2, SMT DEF Longer
<1>4. ASSUME m.role # "user" PROVE SameTexts(s, r)
  <2>1. \A t : User(t) # m
    BY <1>4, MessagesAre
  <2>2. \A x : /\ In(x, r) <=> In(x, s) \/ x = m
               /\ Once(x, s) /\ (x = m => ~In(x, s)) => Once(x, r)
    BY <1>1, AppendIn
  <2> QED BY <2>1, <2>2 DEF SameTexts
<1> QED BY <1>1, <1>3, <1>4

LEMMA LongerTwice ==
  ASSUME NEW s \in Seq(Messages), NEW r \in Seq(Messages), NEW u, Longer(s, r), Longer(r, u)
  PROVE  Longer(s, u) /\ (SameTexts(s, r) /\ SameTexts(r, u) => SameTexts(s, u))
<1>1. u \in Seq(Messages) /\ Len(s) \in Nat /\ Len(r) \in Nat /\ Len(u) \in Nat
  BY SMT DEF Longer
<1>2. Longer(s, u)
  <2>1. Len(s) <= Len(u) /\ \A i \in 1..Len(s) : i \in 1..Len(r)
    BY <1>1, SMT DEF Longer
  <2>2. \A i \in 1..Len(s) : u[i] = s[i]
    BY <2>1, Zenon DEF Longer
  <2>3. ASSUME NEW i \in (Len(s) + 1)..Len(u) PROVE u[i].role # "result"
    <3>1. i \in (Len(s) + 1)..Len(r) \/ i \in (Len(r) + 1)..Len(u)
      BY <1>1, SMT
    <3>2. CASE i \in (Len(s) + 1)..Len(r)
      <4>1. i \in 1..Len(r)
        BY <1>1, <3>2, SMT
      <4>2. u[i] = r[i] /\ r[i].role # "result"
        BY <3>2, <4>1, Zenon DEF Longer
      <4> QED BY <4>2
    <3>3. CASE i \in (Len(r) + 1)..Len(u)
      BY <3>3, Zenon DEF Longer
    <3> QED BY <3>1, <3>2, <3>3
  <2> QED BY <1>1, <2>1, <2>2, <2>3, Zenon DEF Longer
<1>3. SameTexts(s, r) /\ SameTexts(r, u) => SameTexts(s, u)
  BY DEF SameTexts
<1> QED BY <1>2, <1>3

(* Both parts of the notes that wait.                                       *)
LEMMA FlushIs ==
  ASSUME EntryTypes, NoteTypes, FlushNotes
  PROVE  Longer(entries, entries') /\ SameTexts(entries, entries') /\ NoteTypes'
<1>1. entries \in Seq(Messages)
  BY DEF EntryTypes
<1>2. PICK r : r = entries \o Shells
  OBVIOUS
<1>3. r \in Seq(Messages) /\ Longer(entries, r) /\ SameTexts(entries, r)
  BY <1>1, <1>2, NotesAre, ConcatLonger DEF Longer
<1>4. entries' = r \o Customs
  BY <1>2 DEF FlushNotes
<1>5. Longer(r, entries') /\ SameTexts(r, entries')
  BY <1>3, <1>4, NotesAre, ConcatLonger
<1>6. NoteTypes'
  BY SMT DEF FlushNotes, NoteTypes
<1> QED BY <1>1, <1>3, <1>5, <1>6, LongerTwice

LEMMA LongerKeeps ==
  ASSUME EntryTypes, ResultInv, Longer(entries, entries')
  PROVE  /\ EntryTypes' /\ ResultInv'
         /\ 1..Len(entries) \subseteq 1..Len(entries')
<1>1. /\ entries \in Seq(Messages) /\ entries' \in Seq(Messages)
      /\ Len(entries) \in Nat /\ Len(entries') \in Nat /\ Len(entries) <= Len(entries')
  BY SMT DEF EntryTypes, Longer
<1>2. \A i \in 1..Len(entries) : i \in 1..Len(entries') /\ (i > 1 => i - 1 \in 1..Len(entries))
  BY <1>1, SMT
<1>3. ASSUME NEW i \in 1..Len(entries'), entries'[i].role = "result"
      PROVE  i \in 1..Len(entries) /\ entries'[i] = entries[i]
  BY <1>1, <1>3, SMT DEF Longer
<1>4. ResultInv'
  <2>1. SUFFICES ASSUME NEW i \in 1..Len(entries'), entries'[i].role = "result"
                 PROVE  /\ i > 1 /\ entries'[i].of \in 1..(i - 1)
                        /\ entries'[i].of = i - 1 \/ entries'[i - 1] = entries'[i]
    BY DEF ResultInv, Follows
  <2>2. i \in 1..Len(entries) /\ entries'[i] = entries[i]
    BY <1>3, <2>1
  <2>3. /\ i > 1 /\ entries[i].of \in 1..(i - 1)
        /\ entries[i].of = i - 1 \/ entries[i - 1] = entries[i]
    BY <2>1, <2>2 DEF ResultInv, Follows
  <2>4. entries'[i - 1] = entries[i - 1]
    BY <1>2, <2>2, <2>3 DEF Longer
  <2> QED BY <2>2, <2>3, <2>4
<1> QED BY <1>1, <1>2, <1>4 DEF EntryTypes

-----------------------------------------------------------------------------
(* Where texts go.                                                          *)

(* What is delivered, q, is not elsewhere afterwards; the rest stays, or is *)
(* taken from a queue for the next turn.                                    *)
LEMMA TextsMove ==
  ASSUME TextInv, UNCHANGED <<typed, cleared>>, NEW q,
         \A t \in Texts : Singly(t)',
         \A t \in Texts : In(User(t), entries') <=> In(User(t), entries) \/ In(t, q),
         \A t \in Texts : t \in shown' <=> t \in shown /\ ~In(t, q),
         \A t \in Texts : Waiting(t)' => Waiting(t),
         \A t \in Texts : t \in preflight' => t \in preflight,
         \A t \in Texts : t \in preflight => t \in preflight' \/ In(t, q),
         \A t \in Texts : Waiting(t) \/ In(t, pending)
                          => Waiting(t)' \/ In(t, pending') \/ In(t, q),
         \A t \in Texts : In(t, pending') => In(t, pending) \/ Waiting(t),
         \A t \in Texts : In(t, q) => Waiting(t) \/ In(t, pending) \/ t \in preflight,
         \A t \in Texts : In(t, q) => ~Waiting(t)' /\ ~In(t, pending') /\ t \notin preflight',
         \A t \in Texts : Waiting(t)' => ~In(t, pending') /\ t \notin preflight',
         \A t \in Texts : ~(In(t, steerQ') /\ In(t, followQ')),
         \A t \in Texts : In(t, pending') => t \notin preflight'
  PROVE  TextInv'
<1>1. SUFFICES ASSUME NEW t \in Texts PROVE Alone(t)' /\ ShownAs(t)'
  BY Zenon DEF TextInv
<1>2. Alone(t) /\ ShownAs(t) /\ (t \in typed' <=> t \in typed) /\ (t \in cleared' <=> t \in cleared)
  BY Zenon DEF TextInv
<1>3. /\ Waiting(t) <=> In(t, steerQ) \/ In(t, followQ)
      /\ Waiting(t)' <=> In(t, steerQ') \/ In(t, followQ')
  BY Zenon DEF Waiting
<1>4. /\ In(User(t), entries) => ~Waiting(t) /\ ~In(t, pending) /\ t \notin preflight
      /\ In(t, pending) => t \notin preflight
      /\ Waiting(t) => ~In(t, pending) /\ t \notin preflight
  BY <1>2, <1>3, SMT DEF Alone, At, Places
<1>5. /\ In(User(t), entries) \/ Waiting(t) \/ In(t, pending) \/ t \in preflight => t \in typed
      /\ t \in typed \ cleared
         => In(User(t), entries) \/ Waiting(t) \/ In(t, pending) \/ t \in preflight
  BY <1>2, <1>3, SMT DEF Alone, At, Places
<1>6. /\ In(User(t), entries') => ~Waiting(t)' /\ ~In(t, pending') /\ t \notin preflight'
      /\ In(t, pending') => t \notin preflight'
      /\ Waiting(t)' => ~In(t, pending') /\ t \notin preflight'
      /\ ~(In(t, steerQ') /\ In(t, followQ'))
  BY <1>1, <1>4, Zenon
<1>7. /\ In(User(t), entries') \/ Waiting(t)' \/ In(t, pending') \/ t \in preflight'
         => t \in typed'
      /\ t \in typed' \ cleared'
         => In(User(t), entries') \/ Waiting(t)' \/ In(t, pending') \/ t \in preflight'
  BY <1>1, <1>2, <1>5, Zenon
<1>8. Alone(t)'
  BY <1>3, <1>6, <1>7, SMT DEF Alone, At, Places
<1>9. ShownAs(t)'
  <2>1. /\ Waiting(t) => t \in shown
        /\ t \in shown <=> (Waiting(t) \/ In(t, pending)) /\ t \notin cleared
    BY <1>2, Zenon DEF ShownAs
  <2>2. /\ Waiting(t)' => t \in shown'
        /\ t \in shown' <=> (Waiting(t)' \/ In(t, pending')) /\ t \notin cleared'
    BY <1>1, <1>2, <1>4, <2>1, Zenon
  <2> QED BY <2>2, Zenon DEF ShownAs
<1> QED BY <1>8, <1>9

LEMMA TextsKept ==
  ASSUME TextInv, SameTexts(entries, entries'),
         UNCHANGED <<queueVars, preflight, typed, cleared>>
  PROVE  TextInv'
<1>1. \A t : ~In(t, <<>>)
  BY NothingIn
<1>2. /\ steerQ' = steerQ /\ followQ' = followQ /\ pending' = pending /\ shown' = shown
      /\ preflight' = preflight /\ typed' = typed /\ cleared' = cleared
  BY DEF queueVars
<1>3. SUFFICES ASSUME NEW t \in Texts PROVE Singly(t)' /\ Alone(t)' /\ ShownAs(t)'
  BY Zenon DEF TextInv
<1>4. Singly(t) /\ Alone(t) /\ ShownAs(t)
  BY Zenon DEF TextInv
<1>5. /\ In(User(t), entries') <=> In(User(t), entries)
      /\ Once(User(t), entries) => Once(User(t), entries')
  BY Zenon DEF SameTexts
<1>6. Singly(t)'
  BY <1>2, <1>4, <1>5, Zenon DEF Singly
<1>7. Alone(t)'
  <2>1. \A p : At(t, p)' <=> At(t, p)
    BY <1>2, <1>5, Zenon DEF At
  <2> QED BY <1>2, <1>4, <2>1, Zenon DEF Alone
<1>8. ShownAs(t)'
  BY <1>2, <1>4, Zenon DEF ShownAs, Waiting
<1> QED BY <1>6, <1>7, <1>8

(* A text that is new.                                                      *)
LEMMA TextIsNew ==
  ASSUME TextInv, NEW t \in Texts, t \notin typed
  PROVE  /\ ~In(t, steerQ) /\ ~In(t, followQ) /\ ~In(t, pending)
         /\ ~In(User(t), entries) /\ t \notin preflight /\ t \notin shown
<1>1. Alone(t) /\ ShownAs(t)
  BY Zenon DEF TextInv
<1>2. \A p \in Places : ~At(t, p)
  BY <1>1, Zenon DEF Alone
<1>3. /\ ~In(t, steerQ) /\ ~In(t, followQ) /\ ~In(t, pending)
      /\ ~In(User(t), entries) /\ t \notin preflight
  BY <1>2, SMT DEF At, Places
<1> QED BY <1>1, <1>3, Zenon DEF ShownAs, Waiting

(* The entries that are hidden.                                             *)
LEMMA CutsAre ==
  ASSUME EntryTypes
  PROVE  \A h \in Cuts : h \subseteq 1..Len(entries)
<1>1. Len(entries) \in Nat /\ DOMAIN entries = 1..Len(entries)
  BY SMT DEF EntryTypes
<1>2. \A k \in 1..Len(entries) : 1..(k - 1) \subseteq 1..Len(entries)
  BY <1>1, SMT
<1> QED BY <1>1, <1>2, Zenon DEF Cuts

LEMMA WithoutIs ==
  ASSUME EntryTypes, NEW h, h \subseteq 1..Len(entries)
  PROVE  /\ WithoutLastAssistant(h) \subseteq 1..Len(entries)
         /\ WithoutLastError(h) \subseteq 1..Len(entries)
<1>1. Len(entries) \in Nat /\ DOMAIN entries = 1..Len(entries)
  BY SMT DEF EntryTypes
<1>2. Visible(h) \subseteq 1..Len(entries)
  BY <1>1, Zenon DEF Visible
<1>3. CASE Visible(h) = {}
  <2>1. LastRole(h) # "assistant"
    BY <1>3 DEF LastRole
  <2> QED BY <2>1 DEF WithoutLastAssistant, WithoutLastError
<1>4. CASE Visible(h) # {}
  <2>1. Max(Visible(h)) \in 1..Len(entries)
    BY <1>1, <1>2, <1>4, MaxIs
  <2>2. h \cup {Max(Visible(h))} \subseteq 1..Len(entries)
    BY <2>1, Zenon
  <2> QED BY <2>2 DEF WithoutLastAssistant, WithoutLastError
<1> QED BY <1>3, <1>4

-----------------------------------------------------------------------------
(* Runs begin, go on and end.                                               *)

(* The messages of q are delivered.                                         *)
LEMMA DeliverIs ==
  ASSUME EntryTypes, NEW q \in Seq(Texts), Deliver(q)
  PROVE  /\ Longer(entries, entries')
         /\ \A t : /\ In(User(t), entries') <=> In(User(t), entries) \/ In(t, q)
                   /\ Once(User(t), entries) /\ Once(t, q)
                      /\ ~(In(User(t), entries) /\ In(t, q)) => Once(User(t), entries')
                   /\ t \in shown' <=> t \in shown /\ ~In(t, q)
<1>1. entries \in Seq(Messages) /\ Added(Users(q)) /\ Users(q) \in Seq(Messages)
  BY UsersAre DEF EntryTypes, Added
<1>2. entries' = entries \o Users(q) /\ shown' = shown \ ToSet(q)
  BY DEF Deliver
<1>3. Longer(entries, entries')
  BY <1>1, <1>2, ConcatLonger
<1>4. ASSUME NEW t
      PROVE  /\ In(User(t), entries') <=> In(User(t), entries) \/ In(t, q)
             /\ Once(User(t), entries) /\ Once(t, q)
                /\ ~(In(User(t), entries) /\ In(t, q)) => Once(User(t), entries')
  <2>1. In(User(t), Users(q)) <=> In(t, q)
    BY UsersAre
  <2>2. Once(t, q) => Once(User(t), Users(q))
    BY UsersAre
  <2>3. /\ In(User(t), entries') <=> In(User(t), entries) \/ In(User(t), Users(q))
        /\ Once(User(t), entries) /\ Once(User(t), Users(q))
           /\ ~(In(User(t), entries) /\ In(User(t), Users(q))) => Once(User(t), entries')
    BY <1>1, <1>2, ConcatIn
  <2> QED BY <2>1, <2>2, <2>3
<1>5. \A t : t \in shown' <=> t \in shown /\ ~In(t, q)
  BY <1>2, ToSetIs
<1> QED BY <1>3, <1>4, <1>5

(* The queues as a run that begins leaves them, after its first poll or     *)
(* without one.                                                             *)
LEMMA BeginIs ==
  ASSUME EntryTypes, NEW q \in Seq(Texts), NEW steer \in Seq(Texts), NEW follow \in Seq(Texts),
         NEW poll, NEW h, Begin(q, steer, follow, poll, h)
  PROVE  /\ QueueTypes' /\ followQ' = follow
         /\ \A t : /\ In(t, steer) <=> In(t, pending') \/ In(t, steerQ')
                   /\ Once(t, steer) => /\ Once(t, pending') /\ Once(t, steerQ')
                                        /\ ~(In(t, pending') /\ In(t, steerQ'))
<1>1. followQ' = follow
  BY DEF Begin
<1>2. CASE poll
  <2>1. pending' = Drained(steer) /\ steerQ' = Rest(steer)
    BY <1>2 DEF Begin
  <2>2. pending' \in Seq(Texts) /\ steerQ' \in Seq(Texts)
    BY <2>1, DrainIs
  <2> QED BY <1>1, <2>1, <2>2, DrainIs DEF QueueTypes
<1>3. CASE ~poll
  <2>1. pending' = <<>> /\ steerQ' = steer
    BY <1>3 DEF Begin
  <2>2. <<>> \in Seq(Texts)
    BY SMT
  <2> QED BY <1>1, <2>1, <2>2, NothingIn DEF QueueTypes
<1> QED BY <1>2, <1>3

(* A run begins with q, taken from a queue or from a prompt.                *)
LEMMA BeginKeeps ==
  ASSUME IInv, UNCHANGED <<typed, cleared>>, pending = <<>>,
         NEW q \in Seq(Texts), NEW steer \in Seq(Texts), NEW follow \in Seq(Texts),
         NEW poll, NEW h, Begin(q, steer, follow, poll, h), h \subseteq 1..Len(entries),
         active', active' \in BOOLEAN,
         UNCHANGED <<left, noteVars, abort, threw>>,
         attempt' \in 0..MaxRetries, compactions' \in 0..MaxCompactions,
         preflight' \subseteq Texts,
         \A t \in Texts : Once(t, q) /\ Once(t, steer) /\ Once(t, follow),
         \A t \in Texts : t \in preflight' => t \in preflight,
         \A t \in Texts : t \in preflight => t \in preflight' \/ In(t, q),
         \A t \in Texts : Waiting(t) <=> In(t, steer) \/ In(t, follow)
                                         \/ (In(t, q) /\ t \notin preflight),
         \A t \in Texts : In(t, q) => /\ ~In(t, steer) /\ ~In(t, follow) /\ t \notin preflight'
                                      /\ Waiting(t) \/ t \in preflight,
         \A t \in Texts : ~(In(t, steer) /\ In(t, follow))
  PROVE  IInv'
<1>1. EntryTypes /\ QueueTypes /\ TextTypes /\ NoteTypes /\ RunTypes /\ FlagTypes /\ TextInv
  BY DEF IInv, Types
<1>2. Deliver(q) /\ followQ' = follow /\ hidden' = h /\ pc' = "inject" /\ aborted' = FALSE
  BY DEF Begin
<1>3. /\ Longer(entries, entries')
      /\ \A t : /\ In(User(t), entries') <=> In(User(t), entries) \/ In(t, q)
                /\ Once(User(t), entries) /\ Once(t, q)
                   /\ ~(In(User(t), entries) /\ In(t, q)) => Once(User(t), entries')
                /\ t \in shown' <=> t \in shown /\ ~In(t, q)
  BY <1>1, <1>2, DeliverIs
<1>4. /\ QueueTypes'
      /\ \A t : /\ In(t, steer) <=> In(t, pending') \/ In(t, steerQ')
                /\ Once(t, steer) => /\ Once(t, pending') /\ Once(t, steerQ')
                                     /\ ~(In(t, pending') /\ In(t, steerQ'))
  BY <1>1, BeginIs
<1>5. EntryTypes' /\ ResultInv' /\ 1..Len(entries) \subseteq 1..Len(entries')
  BY <1>1, <1>3, LongerKeeps DEF IInv
<1>6. RunTypes'
  <2>1. hidden' \subseteq 1..Len(entries')
    BY <1>2, <1>5
  <2>2. left' = left /\ abort' = abort /\ pc' \in Pcs
    BY <1>2 DEF Pcs
  <2> QED BY <1>1, <2>1, <2>2, Zenon DEF RunTypes
<1>7. NoteTypes'
  BY <1>1 DEF NoteTypes, noteVars
<1>8. tried' \in BOOLEAN
  <2>1. tried' = IF q = <<>> THEN tried ELSE FALSE
    BY <1>2, Zenon DEF Deliver
  <2> QED BY <1>1, <2>1, Zenon DEF FlagTypes
<1>9. FlagTypes'
  BY <1>1, <1>2, <1>8, Zenon DEF FlagTypes
<1>10. TextTypes'
  <2>1. shown' \subseteq Texts
    BY <1>1, <1>2 DEF Deliver, TextTypes
  <2> QED BY <1>1, <2>1 DEF TextTypes
<1>11. CallInv' /\ PendingInv' /\ IdleIsIdle'
  BY <1>2 DEF CallInv, PendingInv, IdleIsIdle
<1>12. \A t \in Texts :
         /\ In(User(t), entries) => ~Waiting(t) /\ t \notin preflight
         /\ Waiting(t) => t \notin preflight
         /\ Once(User(t), entries)
         /\ Waiting(t)' <=> In(t, steerQ') \/ In(t, follow)
         /\ ~In(t, pending)
  <2>1. SUFFICES ASSUME NEW t \in Texts
                 PROVE  /\ In(User(t), entries) => ~Waiting(t) /\ t \notin preflight
                        /\ Waiting(t) => t \notin preflight
                        /\ Once(User(t), entries)
                        /\ Waiting(t)' <=> In(t, steerQ') \/ In(t, follow)
                        /\ ~In(t, pending)
    OBVIOUS
  <2>2. Alone(t) /\ Singly(t)
    BY <1>1, Zenon DEF TextInv
  <2>3. /\ In(User(t), entries) => ~Waiting(t) /\ t \notin preflight
        /\ Waiting(t) => t \notin preflight
    BY <2>2, SMT DEF Alone, At, Places, Waiting
  <2> QED BY <1>2, <2>2, <2>3, NothingIn, Zenon DEF Waiting, Singly
<1>13. TextInv'
  <2>1. \A t \in Texts : Singly(t)'
    BY <1>2, <1>3, <1>4, <1>12, Zenon DEF Singly
  <2>2. /\ \A t \in Texts : Waiting(t)' => Waiting(t)
        /\ \A t \in Texts : Waiting(t) \/ In(t, pending)
                            => Waiting(t)' \/ In(t, pending') \/ In(t, q)
        /\ \A t \in Texts : In(t, pending') => In(t, pending) \/ Waiting(t)
        /\ \A t \in Texts : In(t, q) => ~Waiting(t)' /\ ~In(t, pending') /\ t \notin preflight'
    BY <1>4, <1>12, Zenon
  <2>3. /\ \A t \in Texts : Waiting(t)' => ~In(t, pending') /\ t \notin preflight'
        /\ \A t \in Texts : ~(In(t, steerQ') /\ In(t, followQ'))
        /\ \A t \in Texts : In(t, pending') => t \notin preflight'
    BY <1>2, <1>4, <1>12, <2>2, Zenon
  <2>4. /\ \A t \in Texts : In(User(t), entries') <=> In(User(t), entries) \/ In(t, q)
        /\ \A t \in Texts : t \in shown' <=> t \in shown /\ ~In(t, q)
        /\ \A t \in Texts : In(t, q) => Waiting(t) \/ In(t, pending) \/ t \in preflight
    BY <1>3, Zenon
  <2> QED BY <1>1, <2>1, <2>2, <2>3, <2>4, TextsMove
<1> QED BY <1>4, <1>5, <1>6, <1>7, <1>9, <1>10, <1>11, <1>13 DEF IInv, Types

(* The session settles.                                                     *)
LEMMA SettleKeeps ==
  ASSUME IInv, NEW h, h \subseteq 1..Len(entries), Settle(h), pending = <<>>,
         UNCHANGED <<left, userVars>>, threw' \in BOOLEAN,
         attempt' \in 0..MaxRetries, compactions' \in 0..MaxCompactions
  PROVE  IInv'
<1>1. EntryTypes /\ QueueTypes /\ TextTypes /\ NoteTypes /\ RunTypes /\ FlagTypes /\ TextInv
  BY DEF IInv, Types
<1>2. /\ FlushNotes /\ active' = FALSE /\ hidden' = h /\ pc' = "idle"
      /\ abort' = (IF abort = "waiting" THEN "returned" ELSE abort)
      /\ UNCHANGED <<aborted, queueVars, tried>>
  BY DEF Settle, BecomeIdle
<1>3. Longer(entries, entries') /\ SameTexts(entries, entries') /\ NoteTypes'
  BY <1>1, <1>2, FlushIs
<1>4. EntryTypes' /\ ResultInv' /\ 1..Len(entries) \subseteq 1..Len(entries')
  BY <1>1, <1>3, LongerKeeps DEF IInv
<1>5. TextInv'
  <2>1. UNCHANGED <<queueVars, preflight, typed, cleared>>
    BY <1>2 DEF userVars
  <2> QED BY <1>1, <1>3, <2>1, TextsKept
<1>6. RunTypes'
  <2>1. hidden' \subseteq 1..Len(entries')
    BY <1>2, <1>4
  <2>2. left' = left /\ pc' \in Pcs /\ abort' \in {"none", "waiting", "returned"}
    BY <1>1, <1>2 DEF Pcs, RunTypes
  <2> QED BY <1>1, <2>1, <2>2, Zenon DEF RunTypes
<1>7. FlagTypes'
  BY <1>1, <1>2, Zenon DEF FlagTypes
<1>8. QueueTypes' /\ TextTypes'
  BY <1>1, <1>2 DEF QueueTypes, TextTypes, queueVars, userVars
<1>9. CallInv' /\ PendingInv' /\ IdleIsIdle'
  <2>1. pending' = <<>> /\ customs' = 0 /\ shells' = 0
    BY <1>2 DEF queueVars, FlushNotes
  <2> QED BY <1>2, <2>1 DEF CallInv, PendingInv, IdleIsIdle
<1> QED BY <1>3, <1>4, <1>5, <1>6, <1>7, <1>8, <1>9 DEF IInv, Types

(* Agent.continue(), or the session settles.                                *)
LEMMA ContinueKeeps ==
  ASSUME IInv, NEW h, h \subseteq 1..Len(entries), Continue(h), pending = <<>>, active,
         UNCHANGED <<left, userVars>>,
         attempt' \in 0..MaxRetries, compactions' \in 0..MaxCompactions
  PROVE  IInv'
<1>1. QueueTypes /\ TextTypes /\ FlagTypes /\ TextInv
  BY DEF IInv, Types
<1>2. steerQ \in Seq(Texts) /\ followQ \in Seq(Texts) /\ <<>> \in Seq(Texts)
  BY <1>1, SMT DEF QueueTypes
<1>3. /\ preflight' = preflight /\ UNCHANGED <<typed, cleared>> /\ preflight' \subseteq Texts
      /\ left' = left
  BY <1>1 DEF userVars, TextTypes
<1>4. \A t \in Texts :
        /\ Once(t, steerQ) /\ Once(t, followQ) /\ ~(In(t, steerQ) /\ In(t, followQ))
        /\ Waiting(t) => t \notin preflight
        /\ Waiting(t) <=> In(t, steerQ) \/ In(t, followQ)
  <2>1. SUFFICES ASSUME NEW t \in Texts
                 PROVE  /\ Once(t, steerQ) /\ Once(t, followQ)
                        /\ ~(In(t, steerQ) /\ In(t, followQ))
                        /\ Waiting(t) => t \notin preflight
                        /\ Waiting(t) <=> In(t, steerQ) \/ In(t, followQ)
    OBVIOUS
  <2>2. Alone(t) /\ Singly(t)
    BY <1>1, Zenon DEF TextInv
  <2>3. ~(In(t, steerQ) /\ In(t, followQ)) /\ (Waiting(t) => t \notin preflight)
    BY <2>2, SMT DEF Alone, At, Places, Waiting
  <2> QED BY <2>2, <2>3, Zenon DEF Singly, Waiting
<1>5. CASE /\ steerQ # <<>>
           /\ Begin(Drained(steerQ), Rest(steerQ), followQ, FALSE, h)
           /\ UNCHANGED <<active, abort, noteVars, threw>>
  <2>1. PICK q, r : q = Drained(steerQ) /\ r = Rest(steerQ)
    OBVIOUS
  <2>2. /\ q \in Seq(Texts) /\ r \in Seq(Texts)
        /\ \A t : /\ In(t, steerQ) <=> In(t, q) \/ In(t, r)
                  /\ Once(t, steerQ) => /\ Once(t, q) /\ Once(t, r)
                                        /\ ~(In(t, q) /\ In(t, r))
    BY <1>2, <2>1, DrainIs
  <2>3. \A t \in Texts : Once(t, q) /\ Once(t, r) /\ Once(t, followQ)
    BY <1>4, <2>2, Zenon
  <2>4. /\ \A t \in Texts : Waiting(t) <=> In(t, r) \/ In(t, followQ)
                                           \/ (In(t, q) /\ t \notin preflight)
        /\ \A t \in Texts : In(t, q) => /\ ~In(t, r) /\ ~In(t, followQ) /\ t \notin preflight'
                                        /\ Waiting(t) \/ t \in preflight
        /\ \A t \in Texts : ~(In(t, r) /\ In(t, followQ))
    BY <1>3, <1>4, <2>2, Zenon
  <2>5. Begin(q, r, followQ, FALSE, h) /\ active' /\ active' \in BOOLEAN
    BY <1>1, <1>5, <2>1, Zenon DEF FlagTypes
  <2>6. UNCHANGED <<left, noteVars, abort, threw>>
    BY <1>3, <1>5
  <2>7. PICK poll : poll = FALSE
    OBVIOUS
  <2>8. Begin(q, r, followQ, poll, h)
    BY <2>5, <2>7
  <2> QED BY <1>2, <1>3, <2>2, <2>3, <2>4, <2>5, <2>6, <2>8, BeginKeeps
<1>6. CASE /\ steerQ = <<>>
           /\ Begin(Drained(followQ), steerQ, Rest(followQ), TRUE, h)
           /\ UNCHANGED <<active, abort, noteVars, threw>>
  <2>1. PICK q, r : q = Drained(followQ) /\ r = Rest(followQ)
    OBVIOUS
  <2>2. /\ q \in Seq(Texts) /\ r \in Seq(Texts)
        /\ \A t : /\ In(t, followQ) <=> In(t, q) \/ In(t, r)
                  /\ Once(t, followQ) => /\ Once(t, q) /\ Once(t, r)
                                         /\ ~(In(t, q) /\ In(t, r))
    BY <1>2, <2>1, DrainIs
  <2>3. \A t \in Texts : Once(t, q) /\ Once(t, steerQ) /\ Once(t, r)
    BY <1>4, <2>2, Zenon
  <2>4. /\ \A t \in Texts : Waiting(t) <=> In(t, steerQ) \/ In(t, r)
                                           \/ (In(t, q) /\ t \notin preflight)
        /\ \A t \in Texts : In(t, q) => /\ ~In(t, steerQ) /\ ~In(t, r) /\ t \notin preflight'
                                        /\ Waiting(t) \/ t \in preflight
        /\ \A t \in Texts : ~(In(t, steerQ) /\ In(t, r))
    BY <1>3, <1>4, <2>2, Zenon
  <2>5. Begin(q, steerQ, r, TRUE, h) /\ active' /\ active' \in BOOLEAN
    BY <1>1, <1>6, <2>1, Zenon DEF FlagTypes
  <2>6. UNCHANGED <<left, noteVars, abort, threw>>
    BY <1>3, <1>6
  <2>7. PICK poll : poll = TRUE
    OBVIOUS
  <2>8. Begin(q, steerQ, r, poll, h)
    BY <2>5, <2>7
  <2> QED BY <1>2, <1>3, <2>2, <2>3, <2>4, <2>5, <2>6, <2>8, BeginKeeps
<1>7. CASE Begin(<<>>, steerQ, followQ, TRUE, h) /\ UNCHANGED <<active, abort, noteVars, threw>>
  <2>1. PICK q, poll : q = <<>> /\ poll = TRUE
    OBVIOUS
  <2>2. q \in Seq(Texts) /\ \A t : ~In(t, q) /\ Once(t, q)
    BY <1>2, <2>1, NothingIn
  <2>3. \A t \in Texts : Once(t, q) /\ Once(t, steerQ) /\ Once(t, followQ)
    BY <1>4, <2>2, Zenon
  <2>4. /\ \A t \in Texts : Waiting(t) <=> In(t, steerQ) \/ In(t, followQ)
                                           \/ (In(t, q) /\ t \notin preflight)
        /\ \A t \in Texts : In(t, q) => /\ ~In(t, steerQ) /\ ~In(t, followQ)
                                        /\ t \notin preflight'
                                        /\ Waiting(t) \/ t \in preflight
        /\ \A t \in Texts : ~(In(t, steerQ) /\ In(t, followQ))
    BY <1>4, <2>2, Zenon
  <2>5. Begin(q, steerQ, followQ, poll, h) /\ active' /\ active' \in BOOLEAN
    BY <1>1, <1>7, <2>1, Zenon DEF FlagTypes
  <2>6. UNCHANGED <<left, noteVars, abort, threw>>
    BY <1>3, <1>7
  <2> QED BY <1>2, <1>3, <2>2, <2>3, <2>4, <2>5, <2>6, BeginKeeps
<1>8. CASE threw' = TRUE /\ Settle(h)
  BY <1>8, SettleKeeps
<1> QED BY <1>5, <1>6, <1>7, <1>8 DEF Continue

LEMMA ContinueIfQueuedKeeps ==
  ASSUME IInv, NEW h, h \subseteq 1..Len(entries), ContinueIfQueued(h), pending = <<>>, active,
         UNCHANGED <<left, userVars>>,
         attempt' \in 0..MaxRetries, compactions' \in 0..MaxCompactions
  PROVE  IInv'
<1>1. CASE HasQueued
  BY <1>1, ContinueKeeps, Zenon DEF ContinueIfQueued
<1>2. CASE ~HasQueued
  <2>1. Settle(h) /\ threw' = threw
    BY <1>2, Zenon DEF ContinueIfQueued
  <2>2. threw' \in BOOLEAN
    BY <2>1, Zenon DEF IInv, Types, FlagTypes
  <2> QED BY <2>1, <2>2, SettleKeeps
<1> QED BY <1>1, <1>2

-----------------------------------------------------------------------------
(* What users, extensions and shell commands do.                            *)

LEMMA PromptKeeps ==
  ASSUME IInv, NEW t \in Texts, Prompt(t)
  PROVE  IInv'
<1>1. EntryTypes /\ QueueTypes /\ TextTypes /\ NoteTypes /\ RunTypes /\ FlagTypes /\ TextInv
  BY DEF IInv, Types
<1>2. /\ t \notin typed /\ typed' = typed \cup {t} /\ ~active
      /\ preflight = {} /\ preflight' = {t} /\ FlushNotes
      /\ UNCHANGED <<hidden, pc, active, aborted, queueVars, left, retryVars, cleared, abort,
                     compactions, threw>>
  BY DEF Prompt, New
<1>3. /\ steerQ' = steerQ /\ followQ' = followQ /\ pending' = pending /\ shown' = shown
      /\ cleared' = cleared
  BY <1>2 DEF queueVars
<1>4. Longer(entries, entries') /\ SameTexts(entries, entries') /\ NoteTypes'
  BY <1>1, <1>2, FlushIs
<1>5. EntryTypes' /\ ResultInv' /\ 1..Len(entries) \subseteq 1..Len(entries')
  BY <1>1, <1>4, LongerKeeps DEF IInv
<1>6. pc = "idle" /\ pc' = "idle" /\ customs' = 0 /\ shells' = 0 /\ pending' = <<>>
  BY <1>2, <1>3 DEF IInv, IdleIsIdle, PendingInv, FlushNotes
<1>7. CallInv' /\ PendingInv' /\ IdleIsIdle'
  BY <1>6 DEF CallInv, PendingInv, IdleIsIdle
<1>8. RunTypes' /\ FlagTypes'
  <2>1. hidden' \subseteq 1..Len(entries')
    BY <1>1, <1>2, <1>5 DEF RunTypes
  <2>2. /\ left' = left /\ attempt' = attempt /\ abort' = abort /\ pc' = pc
        /\ compactions' = compactions /\ active' = active /\ aborted' = aborted
        /\ threw' = threw /\ tried' = tried
    BY <1>2 DEF retryVars
  <2> QED BY <1>1, <2>1, <2>2, Zenon DEF RunTypes, FlagTypes
<1>9. QueueTypes' /\ TextTypes'
  BY <1>1, <1>2, <1>3 DEF QueueTypes, TextTypes
<1>10. TextInv'
  <2>1. SUFFICES ASSUME NEW u \in Texts PROVE Singly(u)' /\ Alone(u)' /\ ShownAs(u)'
    BY Zenon DEF TextInv
  <2>2. Singly(u) /\ Alone(u) /\ ShownAs(u)
    BY <1>1, Zenon DEF TextInv
  <2>3. /\ In(User(u), entries') <=> In(User(u), entries)
        /\ Once(User(u), entries) => Once(User(u), entries')
    BY <1>4, Zenon DEF SameTexts
  <2>4. Singly(u)' /\ ShownAs(u)'
    BY <1>3, <2>2, <2>3, Zenon DEF Singly, ShownAs, Waiting
  <2>5. CASE u # t
    <3>1. \A p : At(u, p)' <=> At(u, p)
      BY <1>2, <1>3, <2>3, <2>5, Zenon DEF At
    <3>2. u \in typed' <=> u \in typed
      BY <1>2, <2>5
    <3> QED BY <1>3, <2>2, <2>4, <3>1, <3>2, Zenon DEF Alone
  <2>6. CASE u = t
    <3>1. /\ ~In(t, steerQ) /\ ~In(t, followQ) /\ ~In(t, pending)
          /\ ~In(User(t), entries)
      BY <1>1, <1>2, TextIsNew
    <3>2. \A p \in Places : At(u, p)' <=> p = "preflight"
      BY <1>2, <1>3, <2>3, <2>6, <3>1, SMT DEF At, Places
    <3>3. u \in typed' /\ "preflight" \in Places
      BY <1>2, <2>6 DEF Places
    <3> QED BY <2>4, <3>2, <3>3, Zenon DEF Alone
  <2> QED BY <2>5, <2>6, <2>4
<1> QED BY <1>4, <1>5, <1>7, <1>8, <1>9, <1>10 DEF IInv, Types

LEMMA StartRunKeeps ==
  ASSUME IInv, NEW t \in Texts, StartRun(t)
  PROVE  IInv'
<1>1. QueueTypes /\ TextTypes /\ FlagTypes /\ TextInv /\ RunTypes
  BY DEF IInv, Types
<1>2. /\ preflight = {t} /\ preflight' = {} /\ pc = "idle" /\ active' = TRUE
      /\ Begin(<<t>>, steerQ, followQ, TRUE, hidden)
      /\ UNCHANGED <<left, attempt, noteVars, typed, cleared, abort, compactions, threw>>
  BY DEF StartRun
<1>3. steerQ \in Seq(Texts) /\ followQ \in Seq(Texts) /\ pending = <<>>
  BY <1>1, <1>2 DEF QueueTypes, IInv, PendingInv
<1>4. PICK q, poll : q = <<t>> /\ poll = TRUE
  OBVIOUS
<1>5. q \in Seq(Texts) /\ Len(q) = 1 /\ q[1] = t
  BY <1>4, SMT
<1>6. \A u : (In(u, q) <=> u = t) /\ Once(u, q)
  BY <1>5, SMT DEF In, Once
<1>7. \A u \in Texts :
        /\ Once(u, steerQ) /\ Once(u, followQ) /\ ~(In(u, steerQ) /\ In(u, followQ))
        /\ Waiting(u) => u \notin preflight
        /\ Waiting(u) <=> In(u, steerQ) \/ In(u, followQ)
  <2>1. SUFFICES ASSUME NEW u \in Texts
                 PROVE  /\ Once(u, steerQ) /\ Once(u, followQ)
                        /\ ~(In(u, steerQ) /\ In(u, followQ))
                        /\ Waiting(u) => u \notin preflight
                        /\ Waiting(u) <=> In(u, steerQ) \/ In(u, followQ)
    OBVIOUS
  <2>2. Alone(u) /\ Singly(u)
    BY <1>1, Zenon DEF TextInv
  <2>3. ~(In(u, steerQ) /\ In(u, followQ)) /\ (Waiting(u) => u \notin preflight)
    BY <2>2, SMT DEF Alone, At, Places, Waiting
  <2> QED BY <2>2, <2>3, Zenon DEF Singly, Waiting
<1>8. \A u \in Texts : Once(u, q) /\ Once(u, steerQ) /\ Once(u, followQ)
  BY <1>6, <1>7, Zenon
<1>9. \A u : (u \in preflight <=> u = t) /\ u \notin preflight'
  BY <1>2
<1>10. /\ \A u \in Texts : u \in preflight' => u \in preflight
       /\ \A u \in Texts : u \in preflight => u \in preflight' \/ In(u, q)
       /\ \A u \in Texts : Waiting(u) <=> In(u, steerQ) \/ In(u, followQ)
                                          \/ (In(u, q) /\ u \notin preflight)
       /\ \A u \in Texts : In(u, q) => /\ ~In(u, steerQ) /\ ~In(u, followQ)
                                       /\ u \notin preflight'
                                       /\ Waiting(u) \/ u \in preflight
       /\ \A u \in Texts : ~(In(u, steerQ) /\ In(u, followQ))
  BY <1>6, <1>7, <1>9, Zenon
<1>11. /\ Begin(q, steerQ, followQ, poll, hidden) /\ hidden \subseteq 1..Len(entries)
       /\ active' /\ active' \in BOOLEAN
  BY <1>1, <1>2, <1>4, Zenon DEF RunTypes
<1>12. /\ attempt' \in 0..MaxRetries /\ compactions' \in 0..MaxCompactions
       /\ preflight' \subseteq Texts
  BY <1>1, <1>2 DEF RunTypes
<1> QED BY <1>2, <1>3, <1>5, <1>8, <1>10, <1>11, <1>12, BeginKeeps

(* A text is queued, to steer the run or to follow it.                      *)
LEMMA QueueKeeps ==
  ASSUME IInv, NEW t \in Texts, t \notin typed, typed' = typed \cup {t},
         shown' = shown \cup {t},
         \/ steerQ' = Append(steerQ, t) /\ followQ' = followQ
         \/ followQ' = Append(followQ, t) /\ steerQ' = steerQ,
         UNCHANGED <<entries, hidden, pc, active, aborted, pending, left, retryVars, noteVars,
                     preflight, cleared, abort, compactions, threw>>
  PROVE  IInv'
<1>1. EntryTypes /\ QueueTypes /\ TextTypes /\ NoteTypes /\ RunTypes /\ FlagTypes /\ TextInv
  BY DEF IInv, Types
<1>2. \A q \in Seq(Texts) : Append(q, t) \in Seq(Texts)
  BY SMT
<1>3. QueueTypes' /\ TextTypes'
  BY <1>1, <1>2, Zenon DEF QueueTypes, TextTypes
<1>4. EntryTypes' /\ NoteTypes' /\ RunTypes' /\ ResultInv'
  BY <1>1 DEF IInv, EntryTypes, NoteTypes, RunTypes, ResultInv, Follows, noteVars, retryVars
<1>5. FlagTypes' /\ CallInv' /\ PendingInv' /\ IdleIsIdle'
  BY Zenon DEF IInv, Types, FlagTypes, CallInv, CallAt, PendingInv, IdleIsIdle, noteVars,
               retryVars
<1>6. \A u \in Texts :
        /\ In(u, Append(steerQ, t)) <=> In(u, steerQ) \/ u = t
        /\ In(u, Append(followQ, t)) <=> In(u, followQ) \/ u = t
        /\ Once(u, steerQ) /\ (u = t => ~In(u, steerQ)) => Once(u, Append(steerQ, t))
        /\ Once(u, followQ) /\ (u = t => ~In(u, followQ)) => Once(u, Append(followQ, t))
  BY <1>1, AppendIn DEF QueueTypes
<1>7. TextInv'
  <2>1. SUFFICES ASSUME NEW u \in Texts PROVE Singly(u)' /\ Alone(u)' /\ ShownAs(u)'
    BY Zenon DEF TextInv
  <2>2. Singly(u) /\ Alone(u) /\ ShownAs(u)
    BY <1>1, Zenon DEF TextInv
  <2>3. CASE u # t
    <3>1. (In(u, steerQ') <=> In(u, steerQ)) /\ (In(u, followQ') <=> In(u, followQ))
      BY <1>6, <2>3, Zenon
    <3>2. Singly(u)'
      BY <1>6, <2>2, <2>3, Zenon DEF Singly
    <3>3. /\ u \in shown' <=> u \in shown
          /\ u \in typed' <=> u \in typed
      BY <2>3
    <3>4. ShownAs(u)'
      BY <2>2, <3>1, <3>3, Zenon DEF ShownAs, Waiting
    <3>5. \A p : At(u, p)' <=> At(u, p)
      BY <3>1, Zenon DEF At
    <3> QED BY <2>2, <3>2, <3>3, <3>4, <3>5, Zenon DEF Alone
  <2>4. CASE u = t
    <3>1. /\ ~In(u, steerQ) /\ ~In(u, followQ) /\ ~In(u, pending)
          /\ ~In(User(u), entries) /\ u \notin preflight
      BY <1>1, <2>4, TextIsNew
    <3>2. Singly(u)'
      BY <1>6, <2>2, <2>4, <3>1, Zenon DEF Singly
    <3>3. u \in shown' /\ u \in typed' /\ u \notin cleared'
      BY <1>1, <2>4 DEF TextTypes
    <3>4. \/ In(u, steerQ') /\ ~In(u, followQ')
          \/ In(u, followQ') /\ ~In(u, steerQ')
      BY <1>6, <2>4, <3>1, Zenon
    <3>5. ShownAs(u)'
      BY <3>3, <3>4, Zenon DEF ShownAs, Waiting
    <3>6. ~In(u, pending') /\ ~In(User(u), entries') /\ u \notin preflight'
      BY <3>1
    <3>7. \/ \A p \in Places : At(u, p)' <=> p = "steer"
          \/ \A p \in Places : At(u, p)' <=> p = "follow"
      BY <3>4, <3>6, SMT DEF At, Places
    <3>8. "steer" \in Places /\ "follow" \in Places
      BY DEF Places
    <3>9. Alone(u)'
      BY <3>3, <3>7, <3>8, Zenon DEF Alone
    <3> QED BY <3>2, <3>5, <3>9
  <2> QED BY <2>3, <2>4
<1> QED BY <1>3, <1>4, <1>5, <1>7 DEF IInv, Types

LEMMA ClearQueueKeeps ==
  ASSUME IInv, ClearQueue
  PROVE  IInv'
<1>1. EntryTypes /\ QueueTypes /\ TextTypes /\ NoteTypes /\ RunTypes /\ FlagTypes /\ TextInv
  BY DEF IInv, Types
<1>2. /\ shown' = {} /\ steerQ' = <<>> /\ followQ' = <<>> /\ cleared' = cleared \cup shown
      /\ UNCHANGED <<entries, hidden, pc, active, aborted, pending, left, retryVars, noteVars,
                     preflight, typed, abort, compactions, threw>>
  BY DEF ClearQueue
<1>3. \A t \in shown : t \in typed
  <2>1. SUFFICES ASSUME NEW t \in Texts, t \in shown PROVE t \in typed
    BY <1>1 DEF TextTypes
  <2>2. Alone(t) /\ ShownAs(t)
    BY <1>1, Zenon DEF TextInv
  <2>3. In(t, steerQ) \/ In(t, followQ) \/ In(t, pending)
    BY <2>1, <2>2, Zenon DEF ShownAs, Waiting
  <2> QED BY <2>2, <2>3, SMT DEF Alone, At, Places
<1>4. QueueTypes' /\ TextTypes'
  <2>1. <<>> \in Seq(Texts)
    BY SMT
  <2> QED BY <1>1, <1>2, <1>3, <2>1 DEF QueueTypes, TextTypes
<1>5. EntryTypes' /\ NoteTypes' /\ RunTypes' /\ ResultInv'
  BY <1>1, <1>2 DEF IInv, EntryTypes, NoteTypes, RunTypes, ResultInv, Follows, noteVars,
                    retryVars
<1>6. FlagTypes' /\ CallInv' /\ PendingInv' /\ IdleIsIdle'
  BY <1>2, Zenon DEF IInv, Types, FlagTypes, CallInv, CallAt, PendingInv, IdleIsIdle, noteVars,
                     retryVars
<1>7. TextInv'
  <2>1. SUFFICES ASSUME NEW t \in Texts PROVE Singly(t)' /\ Alone(t)' /\ ShownAs(t)'
    BY Zenon DEF TextInv
  <2>2. Singly(t) /\ Alone(t) /\ ShownAs(t)
    BY <1>1, Zenon DEF TextInv
  <2>3. ~In(t, steerQ') /\ ~In(t, followQ') /\ Once(t, steerQ') /\ Once(t, followQ')
    BY <1>2, NothingIn
  <2>4. t \notin shown' /\ (t \in cleared' <=> t \in cleared \/ t \in shown)
    BY <1>2
  <2>5. Singly(t)'
    BY <1>2, <2>2, <2>3, Zenon DEF Singly
  <2>6. ShownAs(t)'
    BY <1>2, <2>2, <2>3, <2>4, Zenon DEF ShownAs, Waiting
  <2>7. \A p : At(t, p)' => At(t, p)
    BY <1>2, <2>3, Zenon DEF At
  <2>8. ASSUME t \in typed' \ cleared' PROVE \E p \in Places : At(t, p)'
    <3>1. t \in typed \ cleared /\ t \notin shown
      BY <1>2, <2>4, <2>8
    <3>2. PICK p \in Places : At(t, p)
      BY <2>2, <3>1, Zenon DEF Alone
    <3>3. ~In(t, steerQ) /\ ~In(t, followQ)
      BY <2>2, <3>1, Zenon DEF ShownAs, Waiting
    <3>4. At(t, p)'
      BY <1>2, <3>2, <3>3, Zenon DEF At
    <3> QED BY <3>4
  <2>9. Alone(t)'
    BY <1>2, <2>2, <2>7, <2>8, Zenon DEF Alone
  <2> QED BY <2>5, <2>6, <2>9
<1> QED BY <1>4, <1>5, <1>6, <1>7 DEF IInv, Types

(* A note is added at once, or waits for the end of the run.                *)
LEMMA NoteKeeps ==
  ASSUME IInv, NEW m \in {Custom, Shell}, notes < MaxNotes, notes' = notes + 1,
         \/ /\ active /\ entries' = entries
            /\ \/ customs' = customs + 1 /\ shells' = shells
               \/ shells' = shells + 1 /\ customs' = customs
         \/ /\ ~active /\ entries' = Append(entries, m)
            /\ UNCHANGED <<customs, shells>>,
         UNCHANGED <<hidden, pc, active, aborted, queueVars, left, retryVars, userVars, abort,
                     compactions, threw>>
  PROVE  IInv'
<1>1. EntryTypes /\ QueueTypes /\ TextTypes /\ NoteTypes /\ RunTypes /\ FlagTypes /\ TextInv
  BY DEF IInv, Types
<1>2. /\ UNCHANGED queueVars /\ steerQ' = steerQ /\ followQ' = followQ /\ pending' = pending
      /\ shown' = shown /\ preflight' = preflight /\ typed' = typed /\ cleared' = cleared
      /\ attempt' = attempt /\ tried' = tried
  BY DEF queueVars, userVars, retryVars
<1>3. NoteTypes'
  <2>1. MaxNotes \in Nat
    BY SessionAssumption
  <2> QED BY <1>1, <2>1, SMT DEF NoteTypes
<1>4. QueueTypes' /\ TextTypes'
  BY <1>1, <1>2 DEF QueueTypes, TextTypes
<1>5. FlagTypes'
  BY <1>1, <1>2, Zenon DEF FlagTypes
<1>6. CASE active /\ entries' = entries
  <2>1. EntryTypes' /\ RunTypes' /\ ResultInv'
    BY <1>1, <1>2, <1>6 DEF IInv, EntryTypes, RunTypes, ResultInv, Follows
  <2>2. CallInv' /\ PendingInv'
    BY <1>2, <1>6, Zenon DEF IInv, CallInv, CallAt, PendingInv
  <2>3. IdleIsIdle'
    BY <1>6, Zenon DEF IdleIsIdle
  <2>4. SameTexts(entries, entries')
    BY <1>6, Zenon DEF SameTexts
  <2>5. TextInv'
    BY <1>1, <1>2, <2>4, TextsKept
  <2> QED BY <1>3, <1>4, <1>5, <2>1, <2>2, <2>3, <2>5 DEF IInv, Types
<1>7. CASE ~active /\ entries' = Append(entries, m) /\ UNCHANGED <<customs, shells>>
  <2>1. m \in Messages /\ m.role # "result" /\ m.role # "user" /\ entries \in Seq(Messages)
    BY <1>1, MessagesAre DEF EntryTypes
  <2>2. Longer(entries, entries') /\ SameTexts(entries, entries')
    BY <1>7, <2>1, AppendLonger
  <2>3. EntryTypes' /\ ResultInv' /\ 1..Len(entries) \subseteq 1..Len(entries')
    BY <1>1, <2>2, LongerKeeps DEF IInv
  <2>4. RunTypes'
    <3>1. hidden' \subseteq 1..Len(entries')
      BY <1>1, <2>3 DEF RunTypes
    <3> QED BY <1>1, <1>2, <3>1, Zenon DEF RunTypes
  <2>5. pc = "idle" /\ customs = 0 /\ shells = 0
    BY <1>7, Zenon DEF IInv, IdleIsIdle
  <2>6. CallInv' /\ PendingInv'
    BY <1>2, <2>5 DEF IInv, CallInv, PendingInv
  <2>7. IdleIsIdle'
    BY <1>7, <2>5, Zenon DEF IdleIsIdle
  <2>8. TextInv'
    BY <1>1, <1>2, <2>2, TextsKept
  <2> QED BY <1>3, <1>4, <1>5, <2>3, <2>4, <2>6, <2>7, <2>8 DEF IInv, Types
<1> QED BY <1>6, <1>7

LEMMA UserKeeps ==
  ASSUME IInv,
         \/ \E t \in Texts : Prompt(t) \/ StartRun(t) \/ Steer(t) \/ FollowUp(t)
         \/ ClearQueue \/ SendCustomMessage \/ RecordBashResult
  PROVE  IInv'
<1>1. ASSUME NEW t \in Texts, Steer(t) PROVE IInv'
  BY <1>1, QueueKeeps DEF Steer, New
<1>2. ASSUME NEW t \in Texts, FollowUp(t) PROVE IInv'
  BY <1>2, QueueKeeps DEF FollowUp, New
<1>3. CASE SendCustomMessage
  <2>1. Custom \in {Custom, Shell}
    OBVIOUS
  <2>2. \/ active /\ entries' = entries /\ customs' = customs + 1
        \/ ~active /\ entries' = Append(entries, Custom) /\ customs' = customs
    BY <1>3, Zenon DEF SendCustomMessage
  <2>3. /\ notes < MaxNotes /\ notes' = notes + 1
        /\ UNCHANGED <<hidden, pc, active, aborted, queueVars, left, retryVars, shells,
                       userVars, abort, compactions, threw>>
    BY <1>3, Zenon DEF SendCustomMessage
  <2> QED BY <2>1, <2>2, <2>3, NoteKeeps
<1>4. CASE RecordBashResult
  <2>1. Shell \in {Custom, Shell}
    OBVIOUS
  <2>2. \/ active /\ entries' = entries /\ shells' = shells + 1
        \/ ~active /\ entries' = Append(entries, Shell) /\ shells' = shells
    BY <1>4, Zenon DEF RecordBashResult
  <2>3. /\ notes < MaxNotes /\ notes' = notes + 1
        /\ UNCHANGED <<hidden, pc, active, aborted, queueVars, left, retryVars, customs,
                       userVars, abort, compactions, threw>>
    BY <1>4, Zenon DEF RecordBashResult
  <2> QED BY <2>1, <2>2, <2>3, NoteKeeps
<1> QED BY <1>1, <1>2, <1>3, <1>4, PromptKeeps, StartRunKeeps, ClearQueueKeeps

-----------------------------------------------------------------------------
(* The agent loop.                                                          *)

LEMMA AbortKeeps ==
  ASSUME IInv, Abort
  PROVE  IInv'
<1>1. EntryTypes /\ QueueTypes /\ TextTypes /\ NoteTypes /\ RunTypes /\ FlagTypes /\ TextInv
  BY DEF IInv, Types
<1>2. /\ active /\ abort' = "waiting"
      /\ pc' = (IF pc = "sleep" THEN "cancelled" ELSE pc)
      /\ UNCHANGED <<entries, hidden, active, queueVars, left, retryVars, noteVars, userVars,
                     compactions, threw>>
  BY DEF Abort
<1>3. /\ steerQ' = steerQ /\ followQ' = followQ /\ pending' = pending /\ shown' = shown
      /\ preflight' = preflight /\ typed' = typed /\ cleared' = cleared
      /\ attempt' = attempt /\ tried' = tried
      /\ customs' = customs /\ shells' = shells /\ notes' = notes
  <2>1. UNCHANGED queueVars /\ UNCHANGED userVars /\ UNCHANGED retryVars /\ UNCHANGED noteVars
    BY <1>2
  <2>2. /\ steerQ' = steerQ /\ followQ' = followQ /\ pending' = pending /\ shown' = shown
        /\ attempt' = attempt /\ tried' = tried
    BY <2>1 DEF queueVars, retryVars
  <2> QED BY <2>1, <2>2 DEF userVars, noteVars
<1>4. aborted' \in BOOLEAN
  <2>1. aborted' = (aborted \/ InLoop)
    BY DEF Abort
  <2> QED BY <2>1, Zenon
<1>5. EntryTypes' /\ QueueTypes' /\ TextTypes' /\ NoteTypes' /\ ResultInv'
  BY <1>1, <1>2, <1>3 DEF IInv, EntryTypes, QueueTypes, TextTypes, NoteTypes, ResultInv, Follows
<1>6. RunTypes'
  BY <1>1, <1>2, <1>3 DEF RunTypes, Pcs
<1>7. FlagTypes'
  BY <1>1, <1>2, <1>3, <1>4, Zenon DEF FlagTypes
<1>8. pc \in {"tools", "inject", "prepare"} => pc' = pc
  BY <1>2
<1>9. pc' = "tools" => pc = "tools"
  BY <1>2
<1>10. CallInv'
  BY <1>2, <1>9, Zenon DEF IInv, CallInv, CallAt
<1>11. PendingInv' /\ IdleIsIdle'
  <2>1. pending # <<>> => pc' = pc /\ pc \in {"inject", "prepare"}
    BY <1>8 DEF IInv, PendingInv
  <2>2. PendingInv'
    BY <1>3, <2>1 DEF PendingInv
  <2>3. IdleIsIdle'
    BY <1>2, Zenon DEF IdleIsIdle
  <2> QED BY <2>2, <2>3
<1>12. TextInv'
  <2>1. SameTexts(entries, entries') /\ UNCHANGED <<queueVars, preflight, typed, cleared>>
    BY <1>2, <1>3, Zenon DEF SameTexts
  <2> QED BY <1>1, <2>1, TextsKept
<1> QED BY <1>5, <1>6, <1>7, <1>10, <1>11, <1>12 DEF IInv, Types

(* A text is in one place.                                                  *)
LEMMA OneOf ==
  ASSUME TextInv, NEW t \in Texts
  PROVE  /\ Once(t, steerQ) /\ Once(t, followQ) /\ Once(t, pending)
         /\ Once(User(t), entries)
         /\ Waiting(t) <=> In(t, steerQ) \/ In(t, followQ)
         /\ ~(In(t, steerQ) /\ In(t, followQ))
         /\ In(User(t), entries) => ~Waiting(t) /\ ~In(t, pending) /\ t \notin preflight
         /\ In(t, pending) => t \notin preflight
         /\ Waiting(t) => ~In(t, pending) /\ t \notin preflight
<1>1. Alone(t) /\ Singly(t)
  BY Zenon DEF TextInv
<1>2. Waiting(t) <=> In(t, steerQ) \/ In(t, followQ)
  BY Zenon DEF Waiting
<1>3. /\ ~(In(t, steerQ) /\ In(t, followQ))
      /\ In(User(t), entries) => ~Waiting(t) /\ ~In(t, pending) /\ t \notin preflight
      /\ In(t, pending) => t \notin preflight
      /\ Waiting(t) => ~In(t, pending) /\ t \notin preflight
  BY <1>1, <1>2, SMT DEF Alone, At, Places
<1> QED BY <1>1, <1>2, <1>3, Zenon DEF Singly

LEMMA InjectKeeps ==
  ASSUME IInv, Inject
  PROVE  IInv'
<1>1. EntryTypes /\ QueueTypes /\ TextTypes /\ NoteTypes /\ RunTypes /\ FlagTypes /\ TextInv
  BY DEF IInv, Types
<1>2. /\ pc = "inject" /\ pc' = "stream" /\ Deliver(pending) /\ pending' = <<>>
      /\ UNCHANGED <<hidden, active, aborted, steerQ, followQ, left, attempt, noteVars,
                     userVars, abort, compactions, threw>>
  BY DEF Inject
<1>3. /\ preflight' = preflight /\ typed' = typed /\ cleared' = cleared
      /\ customs' = customs /\ shells' = shells /\ notes' = notes
  BY <1>2 DEF userVars, noteVars
<1>4. pending \in Seq(Texts) /\ <<>> \in Seq(Texts)
  BY <1>1, SMT DEF QueueTypes
<1>5. /\ Longer(entries, entries')
      /\ \A t : /\ In(User(t), entries') <=> In(User(t), entries) \/ In(t, pending)
                /\ Once(User(t), entries) /\ Once(t, pending)
                   /\ ~(In(User(t), entries) /\ In(t, pending)) => Once(User(t), entries')
                /\ t \in shown' <=> t \in shown /\ ~In(t, pending)
  BY <1>1, <1>2, <1>4, DeliverIs
<1>6. EntryTypes' /\ ResultInv' /\ 1..Len(entries) \subseteq 1..Len(entries')
  BY <1>1, <1>5, LongerKeeps DEF IInv
<1>7. QueueTypes' /\ NoteTypes' /\ TextTypes'
  <2>1. shown' \subseteq Texts
    BY <1>1, <1>2 DEF Deliver, TextTypes
  <2> QED BY <1>1, <1>2, <1>3, <1>4, <2>1 DEF QueueTypes, NoteTypes, TextTypes
<1>8. RunTypes'
  <2>1. hidden' \subseteq 1..Len(entries')
    BY <1>1, <1>2, <1>6 DEF RunTypes
  <2> QED BY <1>1, <1>2, <2>1 DEF RunTypes, Pcs
<1>9. FlagTypes'
  <2>1. tried' = IF pending = <<>> THEN tried ELSE FALSE
    BY <1>2, Zenon DEF Deliver
  <2> QED BY <1>1, <1>2, <2>1, Zenon DEF FlagTypes
<1>10. active
  BY <1>2, Zenon DEF IInv, IdleIsIdle
<1>11. CallInv' /\ PendingInv'
  BY <1>2 DEF CallInv, PendingInv
<1>12. IdleIsIdle'
  BY <1>2, <1>10, Zenon DEF IdleIsIdle
<1>13. TextInv'
  <2>1. PICK q : q = pending
    OBVIOUS
  <2>2. ASSUME NEW t \in Texts
        PROVE  /\ Singly(t)' /\ (Waiting(t)' <=> Waiting(t)) /\ ~In(t, pending')
               /\ In(t, pending) => ~Waiting(t) /\ t \notin preflight
               /\ Waiting(t) => t \notin preflight
               /\ ~(In(t, steerQ') /\ In(t, followQ'))
    <3>1. ~In(t, pending') /\ Once(t, pending')
      BY <1>2, NothingIn
    <3>2. Waiting(t)' <=> Waiting(t)
      BY <1>2, Zenon DEF Waiting
    <3>3. /\ Once(t, steerQ) /\ Once(t, followQ) /\ Once(t, pending)
          /\ Once(User(t), entries)
          /\ ~(In(t, steerQ) /\ In(t, followQ))
          /\ In(User(t), entries) => ~In(t, pending)
          /\ In(t, pending) => t \notin preflight
          /\ Waiting(t) => ~In(t, pending) /\ t \notin preflight
      BY <1>1, OneOf
    <3>4. Singly(t)'
      BY <1>2, <1>5, <3>1, <3>3, Zenon DEF Singly
    <3> QED BY <1>2, <3>1, <3>2, <3>3, <3>4, Zenon
  <2>3. /\ \A t \in Texts : Singly(t)'
        /\ \A t \in Texts : Waiting(t)' => Waiting(t)
        /\ \A t \in Texts : Waiting(t) \/ In(t, pending)
                            => Waiting(t)' \/ In(t, pending') \/ In(t, q)
        /\ \A t \in Texts : In(t, pending') => In(t, pending) \/ Waiting(t)
        /\ \A t \in Texts : In(t, q) => Waiting(t) \/ In(t, pending) \/ t \in preflight
    BY <2>1, <2>2, Zenon
  <2>4. /\ \A t \in Texts : In(t, q) => ~Waiting(t)' /\ ~In(t, pending') /\ t \notin preflight'
        /\ \A t \in Texts : Waiting(t)' => ~In(t, pending') /\ t \notin preflight'
        /\ \A t \in Texts : ~(In(t, steerQ') /\ In(t, followQ'))
        /\ \A t \in Texts : In(t, pending') => t \notin preflight'
    BY <1>3, <2>1, <2>2, Zenon
  <2>5. /\ \A t \in Texts : In(User(t), entries') <=> In(User(t), entries) \/ In(t, q)
        /\ \A t \in Texts : t \in shown' <=> t \in shown /\ ~In(t, q)
    BY <1>5, <2>1, Zenon
  <2>6. /\ \A t \in Texts : t \in preflight' => t \in preflight
        /\ \A t \in Texts : t \in preflight => t \in preflight' \/ In(t, q)
        /\ UNCHANGED <<typed, cleared>>
    BY <1>3, Zenon
  <2> QED BY <1>1, <2>3, <2>4, <2>5, <2>6, TextsMove
<1> QED BY <1>6, <1>7, <1>8, <1>9, <1>11, <1>12, <1>13 DEF IInv, Types

LEMMA RespondKeeps ==
  ASSUME IInv, NEW stop \in Stops, Respond(stop)
  PROVE  IInv'
<1>1. EntryTypes /\ QueueTypes /\ TextTypes /\ NoteTypes /\ RunTypes /\ FlagTypes /\ TextInv
  BY DEF IInv, Types
<1>2. /\ pc = "stream"
      /\ attempt' = (IF stop \in Errors THEN attempt ELSE 0)
      /\ tried' = (IF stop \in Errors THEN tried ELSE FALSE)
      /\ UNCHANGED <<hidden, active, aborted, queueVars, userVars, abort, compactions, threw>>
  BY DEF Respond
<1>3. PICK e : e = Append(entries, Assistant(stop))
  OBVIOUS
<1>4. \/ /\ entries' = e /\ pc' = "turnEnd" /\ UNCHANGED <<left, noteVars>>
      \/ /\ stop = "tools" /\ entries' = e /\ pc' = "tools"
         /\ left' = ToolCalls /\ UNCHANGED noteVars
      \/ /\ pc' = "post" /\ entries' = e \o Customs /\ customs' = 0
         /\ UNCHANGED <<left, shells, notes>>
  BY <1>3, Zenon DEF Respond
<1>5. /\ steerQ' = steerQ /\ followQ' = followQ /\ pending' = pending /\ shown' = shown
      /\ preflight' = preflight /\ typed' = typed /\ cleared' = cleared
  BY <1>2 DEF queueVars, userVars
<1>6. /\ entries \in Seq(Messages) /\ Assistant(stop) \in Messages
      /\ Assistant(stop).role = "assistant"
  BY <1>1, MessagesAre DEF EntryTypes
<1>7. /\ e \in Seq(Messages) /\ Len(entries) \in Nat /\ Len(e) = Len(entries) + 1
      /\ e[Len(entries) + 1] = Assistant(stop)
  BY <1>3, <1>6, AppendIs
<1>8. Longer(entries, e) /\ SameTexts(entries, e)
  BY <1>3, <1>6, AppendLonger
<1>9. Longer(entries, entries') /\ SameTexts(entries, entries')
  <2>1. CASE entries' = e
    BY <1>8, <2>1
  <2>2. CASE entries' = e \o Customs
    <3>1. Longer(e, entries') /\ SameTexts(e, entries')
      BY <1>1, <1>7, <2>2, NotesAre, ConcatLonger
    <3> QED BY <1>6, <1>7, <1>8, <3>1, LongerTwice
  <2> QED BY <1>4, <2>1, <2>2
<1>10. EntryTypes' /\ ResultInv' /\ 1..Len(entries) \subseteq 1..Len(entries')
  BY <1>1, <1>9, LongerKeeps DEF IInv
<1>11. NoteTypes'
  BY <1>1, <1>4, SMT DEF NoteTypes, noteVars
<1>12. QueueTypes' /\ TextTypes'
  BY <1>1, <1>5 DEF QueueTypes, TextTypes
<1>13. FlagTypes'
  BY <1>1, <1>2, Zenon DEF FlagTypes
<1>14. RunTypes'
  <2>1. hidden' \subseteq 1..Len(entries')
    BY <1>1, <1>2, <1>10 DEF RunTypes
  <2>2. left' \in 0..ToolCalls /\ pc' \in Pcs
    BY <1>1, <1>4, SessionAssumption, SMT DEF RunTypes, Pcs
  <2>3. attempt' \in 0..MaxRetries
    BY <1>1, <1>2, SessionAssumption, SMT DEF RunTypes
  <2> QED BY <1>1, <1>2, <2>1, <2>2, <2>3, Zenon DEF RunTypes
<1>15. CallInv'
  <2>1. SUFFICES ASSUME pc' = "tools" PROVE \E k \in Nat : CallAt(entries', k)
    BY Zenon DEF CallInv, CallAt
  <2>2. entries' = e /\ stop = "tools"
    BY <1>4, <2>1
  <2>3. /\ Len(entries) + 1 \in 1..Len(e) /\ Len(entries) + 1 \in Nat
        /\ (Len(entries) + 1 + 1)..Len(e) = {}
    BY <1>7, SMT
  <2>4. CallAt(e, Len(entries) + 1)
    BY <1>7, <2>2, <2>3, Zenon DEF CallAt
  <2> QED BY <2>2, <2>3, <2>4
<1>16. PendingInv'
  BY <1>2, <1>5 DEF IInv, PendingInv
<1>17. IdleIsIdle'
  <2>1. active
    BY <1>2, Zenon DEF IInv, IdleIsIdle
  <2> QED BY <1>2, <2>1, Zenon DEF IdleIsIdle
<1>18. TextInv'
  BY <1>1, <1>2, <1>5, <1>9, TextsKept
<1> QED BY <1>10, <1>11, <1>12, <1>13, <1>14, <1>15, <1>16, <1>17, <1>18 DEF IInv, Types

(* The result of a tool is that of the last response with calls.            *)
LEMMA ToolResultKeeps ==
  ASSUME IInv, ToolResult
  PROVE  IInv'
<1>1. EntryTypes /\ QueueTypes /\ TextTypes /\ NoteTypes /\ RunTypes /\ FlagTypes /\ TextInv
  BY DEF IInv, Types
<1>2. PICK S : S = {i \in DOMAIN entries : entries[i] = Assistant("tools")}
  OBVIOUS
<1>3. /\ pc = "tools" /\ entries' = Append(entries, Result(Max(S)))
      /\ \E n \in 0..(left - 1) : left' = n /\ pc' = IF n = 0 THEN "turnEnd" ELSE "tools"
      /\ UNCHANGED <<hidden, active, aborted, queueVars, retryVars, noteVars, userVars, abort,
                     compactions, threw>>
  BY <1>2, Zenon DEF ToolResult
<1>4. /\ steerQ' = steerQ /\ followQ' = followQ /\ pending' = pending /\ shown' = shown
      /\ preflight' = preflight /\ typed' = typed /\ cleared' = cleared
      /\ attempt' = attempt /\ tried' = tried
      /\ customs' = customs /\ shells' = shells /\ notes' = notes
  BY <1>3 DEF queueVars, userVars, retryVars, noteVars
<1>5. entries \in Seq(Messages) /\ Len(entries) \in Nat /\ DOMAIN entries = 1..Len(entries)
  BY <1>1, SMT DEF EntryTypes
<1>6. PICK k \in Nat : CallAt(entries, k)
  BY <1>3 DEF IInv, CallInv
<1>7. /\ k \in 1..Len(entries) /\ entries[k] = Assistant("tools")
      /\ \A j \in (k + 1)..Len(entries) : entries[j] = Result(k)
  BY <1>6, Zenon DEF CallAt
<1>8. Max(S) = k
  <2>1. k \in S /\ S \subseteq 1..Len(entries)
    BY <1>2, <1>5, <1>7
  <2>2. Max(S) \in S /\ k <= Max(S)
    BY <1>5, <2>1, MaxIs
  <2>3. Max(S) \in 1..Len(entries) /\ entries[Max(S)] = Assistant("tools")
    BY <1>2, <1>5, <2>2
  <2>4. Result(k) # Assistant("tools")
    BY MessagesAre
  <2>5. Max(S) \notin (k + 1)..Len(entries)
    BY <1>7, <2>3, <2>4
  <2> QED BY <1>5, <2>2, <2>3, <2>5, SMT
<1>9. PICK r : r = Append(entries, Result(k))
  OBVIOUS
<1>10. /\ entries' = r /\ Result(k) \in Messages /\ Result(k).role = "result"
       /\ Result(k).of = k
  BY <1>3, <1>8, <1>9, MessagesAre
<1>11. /\ r \in Seq(Messages) /\ Len(r) = Len(entries) + 1
       /\ \A i \in 1..Len(entries) : r[i] = entries[i]
       /\ r[Len(entries) + 1] = Result(k)
  BY <1>5, <1>9, <1>10, AppendIs
<1>12. SameTexts(entries, r)
  BY <1>5, <1>9, <1>10, AppendLonger
<1>13. \A i \in 1..Len(r) : i \in 1..Len(entries) \/ i = Len(entries) + 1
  BY <1>5, <1>11, SMT
<1>14. ResultInv'
  <2>1. SUFFICES ASSUME NEW i \in 1..Len(r), r[i].role = "result"
                 PROVE  /\ i > 1 /\ r[i].of \in 1..(i - 1)
                        /\ r[i].of = i - 1 \/ r[i - 1] = r[i]
    BY <1>10, Zenon DEF ResultInv, Follows
  <2>2. CASE i \in 1..Len(entries)
    <3>1. r[i] = entries[i]
      BY <1>11, <2>2
    <3>2. /\ i > 1 /\ entries[i].of \in 1..(i - 1)
          /\ entries[i].of = i - 1 \/ entries[i - 1] = entries[i]
      BY <2>1, <2>2, <3>1 DEF IInv, ResultInv, Follows
    <3>3. i - 1 \in 1..Len(entries)
      BY <1>5, <2>2, <3>2, SMT
    <3>4. r[i - 1] = entries[i - 1]
      BY <1>11, <3>3
    <3> QED BY <3>1, <3>2, <3>4
  <2>3. CASE i = Len(entries) + 1
    <3>1. r[i] = Result(k) /\ r[i].of = k
      BY <1>10, <1>11, <2>3
    <3>2. i > 1 /\ k \in 1..(i - 1) /\ i - 1 = Len(entries)
      BY <1>5, <1>7, <2>3, SMT
    <3>3. k = i - 1 \/ i - 1 \in (k + 1)..Len(entries)
      BY <1>5, <1>7, <3>2, SMT
    <3>4. CASE i - 1 \in (k + 1)..Len(entries)
      <4>1. entries[i - 1] = Result(k)
        BY <1>7, <3>4
      <4>2. i - 1 \in 1..Len(entries)
        BY <1>5, <1>7, <3>4, SMT
      <4>3. r[i - 1] = Result(k)
        BY <1>11, <4>1, <4>2
      <4> QED BY <3>1, <3>2, <4>3
    <3> QED BY <3>1, <3>2, <3>3, <3>4
  <2> QED BY <1>13, <2>2, <2>3
<1>15. CallAt(r, k)
  <2>1. k \in 1..Len(r) /\ r[k] = Assistant("tools")
    BY <1>5, <1>7, <1>11, SMT
  <2>2. ASSUME NEW j \in (k + 1)..Len(r) PROVE r[j] = Result(k)
    <3>1. j \in (k + 1)..Len(entries) \/ j = Len(entries) + 1
      BY <1>5, <1>7, <1>11, SMT
    <3>2. CASE j \in (k + 1)..Len(entries)
      <4>1. j \in 1..Len(entries)
        BY <1>5, <1>7, <3>2, SMT
      <4> QED BY <1>7, <1>11, <3>2, <4>1
    <3> QED BY <1>11, <3>1, <3>2
  <2> QED BY <2>1, <2>2 DEF CallAt
<1>16. EntryTypes' /\ CallInv'
  BY <1>6, <1>10, <1>11, <1>15 DEF EntryTypes, CallInv
<1>17. QueueTypes' /\ TextTypes' /\ NoteTypes'
  BY <1>1, <1>4 DEF QueueTypes, TextTypes, NoteTypes
<1>18. FlagTypes'
  BY <1>1, <1>3, <1>4, Zenon DEF FlagTypes
<1>19. RunTypes'
  <2>1. hidden' \subseteq 1..Len(entries')
    BY <1>1, <1>3, <1>5, <1>10, <1>11, SMT DEF RunTypes
  <2>2. left' \in 0..ToolCalls /\ pc' \in Pcs
    BY <1>1, <1>3, SessionAssumption, SMT DEF RunTypes, Pcs
  <2> QED BY <1>1, <1>3, <1>4, <2>1, <2>2, Zenon DEF RunTypes
<1>20. PendingInv'
  BY <1>3, <1>4 DEF IInv, PendingInv
<1>21. IdleIsIdle'
  <2>1. active
    BY <1>3, Zenon DEF IInv, IdleIsIdle
  <2> QED BY <1>3, <2>1, Zenon DEF IdleIsIdle
<1>22. TextInv'
  <2>1. SameTexts(entries, entries') /\ UNCHANGED <<queueVars, preflight, typed, cleared>>
    BY <1>3, <1>4, <1>10, <1>12
  <2> QED BY <1>1, <2>1, TextsKept
<1> QED BY <1>14, <1>16, <1>17, <1>18, <1>19, <1>20, <1>21, <1>22 DEF IInv, Types

(* A poll takes what a queue has for the next turn.                         *)
LEMMA PollMoves ==
  ASSUME QueueTypes, TextInv, pending = <<>>, SameTexts(entries, entries'),
         UNCHANGED <<shown, preflight, typed, cleared>>,
         \/ pending' = Drained(steerQ) /\ steerQ' = Rest(steerQ) /\ followQ' = followQ
         \/ pending' = Drained(followQ) /\ followQ' = Rest(followQ) /\ steerQ' = steerQ
  PROVE  QueueTypes' /\ TextInv'
<1>1. steerQ \in Seq(Texts) /\ followQ \in Seq(Texts)
  BY DEF QueueTypes
<1>2. QueueTypes'
  BY <1>1, DrainIs DEF QueueTypes
<1>3. ASSUME NEW t \in Texts
      PROVE  /\ In(t, pending') \/ In(t, steerQ') \/ In(t, followQ')
                <=> In(t, steerQ) \/ In(t, followQ)
             /\ Once(t, pending') /\ Once(t, steerQ') /\ Once(t, followQ')
             /\ ~(In(t, steerQ') /\ In(t, followQ'))
             /\ In(t, pending') => ~In(t, steerQ') /\ ~In(t, followQ')
  <2>1. /\ Once(t, steerQ) /\ Once(t, followQ)
        /\ ~(In(t, steerQ) /\ In(t, followQ))
    BY OneOf
  <2>2. CASE pending' = Drained(steerQ) /\ steerQ' = Rest(steerQ) /\ followQ' = followQ
    <3>1. /\ In(t, steerQ) <=> In(t, pending') \/ In(t, steerQ')
          /\ Once(t, steerQ) => /\ Once(t, pending') /\ Once(t, steerQ')
                                /\ ~(In(t, pending') /\ In(t, steerQ'))
      BY <1>1, <2>2, DrainIs
    <3> QED BY <2>1, <2>2, <3>1, Zenon
  <2>3. CASE pending' = Drained(followQ) /\ followQ' = Rest(followQ) /\ steerQ' = steerQ
    <3>1. /\ In(t, followQ) <=> In(t, pending') \/ In(t, followQ')
          /\ Once(t, followQ) => /\ Once(t, pending') /\ Once(t, followQ')
                                 /\ ~(In(t, pending') /\ In(t, followQ'))
      BY <1>1, <2>3, DrainIs
    <3> QED BY <2>1, <2>3, <3>1, Zenon
  <2> QED BY <2>2, <2>3
<1>4. PICK q : q = <<>>
  OBVIOUS
<1>5. \A t : ~In(t, q) /\ ~In(t, pending)
  BY <1>4, NothingIn
<1>6. \A t \in Texts : /\ Once(User(t), entries)
                       /\ Waiting(t) <=> In(t, steerQ) \/ In(t, followQ)
                       /\ Waiting(t)' <=> In(t, steerQ') \/ In(t, followQ')
                       /\ Waiting(t) => t \notin preflight
  BY OneOf, Zenon DEF Waiting
<1>7. \A t \in Texts : Singly(t)'
  BY <1>3, <1>6, Zenon DEF Singly, SameTexts
<1>8. /\ \A t \in Texts : Waiting(t)' => Waiting(t)
      /\ \A t \in Texts : Waiting(t) \/ In(t, pending)
                          => Waiting(t)' \/ In(t, pending') \/ In(t, q)
      /\ \A t \in Texts : In(t, pending') => In(t, pending) \/ Waiting(t)
  BY <1>3, <1>5, <1>6, Zenon
<1>9. /\ \A t \in Texts : In(t, q) => Waiting(t) \/ In(t, pending) \/ t \in preflight
      /\ \A t \in Texts : In(t, q) => ~Waiting(t)' /\ ~In(t, pending') /\ t \notin preflight'
      /\ \A t \in Texts : Waiting(t)' => ~In(t, pending') /\ t \notin preflight'
      /\ \A t \in Texts : ~(In(t, steerQ') /\ In(t, followQ'))
      /\ \A t \in Texts : In(t, pending') => t \notin preflight'
  BY <1>3, <1>5, <1>6, Zenon
<1>10. /\ \A t \in Texts : In(User(t), entries') <=> In(User(t), entries) \/ In(t, q)
       /\ \A t \in Texts : t \in shown' <=> t \in shown /\ ~In(t, q)
       /\ \A t \in Texts : t \in preflight' => t \in preflight
       /\ \A t \in Texts : t \in preflight => t \in preflight' \/ In(t, q)
       /\ UNCHANGED <<typed, cleared>>
  BY <1>5, Zenon DEF SameTexts
<1> QED BY <1>2, <1>7, <1>8, <1>9, <1>10, TextsMove

LEMMA TurnEndKeeps ==
  ASSUME IInv, TurnEnd
  PROVE  IInv'
<1>1. EntryTypes /\ QueueTypes /\ TextTypes /\ NoteTypes /\ RunTypes /\ FlagTypes /\ TextInv
  BY DEF IInv, Types
<1>2. /\ pc = "turnEnd" /\ entries' = entries \o Customs /\ customs' = 0
      /\ UNCHANGED <<hidden, active, aborted, shown, left, retryVars, shells, notes, userVars,
                     abort, compactions, threw>>
  BY DEF TurnEnd
<1>3. \/ /\ pending' = Drained(steerQ) /\ steerQ' = Rest(steerQ) /\ followQ' = followQ
         /\ pc' = "prepare"
      \/ /\ pending' = Drained(followQ) /\ followQ' = Rest(followQ) /\ steerQ' = steerQ
         /\ pc' = IF followQ = <<>> THEN "post" ELSE "prepare"
  BY Zenon DEF TurnEnd
<1>4. /\ preflight' = preflight /\ typed' = typed /\ cleared' = cleared
      /\ attempt' = attempt /\ tried' = tried /\ pending = <<>>
  BY <1>1, <1>2 DEF userVars, retryVars, IInv, PendingInv
<1>5. Longer(entries, entries') /\ SameTexts(entries, entries')
  BY <1>1, <1>2, NotesAre, ConcatLonger DEF EntryTypes
<1>6. EntryTypes' /\ ResultInv' /\ 1..Len(entries) \subseteq 1..Len(entries')
  BY <1>1, <1>5, LongerKeeps DEF IInv
<1>7. QueueTypes' /\ TextInv'
  <2>1. UNCHANGED <<shown, preflight, typed, cleared>>
    BY <1>2, <1>4
  <2> QED BY <1>1, <1>3, <1>4, <1>5, <2>1, PollMoves
<1>8. TextTypes' /\ NoteTypes'
  BY <1>1, <1>2, <1>4, SMT DEF TextTypes, NoteTypes
<1>9. RunTypes'
  <2>1. hidden' \subseteq 1..Len(entries')
    BY <1>1, <1>2, <1>6 DEF RunTypes
  <2>2. pc' \in Pcs
    BY <1>3 DEF Pcs
  <2> QED BY <1>1, <1>2, <1>4, <2>1, <2>2, Zenon DEF RunTypes
<1>10. FlagTypes'
  BY <1>1, <1>2, <1>4, Zenon DEF FlagTypes
<1>11. pc' \in {"prepare", "post"} /\ (pending' # <<>> => pc' = "prepare")
  <2>1. CASE pc' = "prepare"
    BY <2>1
  <2>2. CASE pending' = Drained(followQ) /\ followQ = <<>> /\ pc' = "post"
    BY <1>1, <2>2, DrainIs DEF QueueTypes
  <2> QED BY <1>3, <2>1, <2>2
<1>12. CallInv' /\ PendingInv'
  BY <1>11 DEF CallInv, PendingInv
<1>13. IdleIsIdle'
  <2>1. active
    BY <1>2, Zenon DEF IInv, IdleIsIdle
  <2> QED BY <1>2, <2>1, Zenon DEF IdleIsIdle
<1> QED BY <1>6, <1>7, <1>8, <1>9, <1>10, <1>12, <1>13 DEF IInv, Types

LEMMA CompactOnceIs ==
  ASSUME RunTypes, CompactOnce
  PROVE  compactions' \in 0..MaxCompactions
BY SessionAssumption, SMT DEF RunTypes, CompactOnce

LEMMA PrepareKeeps ==
  ASSUME IInv, PrepareNextTurn
  PROVE  IInv'
<1>1. EntryTypes /\ QueueTypes /\ TextTypes /\ NoteTypes /\ RunTypes /\ FlagTypes /\ TextInv
  BY DEF IInv, Types
<1>2. /\ pc = "prepare" /\ pc' = "inject"
      /\ \/ UNCHANGED <<hidden, compactions>>
         \/ CompactOnce /\ hidden' \in Cuts
      /\ UNCHANGED <<entries, active, aborted, followQ, shown, left, retryVars, noteVars,
                     userVars, abort, threw>>
  BY Zenon DEF PrepareNextTurn
<1>3. \/ /\ pending = <<>> /\ pending' = Drained(steerQ) /\ steerQ' = Rest(steerQ)
      \/ UNCHANGED <<pending, steerQ>>
  BY Zenon DEF PrepareNextTurn
<1>4. /\ preflight' = preflight /\ typed' = typed /\ cleared' = cleared
      /\ attempt' = attempt /\ tried' = tried
      /\ customs' = customs /\ shells' = shells /\ notes' = notes
  BY <1>2 DEF userVars, retryVars, noteVars
<1>5. EntryTypes' /\ ResultInv' /\ TextTypes' /\ NoteTypes'
  BY <1>1, <1>2, <1>4 DEF IInv, EntryTypes, ResultInv, Follows, TextTypes, NoteTypes
<1>6. QueueTypes' /\ TextInv'
  <2>1. SameTexts(entries, entries')
    BY <1>2, Zenon DEF SameTexts
  <2>2. CASE pending = <<>> /\ pending' = Drained(steerQ) /\ steerQ' = Rest(steerQ)
    <3>1. UNCHANGED <<shown, preflight, typed, cleared>> /\ followQ' = followQ
      BY <1>2, <1>4
    <3> QED BY <1>1, <2>1, <2>2, <3>1, PollMoves
  <2>3. CASE UNCHANGED <<pending, steerQ>>
    <3>1. UNCHANGED <<queueVars, preflight, typed, cleared>>
      BY <1>2, <1>4, <2>3 DEF queueVars
    <3>2. TextInv'
      BY <1>1, <2>1, <3>1, TextsKept
    <3> QED BY <1>1, <1>2, <2>3, <3>2 DEF QueueTypes
  <2> QED BY <1>3, <2>2, <2>3
<1>7. RunTypes'
  <2>1. hidden' \subseteq 1..Len(entries) /\ compactions' \in 0..MaxCompactions
    <3>1. CASE UNCHANGED <<hidden, compactions>>
      BY <1>1, <3>1 DEF RunTypes
    <3>2. CASE CompactOnce /\ hidden' \in Cuts
      BY <1>1, <3>2, CompactOnceIs, CutsAre
    <3> QED BY <1>2, <3>1, <3>2
  <2>2. pc' \in Pcs
    BY <1>2 DEF Pcs
  <2> QED BY <1>1, <1>2, <1>4, <2>1, <2>2, Zenon DEF RunTypes
<1>8. FlagTypes'
  BY <1>1, <1>2, <1>4, Zenon DEF FlagTypes
<1>9. CallInv' /\ PendingInv'
  BY <1>2 DEF CallInv, PendingInv
<1>10. IdleIsIdle'
  <2>1. active
    BY <1>2, Zenon DEF IInv, IdleIsIdle
  <2> QED BY <1>2, <2>1, Zenon DEF IdleIsIdle
<1> QED BY <1>5, <1>6, <1>7, <1>8, <1>9, <1>10 DEF IInv, Types

-----------------------------------------------------------------------------
(* After a run.                                                             *)

(* Nothing moves but the run's own state.                                   *)
LEMMA RunKeeps ==
  ASSUME IInv, UNCHANGED <<entries, active, aborted, queueVars, noteVars, userVars>>,
         hidden' \subseteq 1..Len(entries), pc' \in Pcs \ {"tools"},
         left' \in 0..ToolCalls, attempt' \in 0..MaxRetries,
         abort' = abort, compactions' \in 0..MaxCompactions,
         tried' \in BOOLEAN, threw' \in BOOLEAN,
         pending = <<>>, active \/ pc' = pc
  PROVE  IInv'
<1>1. EntryTypes /\ QueueTypes /\ TextTypes /\ NoteTypes /\ RunTypes /\ FlagTypes /\ TextInv
  BY DEF IInv, Types
<1>2. /\ steerQ' = steerQ /\ followQ' = followQ /\ pending' = pending /\ shown' = shown
      /\ preflight' = preflight /\ typed' = typed /\ cleared' = cleared
      /\ customs' = customs /\ shells' = shells /\ notes' = notes
  BY DEF queueVars, userVars, noteVars
<1>3. EntryTypes' /\ ResultInv' /\ QueueTypes' /\ TextTypes' /\ NoteTypes'
  BY <1>1, <1>2 DEF IInv, EntryTypes, ResultInv, Follows, QueueTypes, TextTypes, NoteTypes
<1>4. RunTypes'
  <2>1. pc' \in Pcs
    OBVIOUS
  <2> QED BY <1>1, <2>1, Zenon DEF RunTypes
<1>5. FlagTypes'
  BY <1>1, Zenon DEF FlagTypes
<1>6. CallInv' /\ PendingInv'
  BY <1>2 DEF CallInv, PendingInv
<1>7. IdleIsIdle'
  BY <1>2, Zenon DEF IInv, IdleIsIdle
<1>8. TextInv'
  <2>1. SameTexts(entries, entries') /\ UNCHANGED <<queueVars, preflight, typed, cleared>>
    BY <1>2, Zenon DEF SameTexts
  <2> QED BY <1>1, <2>1, TextsKept
<1> QED BY <1>3, <1>4, <1>5, <1>6, <1>7, <1>8 DEF IInv, Types

(* What holds when a run is over and the session decides how to go on.      *)
LEMMA AfterRun ==
  ASSUME IInv, pc \in {"post", "sleep", "cancelled", "overflow", "threshold"}
  PROVE  active /\ pending = <<>>
<1>1. pc # "idle" /\ pc \notin {"inject", "prepare"}
  OBVIOUS
<1>2. active
  BY <1>1, Zenon DEF IInv, IdleIsIdle
<1>3. pending = <<>>
  BY <1>1 DEF IInv, PendingInv
<1> QED BY <1>2, <1>3

LEMMA RetryKeeps ==
  ASSUME IInv, PrepareRetry \/ Retry
  PROVE  IInv'
<1>1. EntryTypes /\ RunTypes /\ FlagTypes
  BY DEF IInv, Types
<1>2. CASE PrepareRetry
  <2>1. /\ pc = "post" /\ attempt < MaxRetries /\ attempt' = attempt + 1
        /\ hidden' = WithoutLastAssistant(hidden) /\ pc' = "sleep"
        /\ UNCHANGED <<entries, active, aborted, queueVars, left, tried, noteVars, userVars,
                       abort, compactions, threw>>
    BY <1>2 DEF PrepareRetry
  <2>2. active /\ pending = <<>>
    BY <2>1, AfterRun
  <2>3. hidden' \subseteq 1..Len(entries)
    BY <1>1, <2>1, WithoutIs DEF RunTypes
  <2>4. attempt' \in 0..MaxRetries
    BY <1>1, <2>1, SessionAssumption, SMT DEF RunTypes
  <2>5. left' \in 0..ToolCalls /\ compactions' \in 0..MaxCompactions
    BY <1>1, <2>1 DEF RunTypes
  <2>6. tried' \in BOOLEAN /\ threw' \in BOOLEAN
    BY <1>1, <2>1, Zenon DEF FlagTypes
  <2>7. pc' \in Pcs \ {"tools"}
    BY <2>1 DEF Pcs
  <2>8. UNCHANGED <<entries, active, aborted, queueVars, noteVars, userVars>> /\ abort' = abort
    BY <2>1
  <2> QED BY <2>2, <2>3, <2>4, <2>5, <2>6, <2>7, <2>8, RunKeeps
<1>3. CASE Retry
  <2>1. /\ pc = "sleep" /\ Continue(hidden)
        /\ UNCHANGED <<left, attempt, userVars, compactions>>
    BY <1>3 DEF Retry
  <2>2. active /\ pending = <<>>
    BY <2>1, AfterRun
  <2>3. /\ hidden \subseteq 1..Len(entries)
        /\ attempt' \in 0..MaxRetries /\ compactions' \in 0..MaxCompactions
    BY <1>1, <2>1 DEF RunTypes
  <2>4. UNCHANGED <<left, userVars>>
    BY <2>1
  <2> QED BY <2>1, <2>2, <2>3, <2>4, ContinueKeeps
<1> QED BY <1>2, <1>3

LEMMA PostRunKeeps ==
  ASSUME IInv, PostRun
  PROVE  IInv'
<1>1. EntryTypes /\ RunTypes /\ FlagTypes
  BY DEF IInv, Types
<1>2. /\ pc \in {"post", "cancelled"} /\ attempt' = 0 /\ CheckCompaction
      /\ left' = left /\ userVars' = userVars /\ compactions' = compactions
  BY DEF PostRun
<1>3. active /\ pending = <<>>
  BY <1>2, AfterRun
<1>4. /\ attempt' \in 0..MaxRetries /\ compactions' \in 0..MaxCompactions
      /\ hidden \subseteq 1..Len(entries) /\ left' \in 0..ToolCalls
  BY <1>1, <1>2, SessionAssumption, SMT DEF RunTypes
<1>5. CASE RecoverOverflow
  <2>1. /\ tried' = TRUE /\ hidden' = WithoutLastAssistant(hidden) /\ pc' = "overflow"
        /\ UNCHANGED <<entries, active, aborted, queueVars, noteVars, abort, threw>>
    BY <1>5 DEF RecoverOverflow
  <2>2. hidden' \subseteq 1..Len(entries)
    BY <1>1, <1>4, <2>1, WithoutIs
  <2>3. tried' \in BOOLEAN /\ threw' \in BOOLEAN
    BY <1>1, <2>1, Zenon DEF FlagTypes
  <2>4. pc' \in Pcs \ {"tools"}
    BY <2>1 DEF Pcs
  <2>5. UNCHANGED <<entries, active, aborted, queueVars, noteVars, userVars>> /\ abort' = abort
    BY <1>2, <2>1
  <2> QED BY <1>3, <1>4, <2>2, <2>3, <2>4, <2>5, RunKeeps
<1>6. CASE CompactAtThreshold
  <2>1. /\ pc' = "threshold"
        /\ UNCHANGED <<entries, hidden, active, aborted, queueVars, tried, noteVars, abort,
                       threw>>
    BY <1>6 DEF CompactAtThreshold
  <2>2. hidden' \subseteq 1..Len(entries)
    BY <1>4, <2>1
  <2>3. tried' \in BOOLEAN /\ threw' \in BOOLEAN
    BY <1>1, <2>1, Zenon DEF FlagTypes
  <2>4. pc' \in Pcs \ {"tools"}
    BY <2>1 DEF Pcs
  <2>5. UNCHANGED <<entries, active, aborted, queueVars, noteVars, userVars>> /\ abort' = abort
    BY <1>2, <2>1
  <2> QED BY <1>3, <1>4, <2>2, <2>3, <2>4, <2>5, RunKeeps
<1>7. CASE ContinueIfQueued(hidden)
  <2>1. UNCHANGED <<left, userVars>>
    BY <1>2
  <2> QED BY <1>3, <1>4, <1>7, <2>1, ContinueIfQueuedKeeps
<1> QED BY <1>2, <1>5, <1>6, <1>7 DEF CheckCompaction

LEMMA CompactionEndsKeeps ==
  ASSUME IInv, CompactionEnds
  PROVE  IInv'
<1>1. EntryTypes /\ RunTypes
  BY DEF IInv, Types
<1>2. left' = left /\ attempt' = attempt /\ userVars' = userVars
  BY DEF CompactionEnds
<1>3. \/ /\ pc = "overflow" /\ CompactOnce
         /\ \E h \in Cuts : Continue(WithoutLastError(h))
      \/ /\ pc = "threshold" /\ CompactOnce
         /\ \E h \in Cuts : ContinueIfQueued(h)
      \/ /\ pc \in {"overflow", "threshold"} /\ ContinueIfQueued(hidden)
         /\ compactions' = compactions
  BY Zenon DEF CompactionEnds
<1>4. active /\ pending = <<>>
  BY <1>3, AfterRun
<1>5. UNCHANGED <<left, userVars>> /\ attempt' \in 0..MaxRetries
  BY <1>1, <1>2 DEF RunTypes
<1>6. compactions' \in 0..MaxCompactions
  BY <1>1, <1>3, CompactOnceIs DEF RunTypes
<1>7. ASSUME NEW h \in Cuts, Continue(WithoutLastError(h)) PROVE IInv'
  <2>1. h \subseteq 1..Len(entries)
    BY <1>1, CutsAre
  <2>2. WithoutLastError(h) \subseteq 1..Len(entries)
    BY <1>1, <2>1, WithoutIs
  <2> QED BY <1>4, <1>5, <1>6, <1>7, <2>2, ContinueKeeps
<1>8. ASSUME NEW h \in Cuts, ContinueIfQueued(h) PROVE IInv'
  <2>1. h \subseteq 1..Len(entries)
    BY <1>1, CutsAre
  <2> QED BY <1>4, <1>5, <1>6, <1>8, <2>1, ContinueIfQueuedKeeps
<1>9. CASE ContinueIfQueued(hidden)
  <2>1. hidden \subseteq 1..Len(entries)
    BY <1>1 DEF RunTypes
  <2> QED BY <1>4, <1>5, <1>6, <1>9, <2>1, ContinueIfQueuedKeeps
<1> QED BY <1>3, <1>7, <1>8, <1>9

LEMMA CompactBeforePromptKeeps ==
  ASSUME IInv, CompactBeforePrompt
  PROVE  IInv'
<1>1. EntryTypes /\ RunTypes /\ FlagTypes
  BY DEF IInv, Types
<1>2. /\ pc = "idle"
      /\ UNCHANGED <<entries, pc, active, aborted, queueVars, left, attempt, noteVars,
                     userVars, abort, threw>>
  BY DEF CompactBeforePrompt
<1>3. \/ /\ tried' = TRUE
         /\ \/ hidden' = WithoutLastAssistant(hidden) /\ UNCHANGED compactions
            \/ \E h \in Cuts : hidden' = WithoutLastError(h) /\ CompactOnce
      \/ CompactOnce /\ hidden' \in Cuts /\ UNCHANGED tried
  BY Zenon DEF CompactBeforePrompt
<1>4. hidden' \subseteq 1..Len(entries)
  <2>1. ASSUME NEW h \in Cuts PROVE /\ h \subseteq 1..Len(entries)
                                    /\ WithoutLastError(h) \subseteq 1..Len(entries)
    BY <1>1, CutsAre, WithoutIs
  <2>2. WithoutLastAssistant(hidden) \subseteq 1..Len(entries)
    BY <1>1, WithoutIs DEF RunTypes
  <2> QED BY <1>3, <2>1, <2>2
<1>5. compactions' \in 0..MaxCompactions
  <2>1. compactions' = compactions \/ CompactOnce
    BY <1>3
  <2> QED BY <1>1, <2>1, CompactOnceIs DEF RunTypes
<1>6. tried' \in BOOLEAN /\ threw' \in BOOLEAN
  BY <1>1, <1>2, <1>3, Zenon DEF FlagTypes
<1>7. /\ left' \in 0..ToolCalls /\ attempt' \in 0..MaxRetries /\ abort' = abort
      /\ pc' \in Pcs \ {"tools"} /\ pc' = pc /\ pending = <<>>
  BY <1>1, <1>2 DEF RunTypes, Pcs, IInv, PendingInv
<1>8. UNCHANGED <<entries, active, aborted, queueVars, noteVars, userVars>>
  BY <1>2
<1> QED BY <1>4, <1>5, <1>6, <1>7, <1>8, RunKeeps

-----------------------------------------------------------------------------
(* Every state satisfies the invariant.                                     *)

LEMMA InitHolds == Init => IInv
<1>1. SUFFICES ASSUME Init PROVE IInv
  OBVIOUS
<1>2. /\ entries = <<>> /\ steerQ = <<>> /\ followQ = <<>> /\ pending = <<>>
      /\ hidden = {} /\ pc = "idle" /\ left = 0 /\ attempt = 0 /\ compactions = 0
      /\ shown = {} /\ preflight = {} /\ typed = {} /\ cleared = {} /\ abort = "none"
      /\ customs = 0 /\ shells = 0 /\ notes = 0
      /\ active = FALSE /\ aborted = FALSE /\ threw = FALSE /\ tried = FALSE
  BY <1>1 DEF Init
<1>3. /\ MaxNotes \in Nat /\ MaxRetries \in Nat /\ MaxCompactions \in Nat /\ ToolCalls \in Nat
  BY SessionAssumption, SMT
<1>4. /\ <<>> \in Seq(Messages) /\ <<>> \in Seq(Texts) /\ Len(<<>>) = 0 /\ 1..0 = {}
  BY SMT
<1>5. EntryTypes /\ QueueTypes /\ ResultInv
  BY <1>2, <1>4 DEF EntryTypes, QueueTypes, ResultInv
<1>6. TextTypes
  BY <1>2 DEF TextTypes
<1>7. NoteTypes
  BY <1>2, <1>3, SMT DEF NoteTypes
<1>8. RunTypes
  BY <1>2, <1>3, SMT DEF RunTypes, Pcs
<1>9. FlagTypes
  BY <1>2, Zenon DEF FlagTypes
<1>10. CallInv /\ PendingInv
  BY <1>2 DEF CallInv, PendingInv
<1>11. IdleIsIdle
  BY <1>2, Zenon DEF IdleIsIdle
<1>12. TextInv
  <2>1. SUFFICES ASSUME NEW t \in Texts PROVE Singly(t) /\ Alone(t) /\ ShownAs(t)
    BY Zenon DEF TextInv
  <2>2. Singly(t)
    BY <1>2, NothingIn, Zenon DEF Singly
  <2>3. ~Waiting(t) /\ ~In(t, pending)
    BY <1>2, NothingIn, Zenon DEF Waiting
  <2>4. \A p : ~At(t, p)
    <3>1. /\ ~In(t, steerQ) /\ ~In(t, followQ) /\ ~In(t, pending)
          /\ ~In(User(t), entries) /\ t \notin preflight
      BY <1>2, NothingIn
    <3> QED BY <3>1, Zenon DEF At
  <2>5. Alone(t)
    BY <1>2, <2>4 DEF Alone
  <2>6. ShownAs(t)
    BY <1>2, <2>3 DEF ShownAs
  <2> QED BY <2>2, <2>5, <2>6
<1> QED BY <1>5, <1>6, <1>7, <1>8, <1>9, <1>10, <1>11, <1>12 DEF IInv, Types

LEMMA StutterKeeps ==
  ASSUME IInv, UNCHANGED vars
  PROVE  IInv'
<1>1. EntryTypes /\ QueueTypes /\ TextTypes /\ NoteTypes /\ RunTypes /\ FlagTypes /\ TextInv
  BY DEF IInv, Types
<1>2. /\ entries' = entries /\ hidden' = hidden /\ pc' = pc /\ active' = active
      /\ aborted' = aborted /\ UNCHANGED queueVars /\ left' = left /\ UNCHANGED retryVars
      /\ UNCHANGED noteVars /\ UNCHANGED userVars /\ abort' = abort
      /\ compactions' = compactions /\ threw' = threw
  BY DEF vars
<1>3. /\ steerQ' = steerQ /\ followQ' = followQ /\ pending' = pending /\ shown' = shown
      /\ preflight' = preflight /\ typed' = typed /\ cleared' = cleared
      /\ customs' = customs /\ shells' = shells /\ notes' = notes
      /\ attempt' = attempt /\ tried' = tried
  BY <1>2 DEF queueVars, userVars, noteVars, retryVars
<1>4. EntryTypes' /\ QueueTypes' /\ TextTypes' /\ NoteTypes' /\ RunTypes' /\ ResultInv'
  BY <1>1, <1>2, <1>3 DEF IInv, EntryTypes, QueueTypes, TextTypes, NoteTypes, RunTypes,
                          ResultInv, Follows
<1>5. FlagTypes'
  BY <1>1, <1>2, <1>3, Zenon DEF FlagTypes
<1>6. CallInv' /\ PendingInv' /\ IdleIsIdle'
  BY <1>2, <1>3, Zenon DEF IInv, CallInv, CallAt, PendingInv, IdleIsIdle
<1>7. TextInv'
  <2>1. SameTexts(entries, entries')
    BY <1>2, Zenon DEF SameTexts
  <2> QED BY <1>1, <1>2, <1>3, <2>1, TextsKept
<1> QED BY <1>4, <1>5, <1>6, <1>7 DEF IInv, Types

LEMMA NextKeeps == IInv /\ [Next]_vars => IInv'
<1>1. SUFFICES ASSUME IInv, [Next]_vars PROVE IInv'
  OBVIOUS
<1>2. CASE \E t \in Texts : Prompt(t) \/ StartRun(t) \/ Steer(t) \/ FollowUp(t)
  BY <1>1, <1>2, UserKeeps
<1>3. CASE ClearQueue \/ SendCustomMessage \/ RecordBashResult
  BY <1>1, <1>3, UserKeeps
<1>4. CASE Abort \/ Inject
  BY <1>1, <1>4, AbortKeeps, InjectKeeps
<1>5. CASE \E stop \in Stops : Respond(stop)
  BY <1>1, <1>5, RespondKeeps
<1>6. CASE ToolResult \/ TurnEnd \/ PrepareNextTurn
  BY <1>1, <1>6, ToolResultKeeps, TurnEndKeeps, PrepareKeeps
<1>7. CASE PrepareRetry \/ Retry \/ PostRun
  BY <1>1, <1>7, RetryKeeps, PostRunKeeps
<1>8. CASE CompactionEnds \/ CompactBeforePrompt
  BY <1>1, <1>8, CompactionEndsKeeps, CompactBeforePromptKeeps
<1>9. CASE UNCHANGED vars
  BY <1>1, <1>9, StutterKeeps
<1> QED BY <1>1, <1>2, <1>3, <1>4, <1>5, <1>6, <1>7, <1>8, <1>9, Zenon DEF Next

LEMMA AlwaysIInv == Spec => []IInv
BY InitHolds, NextKeeps, PTL DEF Spec

-----------------------------------------------------------------------------
(* What the invariant implies.                                              *)

LEMMA EntriesTyped ==
  ASSUME EntryTypes, ResultInv, NEW i \in 1..Len(entries)
  PROVE  entries[i] \in {User(t) : t \in Texts} \cup {Assistant(s) : s \in Stops}
                        \cup {Result(j) : j \in 1..i} \cup {Custom, Shell}
<1>1. entries[i] \in Messages /\ i \in Nat
  BY SMT DEF EntryTypes
<1>2. CASE entries[i] \in {Result(j) : j \in Nat}
  <2>1. PICK j \in Nat : entries[i] = Result(j)
    BY <1>2
  <2>2. entries[i].role = "result" /\ entries[i].of = j
    BY <2>1, MessagesAre
  <2>3. i > 1 /\ j \in 1..(i - 1)
    BY <2>2 DEF ResultInv, Follows
  <2>4. j \in 1..i
    BY <1>1, <2>3, SMT
  <2> QED BY <2>1, <2>4
<1> QED BY <1>1, <1>2, Zenon DEF Messages

LEMMA TypesHold == IInv => TypeOK
<1>1. SUFFICES ASSUME IInv PROVE TypeOK
  OBVIOUS
<1>2. EntryTypes /\ QueueTypes /\ TextTypes /\ NoteTypes /\ RunTypes /\ FlagTypes /\ ResultInv
  BY <1>1 DEF IInv, Types
<1>3. DOMAIN entries = 1..Len(entries)
  BY <1>2, SMT DEF EntryTypes
<1>4. \A i \in DOMAIN entries :
        entries[i] \in {User(t) : t \in Texts} \cup {Assistant(s) : s \in Stops}
                       \cup {Result(j) : j \in 1..i} \cup {Custom, Shell}
  BY <1>2, <1>3, EntriesTyped
<1>5. /\ hidden \subseteq DOMAIN entries
      /\ pc \in {"idle", "inject", "stream", "tools", "turnEnd", "prepare", "post",
                 "sleep", "cancelled", "overflow", "threshold"}
      /\ left \in 0..ToolCalls /\ attempt \in 0..MaxRetries
      /\ abort \in {"none", "waiting", "returned"} /\ compactions \in 0..MaxCompactions
  BY <1>2, <1>3, Zenon DEF RunTypes, Pcs
<1>6. {steerQ, followQ, pending} \subseteq Seq(Texts)
  BY <1>2, Zenon DEF QueueTypes
<1>7. {shown, preflight, typed, cleared} \subseteq SUBSET Texts
  <2>1. cleared \subseteq Texts
    BY <1>2 DEF TextTypes
  <2> QED BY <1>2, <2>1, Zenon DEF TextTypes
<1>8. {customs, shells, notes} \subseteq 0..MaxNotes
  <2>1. customs \in 0..MaxNotes /\ shells \in 0..MaxNotes /\ notes \in 0..MaxNotes
    BY <1>2, SessionAssumption, SMT DEF NoteTypes
  <2> QED BY <2>1
<1> QED BY <1>2, <1>4, <1>5, <1>6, <1>7, <1>8, Zenon DEF TypeOK, FlagTypes

LEMMA QueueIsShown == IInv => QueueShown
<1>1. SUFFICES ASSUME IInv PROVE QueueShown
  OBVIOUS
<1>2. QueueTypes /\ TextTypes /\ TextInv
  BY <1>1 DEF IInv, Types
<1>3. PICK W : W = ToSet(steerQ) \cup ToSet(followQ)
  OBVIOUS
<1>4. /\ \A t : t \in ToSet(steerQ) <=> In(t, steerQ)
      /\ \A t : t \in ToSet(followQ) <=> In(t, followQ)
      /\ \A t : t \in ToSet(pending) <=> In(t, pending)
      /\ ToSet(steerQ) \subseteq Texts /\ ToSet(followQ) \subseteq Texts
      /\ ToSet(pending) \subseteq Texts
  BY <1>2, ToSetIs DEF QueueTypes
<1>5. \A t : t \in W <=> t \in Texts /\ Waiting(t)
  BY <1>3, <1>4, Zenon DEF Waiting
<1>6. \A t \in Texts : ShownAs(t)
  BY <1>2, Zenon DEF TextInv
<1>7. ASSUME NEW t \in W PROVE t \in shown
  BY <1>5, <1>6, Zenon DEF ShownAs
<1>8. ASSUME NEW t
      PROVE  t \in shown <=> t \in (W \cup ToSet(pending)) \ cleared
  <2>1. t \in shown => t \in Texts
    BY <1>2 DEF TextTypes
  <2>2. t \in W \cup ToSet(pending) => t \in Texts
    BY <1>4, <1>5
  <2>3. t \in Texts => (t \in shown <=> (Waiting(t) \/ In(t, pending)) /\ t \notin cleared)
    BY <1>6, Zenon DEF ShownAs
  <2> QED BY <1>4, <1>5, <2>1, <2>2, <2>3
<1>9. shown = (W \cup ToSet(pending)) \ cleared
  BY <1>8
<1> QED BY <1>3, <1>7, <1>9, Zenon DEF QueueShown

(* Counting what is there once.                                             *)
LEMMA CountIs ==
  ASSUME NEW V, NEW q \in Seq(V), NEW x, Once(x, q)
  PROVE  Count(q, x) = IF In(x, q) THEN 1 ELSE 0
<1>1. DOMAIN q = 1..Len(q)
  BY SMT
<1>2. PICK S : S = {i \in DOMAIN q : q[i] = x}
  OBVIOUS
<1>3. Count(q, x) = Cardinality(S)
  BY <1>2 DEF Count
<1>4. CASE In(x, q)
  <2>1. PICK i \in 1..Len(q) : q[i] = x
    BY <1>4 DEF In
  <2>2. S = {i}
    BY <1>1, <1>2, <2>1 DEF Once
  <2> QED BY <1>3, <1>4, <2>2, FS_Singleton
<1>5. CASE ~In(x, q)
  <2>1. S = {}
    BY <1>1, <1>2, <1>5 DEF In
  <2> QED BY <1>3, <1>5, <2>1, FS_EmptySet
<1> QED BY <1>4, <1>5

LEMMA DeliveredOnceHolds == IInv => DeliveredOnce
<1>1. SUFFICES ASSUME IInv, NEW t \in typed
               PROVE  IF t \in cleared THEN OnePlace(t) <= 1 ELSE OnePlace(t) = 1
  BY Zenon DEF DeliveredOnce
<1>2. EntryTypes /\ QueueTypes /\ TextTypes /\ TextInv
  BY <1>1 DEF IInv, Types
<1>3. t \in Texts
  BY <1>2 DEF TextTypes
<1>4. PICK a, b, c, d, e :
        /\ a = Count(steerQ, t) /\ b = Count(followQ, t) /\ c = Count(pending, t)
        /\ d = Count(entries, User(t)) /\ e = IF t \in preflight THEN 1 ELSE 0
  OBVIOUS
<1>5. /\ Once(t, steerQ) /\ Once(t, followQ) /\ Once(t, pending) /\ Once(User(t), entries)
      /\ ~(In(t, steerQ) /\ In(t, followQ))
      /\ In(t, steerQ) \/ In(t, followQ) => ~In(t, pending) /\ t \notin preflight
      /\ In(User(t), entries) => /\ ~In(t, steerQ) /\ ~In(t, followQ)
                                 /\ ~In(t, pending) /\ t \notin preflight
      /\ In(t, pending) => t \notin preflight
  BY <1>2, <1>3, OneOf
<1>6. /\ a = IF In(t, steerQ) THEN 1 ELSE 0
      /\ b = IF In(t, followQ) THEN 1 ELSE 0
      /\ c = IF In(t, pending) THEN 1 ELSE 0
      /\ d = IF In(User(t), entries) THEN 1 ELSE 0
  BY <1>2, <1>4, <1>5, CountIs DEF EntryTypes, QueueTypes
<1>7. a + b + c + d + e <= 1
  BY <1>4, <1>5, <1>6, SMT
<1>8. t \notin cleared => \/ In(t, steerQ) \/ In(t, followQ) \/ In(t, pending)
                          \/ In(User(t), entries) \/ t \in preflight
  <2>1. Alone(t)
    BY <1>2, <1>3, Zenon DEF TextInv
  <2> QED BY <2>1, SMT DEF Alone, At, Places
<1>9. t \notin cleared => a + b + c + d + e = 1
  BY <1>4, <1>5, <1>6, <1>8, SMT
<1>10. OnePlace(t) = a + b + c + d + e
  BY <1>4 DEF OnePlace
<1> QED BY <1>7, <1>9, <1>10

LEMMA ResultsHold == IInv => ResultsFollowCalls
<1>1. SUFFICES ASSUME IInv, NEW i \in DOMAIN entries, entries[i].role = "result"
               PROVE  entries[i].of = i - 1 \/ entries[i - 1] = entries[i]
  BY DEF ResultsFollowCalls
<1>2. i \in 1..Len(entries)
  BY <1>1, SMT DEF IInv, Types, EntryTypes
<1> QED BY <1>1, <1>2 DEF IInv, ResultInv, Follows

-----------------------------------------------------------------------------
(* The theorems.                                                            *)

(* The state is typed; a session without a run is idle and holds nothing    *)
(* that waited for the end of one; and the queue that the user is shown is  *)
(* the texts that will still be delivered, in every state, whatever runs,   *)
(* retries, compactions and aborts do (agent-session.ts 647-668, 925-928,   *)
(* 1586-1599).                                                              *)
THEOREM SessionConsistent == Spec => []Consistent
<1>1. IInv => Consistent
  BY TypesHold, QueueIsShown DEF Consistent, IInv
<1> QED BY <1>1, AlwaysIInv, PTL

(* The results of tools follow the response that called them: nothing that  *)
(* users, extensions and shell commands add while tools run comes between   *)
(* (agent-session.ts 1388-1410, 1506-1512, 3028-3031).                      *)
THEOREM ResultsFollow == Spec => []ResultsFollowCalls
BY AlwaysIInv, ResultsHold, PTL

(* Every text that was submitted is on its way to a run, in a queue, taken  *)
(* from one for the next turn, or in the transcript, once and in one of     *)
(* them; only one that was cleared from a queue may be in none              *)
(* (agent.ts 123-150, 341-369; agent-loop.ts 165-260).                      *)
THEOREM TextsDeliveredOnce == Spec => []DeliveredOnce
BY AlwaysIInv, DeliveredOnceHolds, PTL

-----------------------------------------------------------------------------
(* When Agent.continue() finds something to continue from.                  *)

(* Of the messages of s those in h are hidden; the last that is not is the  *)
(* model's, and this and what precedes it.                                  *)
LastAssistant(s, h, i) ==
  /\ i \in 1..Len(s) /\ i \notin h /\ s[i].role = "assistant"
  /\ \A j \in (i + 1)..Len(s) : j \in h
AssistantLast(s, h) == \E i \in 1..Len(s) : LastAssistant(s, h, i)
OneAssistant(s, h) ==
  \A i \in 1..Len(s) : LastAssistant(s, h, i) => ~AssistantLast(s, h \cup {i})
Shows(s, h) == Len(s) # 0 /\ Len(s) \notin h

(* A run whose messages end in one of the model's asks it for no other,     *)
(* unless it has hidden that one; what is hidden is older than the run.     *)
TurnInv ==
  /\ pc \in {"tools", "turnEnd", "prepare", "post"} => Shows(entries, hidden)
  /\ pc = "prepare" => pending # <<>> \/ ~AssistantLast(entries, {})
  /\ pc = "inject" => pending # <<>> \/ ~AssistantLast(entries, hidden)
  /\ pc \in {"stream", "sleep"} => ~AssistantLast(entries, hidden)
  /\ pc \in {"tools", "turnEnd", "post"} => OneAssistant(entries, hidden)

(* Without retries an overflow that is recovered from follows no message of *)
(* the model in the session either: it is the first since a text, a result  *)
(* or a note.                                                               *)
Doubled(s) ==
  /\ Len(s) > 1 /\ s[Len(s)].role = "assistant" /\ s[Len(s)].stop = "overflow"
  /\ s[Len(s) - 1].role = "assistant"
OverflowLast(s) ==
  Len(s) # 0 /\ (s[Len(s)].role = "assistant" => s[Len(s)].stop = "overflow")
OverflowInv ==
  /\ pc \notin {"sleep", "cancelled"}
  /\ pc = "inject" => pending # <<>> \/ tried \/ ~AssistantLast(entries, {})
  /\ pc = "stream" => tried \/ ~AssistantLast(entries, {})
  /\ pc \in {"tools", "turnEnd", "post"} => tried \/ ~Doubled(entries)
  /\ pc = "threshold" => Shows(entries, hidden)
  /\ pc = "overflow" => tried /\ ~Doubled(entries) /\ OverflowLast(entries)

ContinueInv ==
  /\ TurnInv /\ (MaxRetries = 0 => OverflowInv)
  /\ MaxRetries = 0 \/ MaxCompactions = 0 => ~threw

LEMMA LastIs ==
  ASSUME EntryTypes, NEW h, h \subseteq 1..Len(entries)
  PROVE  /\ LastRole(h) = "assistant" <=> AssistantLast(entries, h)
         /\ AssistantLast(entries, h)
            => /\ LastAssistant(entries, h, Max(Visible(h)))
               /\ WithoutLastAssistant(h) = h \cup {Max(Visible(h))}
         /\ ~AssistantLast(entries, h) => WithoutLastAssistant(h) = h
<1>1. Len(entries) \in Nat /\ DOMAIN entries = 1..Len(entries)
  BY SMT DEF EntryTypes
<1>2. \A i : i \in Visible(h) <=> i \in 1..Len(entries) /\ i \notin h
  BY <1>1 DEF Visible
<1>3. CASE Visible(h) = {}
  <2>1. LastRole(h) # "assistant"
    BY <1>3 DEF LastRole
  <2>2. ~AssistantLast(entries, h)
    BY <1>2, <1>3 DEF AssistantLast, LastAssistant
  <2> QED BY <2>1, <2>2 DEF WithoutLastAssistant
<1>4. CASE Visible(h) # {}
  <2>1. PICK m : m = Max(Visible(h))
    OBVIOUS
  <2>2. Visible(h) \subseteq 1..Len(entries)
    BY <1>2
  <2>3. m \in Visible(h) /\ \A y \in Visible(h) : y <= m
    BY <1>1, <1>4, <2>1, <2>2, MaxIs
  <2>4. LastRole(h) = entries[m].role
    BY <1>4, <2>1, Zenon DEF LastRole
  <2>5. \A j \in (m + 1)..Len(entries) : j \in h
    <3>1. SUFFICES ASSUME NEW j \in (m + 1)..Len(entries), j \notin h PROVE FALSE
      OBVIOUS
    <3>2. j \in 1..Len(entries)
      BY <1>1, <1>2, <2>3, SMT
    <3>3. j <= m
      BY <1>2, <2>3, <3>1, <3>2
    <3> QED BY <1>1, <1>2, <2>3, <3>3, SMT
  <2>6. entries[m].role = "assistant" => LastAssistant(entries, h, m)
    BY <1>2, <2>3, <2>5 DEF LastAssistant
  <2>7. ASSUME NEW i \in 1..Len(entries), LastAssistant(entries, h, i) PROVE i = m
    <3>1. i \in Visible(h) /\ \A j \in (i + 1)..Len(entries) : j \in h
      BY <1>2, <2>7 DEF LastAssistant
    <3>2. i <= m /\ m \in 1..Len(entries) /\ m \notin h
      BY <1>2, <2>3, <3>1
    <3>3. m \notin (i + 1)..Len(entries)
      BY <3>1, <3>2
    <3> QED BY <1>1, <3>2, <3>3, SMT
  <2>8. AssistantLast(entries, h) => entries[m].role = "assistant"
    BY <2>7 DEF AssistantLast, LastAssistant
  <2>9. entries[m].role = "assistant" => AssistantLast(entries, h)
    BY <1>2, <2>3, <2>6 DEF AssistantLast
  <2> QED BY <2>1, <2>4, <2>6, <2>8, <2>9, Zenon DEF WithoutLastAssistant
<1> QED BY <1>3, <1>4

(* What is hidden hides the last message, or does not matter.               *)
LEMMA ShowsLast ==
  ASSUME NEW s \in Seq(Messages), NEW h
  PROVE  /\ Shows(s, h) => (AssistantLast(s, h) <=> s[Len(s)].role = "assistant")
         /\ Shows(s, h) => \A i \in 1..Len(s) : LastAssistant(s, h, i) => i = Len(s)
         /\ Len(s) = 0 => ~AssistantLast(s, h)
<1>1. Len(s) \in Nat
  BY SMT
<1>2. ASSUME Shows(s, h), NEW i \in 1..Len(s), LastAssistant(s, h, i) PROVE i = Len(s)
  <2>1. Len(s) \notin h /\ \A j \in (i + 1)..Len(s) : j \in h
    BY <1>2, Zenon DEF Shows, LastAssistant
  <2>2. Len(s) \notin (i + 1)..Len(s)
    BY <2>1
  <2> QED BY <1>1, <2>2, SMT
<1>3. ASSUME Shows(s, h), s[Len(s)].role = "assistant" PROVE AssistantLast(s, h)
  <2>1. Len(s) \in 1..Len(s) /\ (Len(s) + 1)..Len(s) = {} /\ Len(s) \notin h
    BY <1>1, <1>3, SMT DEF Shows
  <2>2. LastAssistant(s, h, Len(s))
    BY <1>3, <2>1, Zenon DEF LastAssistant
  <2> QED BY <2>1, <2>2, Zenon DEF AssistantLast
<1>4. ASSUME Shows(s, h), AssistantLast(s, h) PROVE s[Len(s)].role = "assistant"
  <2>1. PICK i \in 1..Len(s) : LastAssistant(s, h, i)
    BY <1>4, Zenon DEF AssistantLast
  <2>2. i = Len(s)
    BY <1>2, <1>4, <2>1
  <2> QED BY <2>1, <2>2, Zenon DEF LastAssistant
<1>5. ASSUME Len(s) = 0 PROVE ~AssistantLast(s, h)
  <2>1. 1..Len(s) = {}
    BY <1>5, SMT
  <2> QED BY <2>1, Zenon DEF AssistantLast
<1> QED BY <1>2, <1>3, <1>4, <1>5

LEMMA OpenIs ==
  ASSUME NEW s \in Seq(Messages), NEW h, Shows(s, h)
  PROVE  AssistantLast(s, h) <=> AssistantLast(s, {})
<1>1. Shows(s, {})
  BY DEF Shows
<1> QED BY <1>1, ShowsLast

(* Messages that are not the model's are added, or none are.                *)
Plain(s, r) ==
  r = s \/ (r \in Seq(Messages) /\ Len(s) < Len(r) /\ r[Len(r)].role # "assistant")

LEMMA PlainShows ==
  ASSUME NEW s \in Seq(Messages), NEW r, Plain(s, r), r # s, NEW h, h \subseteq 1..Len(s)
  PROVE  Shows(r, h) /\ ~AssistantLast(r, h) /\ OneAssistant(r, h) /\ ~Doubled(r)
<1>1. /\ r \in Seq(Messages) /\ Len(s) < Len(r) /\ r[Len(r)].role # "assistant"
      /\ Len(s) \in Nat /\ Len(r) \in Nat
  BY SMT DEF Plain
<1>2. Len(r) # 0 /\ Len(r) \notin h
  BY <1>1, SMT
<1>3. Shows(r, h)
  BY <1>2 DEF Shows
<1>4. ~AssistantLast(r, h)
  BY <1>1, <1>3, ShowsLast
<1> QED BY <1>1, <1>3, <1>4, Zenon DEF OneAssistant, AssistantLast, Doubled

LEMMA PlainIs ==
  ASSUME NEW s \in Seq(Messages), NEW x \in Seq(Messages),
         \A i \in 1..Len(x) : x[i].role # "assistant"
  PROVE  Plain(s, s \o x) /\ (x # <<>> => s \o x # s)
<1>1. PICK r : r = s \o x
  OBVIOUS
<1>2. /\ r \in Seq(Messages) /\ Len(r) = Len(s) + Len(x)
      /\ Len(s) \in Nat /\ Len(x) \in Nat
      /\ \A k \in (Len(s) + 1)..(Len(s) + Len(x)) : r[k] = x[k - Len(s)]
  BY <1>1, ConcatIs
<1>3. CASE Len(x) = 0
  <2>1. x = <<>>
    BY <1>3, SMT
  <2>2. r = s
    BY <1>1, <2>1, SMT
  <2> QED BY <1>1, <2>1, <2>2 DEF Plain
<1>4. CASE Len(x) # 0
  <2>1. /\ Len(s) < Len(r) /\ Len(r) \in (Len(s) + 1)..(Len(s) + Len(x))
        /\ Len(r) - Len(s) \in 1..Len(x)
    BY <1>2, <1>4, SMT
  <2>2. r[Len(r)].role # "assistant"
    BY <1>2, <2>1
  <2>3. r # s
    BY <1>2, <2>1, SMT
  <2> QED BY <1>1, <1>2, <2>1, <2>2, <2>3 DEF Plain
<1> QED BY <1>3, <1>4

LEMMA CustomsPlain ==
  ASSUME EntryTypes, NoteTypes, NEW s \in Seq(Messages)
  PROVE  Plain(s, s \o Customs)
<1>1. PICK x : x = Customs
  OBVIOUS
<1>2. x \in Seq(Messages)
  BY <1>1, NotesAre DEF Added
<1>3. /\ customs \in Nat /\ x = [i \in 1..customs |-> Custom]
  BY <1>1 DEF Customs, NoteTypes
<1>4. Len(x) = customs
  BY <1>2, <1>3, SMT
<1>5. \A i \in 1..Len(x) : x[i].role # "assistant"
  BY <1>3, <1>4, MessagesAre
<1> QED BY <1>1, <1>2, <1>5, PlainIs

LEMMA DeliverPlain ==
  ASSUME EntryTypes, NEW q \in Seq(Texts), Deliver(q)
  PROVE  Plain(entries, entries') /\ (q # <<>> => entries' # entries)
<1>1. PICK x : x = Users(q)
  OBVIOUS
<1>2. x \in Seq(Messages) /\ entries \in Seq(Messages) /\ entries' = entries \o x
  BY <1>1, UsersAre DEF Added, EntryTypes, Deliver
<1>3. DOMAIN q = 1..Len(q) /\ x = [i \in DOMAIN q |-> User(q[i])] /\ Len(q) \in Nat
  BY <1>1, SMT DEF Users
<1>4. Len(x) = Len(q)
  BY <1>2, <1>3, SMT
<1>5. \A i \in 1..Len(x) : x[i].role # "assistant"
  BY <1>3, <1>4, MessagesAre
<1>6. q # <<>> => x # <<>>
  BY <1>2, <1>4, SMT
<1> QED BY <1>2, <1>5, <1>6, PlainIs


(* Nothing that matters here changes.                                       *)
LEMMA SameOpens ==
  ASSUME ContinueInv, UNCHANGED <<entries, hidden, pc, pending, tried, threw>>
  PROVE  ContinueInv'
<1>1. /\ entries' = entries /\ hidden' = hidden /\ pc' = pc /\ pending' = pending
      /\ tried' = tried /\ threw' = threw
  OBVIOUS
<1>2. TurnInv => TurnInv'
  BY <1>1, Zenon DEF TurnInv
<1>3. ASSUME OverflowInv PROVE OverflowInv'
  <2>1. /\ pc \notin {"sleep", "cancelled"}
        /\ pc = "inject" => pending # <<>> \/ tried \/ ~AssistantLast(entries, {})
        /\ pc = "stream" => tried \/ ~AssistantLast(entries, {})
        /\ pc \in {"tools", "turnEnd", "post"} => tried \/ ~Doubled(entries)
        /\ pc = "threshold" => Shows(entries, hidden)
        /\ pc = "overflow" => tried /\ ~Doubled(entries) /\ OverflowLast(entries)
    BY <1>3, Zenon DEF OverflowInv
  <2>2. /\ pc' \notin {"sleep", "cancelled"}
        /\ pc' = "inject" => pending' # <<>> \/ tried' \/ ~AssistantLast(entries', {})
        /\ pc' = "stream" => tried' \/ ~AssistantLast(entries', {})
        /\ pc' \in {"tools", "turnEnd", "post"} => tried' \/ ~Doubled(entries')
        /\ pc' = "threshold" => Shows(entries', hidden')
        /\ pc' = "overflow" => tried' /\ ~Doubled(entries') /\ OverflowLast(entries')
    BY <1>1, <2>1
  <2> QED BY <2>2, Zenon DEF OverflowInv
<1>4. TurnInv' /\ (MaxRetries = 0 => OverflowInv')
  BY <1>2, <1>3, Zenon DEF ContinueInv
<1>5. MaxRetries = 0 \/ MaxCompactions = 0 => ~threw'
  <2>1. MaxRetries = 0 \/ MaxCompactions = 0 => ~threw
    BY Zenon DEF ContinueInv
  <2>2. threw' = threw
    BY <1>1
  <2> QED BY <2>1, <2>2
<1> QED BY <1>4, <1>5, Zenon DEF ContinueInv

LEMMA IdleOpens ==
  ASSUME ContinueInv, pc' = "idle", MaxRetries = 0 \/ MaxCompactions = 0 => ~threw'
  PROVE  ContinueInv'
<1>1. TurnInv'
  BY DEF TurnInv
<1>2. OverflowInv'
  BY DEF OverflowInv
<1> QED BY <1>1, <1>2, Zenon DEF ContinueInv

LEMMA DrainedSome ==
  ASSUME NEW q \in Seq(Texts), q # <<>>
  PROVE  Drained(q) # <<>> /\ Drained(q) \in Seq(Texts)
<1>1. PICK x : x = <<Head(q)>>
  OBVIOUS
<1>2. x # <<>>
  BY <1>1, SMT
<1> QED BY <1>1, <1>2, DrainIs DEF Drained

(* A run begins with a text, or with messages the model has not answered.   *)
LEMMA BeginOpens ==
  ASSUME IInv, ContinueInv, threw' = threw,
         NEW q \in Seq(Texts), NEW steer, NEW follow, NEW poll,
         NEW h, h \subseteq 1..Len(entries), Begin(q, steer, follow, poll, h),
         q # <<>> \/ ~AssistantLast(entries, h),
         MaxRetries = 0 => q # <<>> \/ tried \/ ~AssistantLast(entries, {})
  PROVE  ContinueInv'
<1>1. /\ Deliver(q) /\ hidden' = h /\ pc' = "inject"
  BY DEF Begin
<1>2. EntryTypes /\ entries \in Seq(Messages) /\ {} \subseteq 1..Len(entries)
  BY DEF IInv, Types, EntryTypes
<1>3. /\ Plain(entries, entries') /\ (q # <<>> => entries' # entries)
  BY <1>1, <1>2, DeliverPlain
<1>4. entries' # entries => ~AssistantLast(entries', h) /\ ~AssistantLast(entries', {})
  BY <1>2, <1>3, PlainShows
<1>5. entries' = entries => q = <<>> /\ tried' = tried
  <2>1. tried' = IF q = <<>> THEN tried ELSE FALSE
    BY <1>1, Zenon DEF Deliver
  <2> QED BY <1>3, <2>1, Zenon
<1>6. ~AssistantLast(entries', h)
  BY <1>4, <1>5, Zenon
<1>7. MaxRetries = 0 => tried' \/ ~AssistantLast(entries', {})
  BY <1>4, <1>5, Zenon
<1>8. TurnInv'
  BY <1>1, <1>6 DEF TurnInv
<1>9. MaxRetries = 0 => OverflowInv'
  <2>1. /\ pc' \notin {"sleep", "cancelled", "stream", "tools", "turnEnd", "post",
                       "threshold", "overflow"}
    BY <1>1
  <2> QED BY <1>7, <2>1, Zenon DEF OverflowInv
<1> QED BY <1>8, <1>9, Zenon DEF ContinueInv

(* Agent.continue() finds something to continue from.                       *)
LEMMA ContinueOpens ==
  ASSUME IInv, ContinueInv, NEW h, h \subseteq 1..Len(entries), Continue(h),
         MaxRetries = 0 \/ MaxCompactions = 0 => HasQueued \/ ~AssistantLast(entries, h),
         MaxRetries = 0 /\ ~AssistantLast(entries, h)
           => tried \/ ~AssistantLast(entries, {})
  PROVE  ContinueInv'
<1>1. EntryTypes /\ steerQ \in Seq(Texts) /\ followQ \in Seq(Texts)
  BY DEF IInv, Types, QueueTypes
<1>2. LastRole(h) = "assistant" <=> AssistantLast(entries, h)
  BY <1>1, LastIs
<1>3. CASE /\ steerQ # <<>> /\ threw' = threw
           /\ Begin(Drained(steerQ), Rest(steerQ), followQ, FALSE, h)
  <2>1. PICK d, p : d = Drained(steerQ) /\ p = FALSE
    OBVIOUS
  <2>2. d \in Seq(Texts) /\ d # <<>>
    BY <1>1, <1>3, <2>1, DrainedSome
  <2>3. Begin(d, Rest(steerQ), followQ, p, h)
    BY <1>3, <2>1
  <2>4. threw' = threw
    BY <1>3
  <2> QED BY <2>2, <2>3, <2>4, BeginOpens
<1>4. CASE /\ followQ # <<>> /\ threw' = threw
           /\ Begin(Drained(followQ), steerQ, Rest(followQ), TRUE, h)
  <2>1. PICK d, p : d = Drained(followQ) /\ p = TRUE
    OBVIOUS
  <2>2. d \in Seq(Texts) /\ d # <<>>
    BY <1>1, <1>4, <2>1, DrainedSome
  <2>3. Begin(d, steerQ, Rest(followQ), p, h)
    BY <1>4, <2>1
  <2>4. threw' = threw
    BY <1>4
  <2> QED BY <2>2, <2>3, <2>4, BeginOpens
<1>5. CASE LastRole(h) = "assistant" /\ ~HasQueued /\ Settle(h)
  <2>1. pc' = "idle"
    BY <1>5 DEF Settle
  <2>2. ~(MaxRetries = 0 \/ MaxCompactions = 0)
    BY <1>2, <1>5
  <2> QED BY <2>1, <2>2, IdleOpens
<1>6. CASE /\ LastRole(h) # "assistant" /\ threw' = threw
           /\ Begin(<<>>, steerQ, followQ, TRUE, h)
  <2>1. PICK d, p : d = <<>> /\ p = TRUE
    OBVIOUS
  <2>2. d \in Seq(Texts)
    BY <2>1, SMT
  <2>3. Begin(d, steerQ, followQ, p, h)
    BY <1>6, <2>1
  <2>4. ~AssistantLast(entries, h) /\ threw' = threw
    BY <1>2, <1>6
  <2>5. MaxRetries = 0 => tried \/ ~AssistantLast(entries, {})
    BY <2>4, Zenon
  <2> QED BY <2>2, <2>3, <2>4, <2>5, BeginOpens
<1> QED BY <1>3, <1>4, <1>5, <1>6, Zenon DEF Continue

LEMMA ContinueIfQueuedOpens ==
  ASSUME IInv, ContinueInv, NEW h, h \subseteq 1..Len(entries), ContinueIfQueued(h),
         MaxRetries = 0 /\ ~AssistantLast(entries, h)
           => tried \/ ~AssistantLast(entries, {})
  PROVE  ContinueInv'
<1>1. CASE HasQueued
  <2>1. Continue(h)
    BY <1>1 DEF ContinueIfQueued
  <2> QED BY <1>1, <2>1, ContinueOpens
<1>2. CASE ~HasQueued
  <2>1. Settle(h) /\ threw' = threw
    BY <1>2 DEF ContinueIfQueued
  <2>2. pc' = "idle"
    BY <2>1 DEF Settle
  <2>3. MaxRetries = 0 \/ MaxCompactions = 0 => ~threw'
    BY <2>1, Zenon DEF ContinueInv
  <2> QED BY <2>2, <2>3, IdleOpens
<1> QED BY <1>1, <1>2

(* What users, extensions and shell commands do: in a run they add nothing  *)
(* to the transcript, and what they do without one changes nothing here.    *)
LEMMA UserOpens ==
  ASSUME IInv, ContinueInv, NEW t,
         \/ Prompt(t) \/ StartRun(t) \/ Steer(t) \/ FollowUp(t) \/ ClearQueue
         \/ SendCustomMessage \/ RecordBashResult \/ Abort
  PROVE  ContinueInv'
<1>1. IdleIsIdle /\ EntryTypes /\ hidden \subseteq 1..Len(entries)
  BY DEF IInv, Types, RunTypes
<1>2. ASSUME pc = "idle", pc' = pc, threw' = threw PROVE ContinueInv'
  <2>1. MaxRetries = 0 \/ MaxCompactions = 0 => ~threw'
    BY <1>2, Zenon DEF ContinueInv
  <2> QED BY <1>2, <2>1, IdleOpens
<1>3. CASE Prompt(t)
  <2>1. ~active /\ pc' = pc /\ threw' = threw
    BY <1>3 DEF Prompt
  <2> QED BY <1>1, <1>2, <2>1, Zenon DEF IdleIsIdle
<1>4. CASE StartRun(t)
  <2>1. PICK q, p : q = <<t>> /\ p = TRUE
    OBVIOUS
  <2>2. q \in Seq(Texts) /\ q # <<>>
    <3>1. t \in Texts
      BY <1>4 DEF StartRun, IInv, Types, TextTypes
    <3> QED BY <2>1, <3>1, SMT
  <2>3. Begin(q, steerQ, followQ, p, hidden) /\ threw' = threw
    BY <1>4, <2>1 DEF StartRun
  <2> QED BY <1>1, <2>2, <2>3, BeginOpens
<1>5. CASE Steer(t) \/ FollowUp(t) \/ ClearQueue
  <2>1. UNCHANGED <<entries, hidden, pc, pending, tried, threw>>
    BY <1>5 DEF Steer, FollowUp, ClearQueue, retryVars
  <2> QED BY <2>1, SameOpens
<1>6. CASE SendCustomMessage \/ RecordBashResult
  <2>1. /\ hidden' = hidden /\ pc' = pc /\ pending' = pending /\ tried' = tried
        /\ threw' = threw /\ (active => entries' = entries)
    BY <1>6 DEF SendCustomMessage, RecordBashResult, queueVars, retryVars
  <2>2. CASE active
    BY <2>1, <2>2, SameOpens
  <2>3. CASE ~active
    BY <1>1, <1>2, <2>1, <2>3, Zenon DEF IdleIsIdle
  <2> QED BY <2>2, <2>3
<1>7. CASE Abort
  <2>1. /\ pc' = (IF pc = "sleep" THEN "cancelled" ELSE pc)
        /\ entries' = entries /\ hidden' = hidden /\ pending' = pending /\ tried' = tried
        /\ threw' = threw
    BY <1>7 DEF Abort, queueVars, retryVars
  <2>2. CASE pc # "sleep"
    BY <2>1, <2>2, SameOpens
  <2>3. CASE pc = "sleep"
    <3>1. pc' = "cancelled"
      BY <2>1, <2>3
    <3>2. TurnInv'
      BY <3>1 DEF TurnInv
    <3>3. MaxRetries # 0
      BY <2>3, Zenon DEF ContinueInv, OverflowInv
    <3>4. MaxRetries = 0 \/ MaxCompactions = 0 => ~threw
      BY Zenon DEF ContinueInv
    <3>5. MaxRetries = 0 \/ MaxCompactions = 0 => ~threw'
      BY <2>1, <3>4
    <3> QED BY <3>2, <3>3, <3>5, Zenon DEF ContinueInv
  <2> QED BY <2>2, <2>3
<1> QED BY <1>3, <1>4, <1>5, <1>6, <1>7

LEMMA InjectOpens ==
  ASSUME IInv, ContinueInv, Inject
  PROVE  ContinueInv'
<1>1. EntryTypes /\ pending \in Seq(Texts) /\ hidden \subseteq 1..Len(entries)
  BY DEF IInv, Types, QueueTypes, RunTypes
<1>2. /\ pc = "inject" /\ pc' = "stream" /\ Deliver(pending) /\ hidden' = hidden
      /\ threw' = threw
  BY DEF Inject
<1>3. entries \in Seq(Messages) /\ {} \subseteq 1..Len(entries)
  BY <1>1 DEF EntryTypes
<1>4. Plain(entries, entries') /\ (pending # <<>> => entries' # entries)
  BY <1>1, <1>2, DeliverPlain
<1>5. entries' # entries => ~AssistantLast(entries', hidden) /\ ~AssistantLast(entries', {})
  BY <1>1, <1>3, <1>4, PlainShows
<1>6. entries' = entries => pending = <<>> /\ tried' = tried
  <2>1. tried' = IF pending = <<>> THEN tried ELSE FALSE
    BY <1>2, Zenon DEF Deliver
  <2> QED BY <1>4, <2>1, Zenon
<1>7. TurnInv'
  <2>1. pending # <<>> \/ ~AssistantLast(entries, hidden)
    BY <1>2, Zenon DEF ContinueInv, TurnInv
  <2>2. ~AssistantLast(entries', hidden)
    BY <1>5, <1>6, <2>1, Zenon
  <2> QED BY <1>2, <2>2 DEF TurnInv
<1>8. MaxRetries = 0 => OverflowInv'
  <2>1. MaxRetries = 0 => pending # <<>> \/ tried \/ ~AssistantLast(entries, {})
    BY <1>2, Zenon DEF ContinueInv, OverflowInv
  <2>2. MaxRetries = 0 => tried' \/ ~AssistantLast(entries', {})
    <3>1. CASE entries' # entries
      BY <1>5, <3>1, Zenon
    <3>2. CASE entries' = entries
      <4>1. MaxRetries = 0 => tried \/ ~AssistantLast(entries, {})
        BY <1>6, <2>1, <3>2, Zenon
      <4>2. tried' = tried
        BY <1>6, <3>2
      <4>3. ~AssistantLast(entries, {}) => ~AssistantLast(entries', {})
        BY <3>2
      <4> QED BY <4>1, <4>2, <4>3
    <3> QED BY <3>1, <3>2
  <2>3. pc' \notin {"sleep", "cancelled", "inject", "tools", "turnEnd", "post", "threshold",
                    "overflow"}
    BY <1>2
  <2> QED BY <2>2, <2>3, Zenon DEF OverflowInv
<1>9. MaxRetries = 0 \/ MaxCompactions = 0 => ~threw
  BY Zenon DEF ContinueInv
<1>10. MaxRetries = 0 \/ MaxCompactions = 0 => ~threw'
  BY <1>2, <1>9
<1> QED BY <1>7, <1>8, <1>10, Zenon DEF ContinueInv

(* The model answers what it has not answered yet.                          *)
LEMMA AnswerOpens ==
  ASSUME NEW s \in Seq(Messages), NEW m \in Messages, m.role = "assistant",
         NEW h, h \subseteq 1..Len(s), ~AssistantLast(s, h)
  PROVE  /\ Shows(Append(s, m), h) /\ OneAssistant(Append(s, m), h)
         /\ Doubled(Append(s, m)) => m.stop = "overflow" /\ AssistantLast(s, {})
<1>1. PICK r : r = Append(s, m)
  OBVIOUS
<1>2. /\ r \in Seq(Messages) /\ Len(s) \in Nat /\ Len(r) = Len(s) + 1
      /\ r[Len(s) + 1] = m /\ \A i \in 1..Len(s) : r[i] = s[i]
  BY <1>1, AppendIs
<1>3. Len(r) # 0 /\ Len(r) \notin h
  BY <1>2, SMT
<1>4. Shows(r, h)
  BY <1>3 DEF Shows
<1>5. OneAssistant(r, h)
  <2>1. SUFFICES ASSUME NEW i \in 1..Len(r), LastAssistant(r, h, i),
                        NEW k \in 1..Len(r), LastAssistant(r, h \cup {i}, k)
                 PROVE  FALSE
    BY Zenon DEF OneAssistant, AssistantLast
  <2>2. i = Len(r)
    BY <1>2, <1>4, <2>1, ShowsLast
  <2>3. /\ k \notin h /\ k # Len(r) /\ r[k].role = "assistant"
        /\ \A j \in (k + 1)..Len(r) : j \in h \cup {Len(r)}
    BY <2>1, <2>2, Zenon DEF LastAssistant
  <2>4. k \in 1..Len(s) /\ s[k].role = "assistant"
    BY <1>2, <2>3, SMT
  <2>5. \A j \in (k + 1)..Len(s) : j \in (k + 1)..Len(r) /\ j # Len(r)
    BY <1>2, <2>4, SMT
  <2>6. \A j \in (k + 1)..Len(s) : j \in h
    BY <2>3, <2>5
  <2>7. LastAssistant(s, h, k)
    BY <2>3, <2>4, <2>6, Zenon DEF LastAssistant
  <2> QED BY <2>4, <2>7, Zenon DEF AssistantLast
<1>6. ASSUME Doubled(r) PROVE m.stop = "overflow" /\ AssistantLast(s, {})
  <2>1. /\ Len(r) > 1 /\ r[Len(r)].stop = "overflow" /\ r[Len(r) - 1].role = "assistant"
    BY <1>6 DEF Doubled
  <2>2. /\ m.stop = "overflow" /\ Len(s) # 0 /\ s[Len(s)].role = "assistant"
    BY <1>2, <2>1, SMT
  <2>3. Shows(s, {})
    BY <2>2 DEF Shows
  <2> QED BY <2>2, <2>3, ShowsLast
<1> QED BY <1>1, <1>4, <1>5, <1>6

LEMMA RespondOpens ==
  ASSUME IInv, ContinueInv, NEW stop \in Stops, Respond(stop)
  PROVE  ContinueInv'
<1>1. /\ entries \in Seq(Messages) /\ EntryTypes /\ NoteTypes
      /\ hidden \subseteq 1..Len(entries)
  BY DEF IInv, Types, EntryTypes, RunTypes
<1>2. /\ pc = "stream" /\ hidden' = hidden /\ threw' = threw
      /\ tried' = (IF stop \in Errors THEN tried ELSE FALSE)
  BY DEF Respond
<1>3. PICK e : e = Append(entries, Assistant(stop))
  OBVIOUS
<1>4. \/ entries' = e /\ pc' \in {"turnEnd", "tools"}
      \/ entries' = e \o Customs /\ pc' = "post"
  BY <1>3, Zenon DEF Respond
<1>5. /\ Assistant(stop) \in Messages /\ Assistant(stop).role = "assistant"
      /\ Assistant(stop).stop = stop
  BY MessagesAre
<1>6. PICK m : m = Assistant(stop)
  OBVIOUS
<1>7. ~AssistantLast(entries, hidden)
  BY <1>2, Zenon DEF ContinueInv, TurnInv
<1>8. /\ Shows(e, hidden) /\ OneAssistant(e, hidden)
      /\ Doubled(e) => stop = "overflow" /\ AssistantLast(entries, {})
  BY <1>1, <1>3, <1>5, <1>6, <1>7, AnswerOpens
<1>9. /\ e \in Seq(Messages) /\ Len(e) = Len(entries) + 1 /\ Len(entries) \in Nat
  BY <1>1, <1>3, <1>5, AppendIs
<1>10. hidden \subseteq 1..Len(e)
  BY <1>1, <1>9, SMT
<1>11. Plain(e, entries')
  <2>1. Plain(e, e) /\ Plain(e, e \o Customs)
    BY <1>1, <1>9, CustomsPlain DEF Plain
  <2> QED BY <1>4, <2>1
<1>12. /\ Shows(entries', hidden) /\ OneAssistant(entries', hidden)
       /\ Doubled(entries') => Doubled(e)
  <2>1. CASE entries' = e
    BY <1>8, <2>1
  <2>2. CASE entries' # e
    BY <1>9, <1>10, <1>11, <2>2, PlainShows
  <2> QED BY <2>1, <2>2
<1>13. TurnInv'
  BY <1>2, <1>4, <1>12 DEF TurnInv
<1>14. MaxRetries = 0 => OverflowInv'
  <2>1. MaxRetries = 0 => tried \/ ~AssistantLast(entries, {})
    BY <1>2, Zenon DEF ContinueInv, OverflowInv
  <2>2. stop = "overflow" => stop \in Errors
    BY DEF Errors
  <2>3. stop = "overflow" => tried' = tried
    BY <1>2, <2>2, Zenon
  <2>4. MaxRetries = 0 => tried' \/ ~Doubled(entries')
    BY <1>8, <1>12, <2>1, <2>3, Zenon
  <2>5. pc' \notin {"sleep", "cancelled", "inject", "stream", "threshold", "overflow"}
    BY <1>4
  <2> QED BY <2>4, <2>5, Zenon DEF OverflowInv
<1>15. MaxRetries = 0 \/ MaxCompactions = 0 => ~threw
  BY Zenon DEF ContinueInv
<1>16. MaxRetries = 0 \/ MaxCompactions = 0 => ~threw'
  BY <1>2, <1>15
<1> QED BY <1>13, <1>14, <1>16, Zenon DEF ContinueInv

LEMMA ToolResultOpens ==
  ASSUME IInv, ContinueInv, ToolResult
  PROVE  ContinueInv'
<1>1. /\ entries \in Seq(Messages) /\ hidden \subseteq 1..Len(entries)
      /\ entries' \in Seq(Messages)
  <2>1. EntryTypes'
    BY ToolResultKeeps DEF IInv, Types
  <2> QED BY <2>1 DEF IInv, Types, EntryTypes, RunTypes
<1>2. PICK j : entries' = Append(entries, Result(j))
  BY Zenon DEF ToolResult
<1>3. /\ pc = "tools" /\ hidden' = hidden /\ tried' = tried /\ threw' = threw
      /\ pc' \in {"turnEnd", "tools"}
  BY DEF ToolResult, retryVars
<1>4. /\ Len(entries') = Len(entries) + 1 /\ Len(entries) \in Nat
      /\ entries'[Len(entries) + 1] = Result(j)
  BY <1>1, <1>2, SMT
<1>5. Plain(entries, entries') /\ entries' # entries
  <2>1. Len(entries) < Len(entries') /\ entries'[Len(entries')] = Result(j)
    BY <1>4, SMT
  <2>2. entries'[Len(entries')].role # "assistant"
    BY <2>1, MessagesAre
  <2>3. entries' # entries
    BY <1>4, SMT
  <2> QED BY <1>1, <2>1, <2>2, <2>3 DEF Plain
<1>6. /\ Shows(entries', hidden) /\ OneAssistant(entries', hidden) /\ ~Doubled(entries')
  BY <1>1, <1>5, PlainShows
<1>7. TurnInv'
  BY <1>3, <1>6 DEF TurnInv
<1>8. OverflowInv'
  <2>1. pc' \notin {"sleep", "cancelled", "inject", "stream", "threshold", "overflow"}
    BY <1>3
  <2> QED BY <1>6, <2>1, Zenon DEF OverflowInv
<1>9. MaxRetries = 0 \/ MaxCompactions = 0 => ~threw
  BY Zenon DEF ContinueInv
<1>10. MaxRetries = 0 \/ MaxCompactions = 0 => ~threw'
  BY <1>3, <1>9
<1> QED BY <1>7, <1>8, <1>10, Zenon DEF ContinueInv

(* Another turn of the loop has texts to deliver, or follows the results of *)
(* tools.                                                                   *)
LEMMA TurnEndOpens ==
  ASSUME IInv, ContinueInv, TurnEnd
  PROVE  ContinueInv'
<1>1. /\ entries \in Seq(Messages) /\ EntryTypes /\ NoteTypes
      /\ hidden \subseteq 1..Len(entries) /\ {} \subseteq 1..Len(entries)
      /\ steerQ \in Seq(Texts) /\ followQ \in Seq(Texts)
  BY DEF IInv, Types, EntryTypes, RunTypes, QueueTypes
<1>2. /\ pc = "turnEnd" /\ entries' = entries \o Customs
      /\ hidden' = hidden /\ tried' = tried /\ threw' = threw
  BY DEF TurnEnd, retryVars
<1>3. \/ /\ Last(entries).role = "result" /\ pc' = "prepare"
      \/ /\ steerQ # <<>> /\ pending' = Drained(steerQ) /\ pc' = "prepare"
      \/ /\ pending' = Drained(followQ)
         /\ pc' = IF followQ = <<>> THEN "post" ELSE "prepare"
  BY Zenon DEF TurnEnd
<1>4. Plain(entries, entries')
  BY <1>1, <1>2, CustomsPlain
<1>5. Shows(entries, hidden) /\ OneAssistant(entries, hidden)
  BY <1>2 DEF ContinueInv, TurnInv
<1>6. /\ Shows(entries', hidden) /\ OneAssistant(entries', hidden)
      /\ Doubled(entries') => Doubled(entries)
      /\ AssistantLast(entries', {}) => AssistantLast(entries, {})
  <2>1. CASE entries' = entries
    BY <1>5, <2>1
  <2>2. CASE entries' # entries
    BY <1>1, <1>4, <2>2, PlainShows
  <2> QED BY <2>1, <2>2
<1>7. pc' = "prepare" => pending' # <<>> \/ ~AssistantLast(entries', {})
  <2>1. CASE Last(entries).role = "result"
    <3>1. Len(entries) # 0
      BY <1>5 DEF Shows
    <3>2. Shows(entries, {}) /\ entries[Len(entries)].role = "result"
      BY <2>1, <3>1 DEF Shows, Last
    <3>3. ~AssistantLast(entries, {})
      BY <1>1, <3>2, ShowsLast
    <3> QED BY <1>6, <3>3
  <2>2. CASE steerQ # <<>> /\ pending' = Drained(steerQ)
    BY <1>1, <2>2, DrainedSome
  <2>3. CASE pending' = Drained(followQ) /\ followQ # <<>>
    BY <1>1, <2>3, DrainedSome
  <2> QED BY <1>3, <2>1, <2>2, <2>3
<1>8. pc' \in {"post", "prepare"}
  BY <1>3
<1>9. TurnInv'
  BY <1>2, <1>6, <1>7, <1>8 DEF TurnInv
<1>10. MaxRetries = 0 => OverflowInv'
  <2>1. MaxRetries = 0 => tried \/ ~Doubled(entries)
    BY <1>2, Zenon DEF ContinueInv, OverflowInv
  <2>2. MaxRetries = 0 => tried' \/ ~Doubled(entries')
    <3>1. MaxRetries = 0 => tried \/ ~Doubled(entries')
      BY <1>6, <2>1, Zenon
    <3>2. tried' = tried
      BY <1>2
    <3> QED BY <3>1, <3>2
  <2>3. pc' \notin {"sleep", "cancelled", "inject", "stream", "threshold", "overflow"}
    BY <1>8
  <2> QED BY <2>2, <2>3, Zenon DEF OverflowInv
<1>11. MaxRetries = 0 \/ MaxCompactions = 0 => ~threw
  BY Zenon DEF ContinueInv
<1>12. MaxRetries = 0 \/ MaxCompactions = 0 => ~threw'
  BY <1>2, <1>11
<1> QED BY <1>9, <1>10, <1>12, Zenon DEF ContinueInv

(* A compaction keeps the last message.                                     *)
LEMMA CutsShow ==
  ASSUME EntryTypes, NEW h \in Cuts
  PROVE  /\ Shows(entries, h) /\ h \subseteq 1..Len(entries)
         /\ \E k \in 2..Len(entries) : h = 1..(k - 1)
<1>1. Len(entries) \in Nat /\ DOMAIN entries = 1..Len(entries)
  BY SMT DEF EntryTypes
<1>2. PICK k \in (1..Len(entries)) \ {1} : h = 1..(k - 1)
  BY <1>1, Zenon DEF Cuts
<1>3. k \in 2..Len(entries)
  BY <1>1, <1>2, SMT
<1>4. Len(entries) # 0 /\ Len(entries) \notin h /\ h \subseteq 1..Len(entries)
  BY <1>1, <1>2, <1>3, SMT
<1> QED BY <1>2, <1>3, <1>4 DEF Shows

LEMMA PrepareOpens ==
  ASSUME IInv, ContinueInv, PrepareNextTurn
  PROVE  ContinueInv'
<1>1. /\ entries \in Seq(Messages) /\ EntryTypes
  BY DEF IInv, Types, EntryTypes
<1>2. /\ pc = "prepare" /\ pc' = "inject" /\ entries' = entries /\ tried' = tried
      /\ threw' = threw /\ (pending # <<>> => pending' = pending)
      /\ hidden' = hidden \/ hidden' \in Cuts
  BY DEF PrepareNextTurn, retryVars
<1>3. Shows(entries, hidden) /\ (pending # <<>> \/ ~AssistantLast(entries, {}))
  BY <1>2 DEF ContinueInv, TurnInv
<1>4. Shows(entries, hidden')
  BY <1>1, <1>2, <1>3, CutsShow
<1>5. pending' # <<>> \/ ~AssistantLast(entries', {})
  BY <1>2, <1>3
<1>6. pending' # <<>> \/ ~AssistantLast(entries', hidden')
  BY <1>1, <1>2, <1>4, <1>5, OpenIs
<1>7. TurnInv'
  BY <1>2, <1>6 DEF TurnInv
<1>8. OverflowInv'
  <2>1. /\ pc' \notin {"sleep", "cancelled", "stream", "tools", "turnEnd", "post",
                       "threshold", "overflow"}
    BY <1>2
  <2> QED BY <1>5, <2>1, Zenon DEF OverflowInv
<1>9. MaxRetries = 0 \/ MaxCompactions = 0 => ~threw
  BY Zenon DEF ContinueInv
<1>10. MaxRetries = 0 \/ MaxCompactions = 0 => ~threw'
  BY <1>2, <1>9
<1> QED BY <1>7, <1>8, <1>10, Zenon DEF ContinueInv

(* A retry hides the error, and what precedes it is not the model's.        *)
LEMMA RetryOpens ==
  ASSUME IInv, ContinueInv, PrepareRetry \/ Retry
  PROVE  ContinueInv'
<1>1. /\ EntryTypes /\ hidden \subseteq 1..Len(entries) /\ attempt \in 0..MaxRetries
  BY DEF IInv, Types, RunTypes
<1>2. CASE PrepareRetry
  <2>1. /\ pc = "post" /\ attempt < MaxRetries /\ pc' = "sleep" /\ entries' = entries
        /\ hidden' = WithoutLastAssistant(hidden) /\ threw' = threw
    BY <1>2 DEF PrepareRetry
  <2>2. MaxRetries # 0
    BY <1>1, <2>1, SMT
  <2>3. OneAssistant(entries, hidden)
    BY <2>1 DEF ContinueInv, TurnInv
  <2>4. ~AssistantLast(entries, hidden')
    <3>1. CASE AssistantLast(entries, hidden)
      <4>1. PICK m : m = Max(Visible(hidden))
        OBVIOUS
      <4>2. LastAssistant(entries, hidden, m) /\ hidden' = hidden \cup {m}
        BY <1>1, <2>1, <3>1, <4>1, LastIs
      <4>3. m \in 1..Len(entries)
        BY <4>2 DEF LastAssistant
      <4>4. ~AssistantLast(entries, hidden \cup {m})
        BY <2>3, <4>2, <4>3, Zenon DEF OneAssistant
      <4> QED BY <4>2, <4>4
    <3>2. CASE ~AssistantLast(entries, hidden)
      BY <1>1, <2>1, <3>2, LastIs
    <3> QED BY <3>1, <3>2
  <2>5. TurnInv'
    BY <2>1, <2>4 DEF TurnInv
  <2>6. MaxRetries = 0 \/ MaxCompactions = 0 => ~threw
    BY Zenon DEF ContinueInv
  <2>7. MaxRetries = 0 \/ MaxCompactions = 0 => ~threw'
    BY <2>1, <2>6
  <2> QED BY <2>2, <2>5, <2>7, Zenon DEF ContinueInv
<1>3. CASE Retry
  <2>1. pc = "sleep" /\ Continue(hidden)
    BY <1>3 DEF Retry
  <2>2. ~AssistantLast(entries, hidden)
    BY <2>1 DEF ContinueInv, TurnInv
  <2>3. MaxRetries # 0
    BY <2>1, Zenon DEF ContinueInv, OverflowInv
  <2> QED BY <1>1, <2>1, <2>2, <2>3, ContinueOpens
<1> QED BY <1>2, <1>3

(* When the last message is the model's, its stop reason is the last.       *)
LEMMA LastStopIs ==
  ASSUME EntryTypes, Len(entries) # 0, entries[Len(entries)].role = "assistant"
  PROVE  LastStop = entries[Len(entries)].stop
<1>1. Len(entries) \in Nat /\ DOMAIN entries = 1..Len(entries)
  BY SMT DEF EntryTypes
<1>2. PICK S : S = {j \in 1..Len(entries) : entries[j].role = "assistant"}
  OBVIOUS
<1>3. Len(entries) \in S /\ S \subseteq 1..Len(entries)
  BY <1>1, <1>2, SMT
<1>4. PICK m : m = Max(S)
  OBVIOUS
<1>5. m \in S /\ \A y \in S : y <= m
  BY <1>1, <1>3, <1>4, MaxIs
<1>6. m = Len(entries)
  <2>1. PICK n : n = Len(entries)
    OBVIOUS
  <2>2. n \in Nat /\ m \in 1..n /\ n <= m
    BY <1>1, <1>3, <1>5, <2>1
  <2>3. m = n
    BY <2>2, SMT
  <2> QED BY <2>1, <2>3
<1>7. {j \in DOMAIN entries : entries[j].role = "assistant"} = S
  BY <1>1, <1>2
<1> QED BY <1>4, <1>6, <1>7, Zenon DEF LastStop, LastStopIn

LEMMA PostRunOpens ==
  ASSUME IInv, ContinueInv, PostRun
  PROVE  ContinueInv'
<1>1. EntryTypes /\ entries \in Seq(Messages) /\ hidden \subseteq 1..Len(entries)
  BY DEF IInv, Types, EntryTypes, RunTypes
<1>2. pc \in {"post", "cancelled"} /\ CheckCompaction
  BY DEF PostRun
<1>3. MaxRetries = 0 => pc = "post"
  <2>1. MaxRetries = 0 => pc # "cancelled"
    BY Zenon DEF ContinueInv, OverflowInv
  <2> QED BY <1>2, <2>1
<1>4. pc = "post" => Shows(entries, hidden)
  BY DEF ContinueInv, TurnInv
<1>5. MaxRetries = 0 => tried \/ ~Doubled(entries)
  BY <1>3, Zenon DEF ContinueInv, OverflowInv
<1>6. MaxRetries = 0 \/ MaxCompactions = 0 => ~threw
  BY Zenon DEF ContinueInv
<1>7. CASE RecoverOverflow
  <2>1. /\ LastStop = "overflow" /\ ~tried /\ tried' = TRUE /\ pc' = "overflow"
        /\ entries' = entries /\ threw' = threw
    BY <1>7 DEF RecoverOverflow
  <2>2. TurnInv'
    BY <2>1 DEF TurnInv
  <2>3. ASSUME MaxRetries = 0 PROVE OverflowLast(entries)
    <3>1. Len(entries) # 0
      BY <1>3, <1>4, <2>3 DEF Shows
    <3>2. entries[Len(entries)].role = "assistant" => entries[Len(entries)].stop = "overflow"
      BY <1>1, <2>1, <3>1, LastStopIs
    <3> QED BY <3>1, <3>2 DEF OverflowLast
  <2>4. MaxRetries = 0 => ~Doubled(entries)
    BY <1>5, <2>1, Zenon
  <2>5. MaxRetries = 0 => ~Doubled(entries') /\ OverflowLast(entries')
    BY <2>1, <2>3, <2>4
  <2>6. tried' /\ pc' \notin {"sleep", "cancelled", "inject", "stream", "tools", "turnEnd",
                              "post", "threshold"}
    BY <2>1
  <2>7. MaxRetries = 0 => OverflowInv'
    BY <2>5, <2>6, Zenon DEF OverflowInv
  <2>8. MaxRetries = 0 \/ MaxCompactions = 0 => ~threw'
    BY <1>6, <2>1
  <2> QED BY <2>2, <2>7, <2>8, Zenon DEF ContinueInv
<1>8. CASE CompactAtThreshold
  <2>1. /\ pc' = "threshold" /\ entries' = entries /\ hidden' = hidden /\ threw' = threw
    BY <1>8 DEF CompactAtThreshold
  <2>2. TurnInv'
    BY <2>1 DEF TurnInv
  <2>3. MaxRetries = 0 => Shows(entries', hidden')
    BY <1>3, <1>4, <2>1
  <2>4. pc' \notin {"sleep", "cancelled", "inject", "stream", "tools", "turnEnd", "post",
                    "overflow"}
    BY <2>1
  <2>5. MaxRetries = 0 => OverflowInv'
    BY <2>3, <2>4, Zenon DEF OverflowInv
  <2>6. MaxRetries = 0 \/ MaxCompactions = 0 => ~threw'
    BY <1>6, <2>1
  <2> QED BY <2>2, <2>5, <2>6, Zenon DEF ContinueInv
<1>9. CASE ContinueIfQueued(hidden)
  <2>1. MaxRetries = 0 => (AssistantLast(entries, {}) => AssistantLast(entries, hidden))
    BY <1>1, <1>3, <1>4, OpenIs
  <2> QED BY <1>1, <1>9, <2>1, ContinueIfQueuedOpens
<1> QED BY <1>2, <1>7, <1>8, <1>9, Zenon DEF CheckCompaction

(* A summary after an overflow is followed by what the model has not        *)
(* answered: the overflow is hidden, and nothing of the model's precedes it.*)
LEMMA OverflowHidden ==
  ASSUME EntryTypes, NEW h \in Cuts, OverflowLast(entries), ~Doubled(entries)
  PROVE  /\ ~AssistantLast(entries, WithoutLastError(h))
         /\ WithoutLastError(h) \subseteq 1..Len(entries)
<1>1. entries \in Seq(Messages) /\ Len(entries) \in Nat
  BY SMT DEF EntryTypes
<1>2. /\ Shows(entries, h) /\ h \subseteq 1..Len(entries)
      /\ \E k \in 2..Len(entries) : h = 1..(k - 1)
  BY CutsShow
<1>3. WithoutLastError(h) \subseteq 1..Len(entries)
  BY <1>2, WithoutIs
<1>4. LastRole(h) = "assistant" <=> AssistantLast(entries, h)
  BY <1>2, LastIs
<1>5. CASE ~AssistantLast(entries, h)
  BY <1>3, <1>4, <1>5 DEF WithoutLastError
<1>6. CASE AssistantLast(entries, h)
  <2>1. PICK m : m = Max(Visible(h))
    OBVIOUS
  <2>2. LastAssistant(entries, h, m) /\ WithoutLastAssistant(h) = h \cup {m}
    BY <1>2, <1>6, <2>1, LastIs
  <2>3. m \in 1..Len(entries) /\ entries[m].role = "assistant"
    BY <2>2 DEF LastAssistant
  <2>4. m = Len(entries)
    BY <1>1, <1>2, <2>2, <2>3, ShowsLast
  <2>5. entries[m].stop = "overflow"
    BY <2>3, <2>4 DEF OverflowLast
  <2>6. entries[Max(Visible(h))].stop \in Errors
    BY <2>1, <2>5 DEF Errors
  <2>7. WithoutLastError(h) = h \cup {m}
    BY <1>4, <1>6, <2>2, <2>6, Zenon DEF WithoutLastError
  <2>8. ASSUME NEW i \in 1..Len(entries), LastAssistant(entries, h \cup {m}, i)
        PROVE  FALSE
    <3>1. PICK k \in 2..Len(entries) : h = 1..(k - 1)
      BY <1>2
    <3>2. /\ i \notin h /\ i # m /\ entries[i].role = "assistant"
          /\ \A j \in (i + 1)..Len(entries) : j \in h \/ j = m
      BY <2>8, Zenon DEF LastAssistant
    <3>3. i = Len(entries) - 1
      <4>1. SUFFICES ASSUME i # Len(entries) - 1 PROVE FALSE
        OBVIOUS
      <4>2. /\ Len(entries) - 1 \in (i + 1)..Len(entries) /\ Len(entries) - 1 # m
        BY <1>1, <2>4, <3>2, <4>1, SMT
      <4>3. Len(entries) - 1 \in h
        BY <3>2, <4>2
      <4>4. i \in h
        BY <1>1, <3>1, <4>2, <4>3, SMT
      <4> QED BY <3>2, <4>4
    <3>4. Len(entries) > 1 /\ entries[Len(entries) - 1].role = "assistant"
      BY <1>1, <3>1, <3>2, <3>3, SMT
    <3> QED BY <2>3, <2>4, <2>5, <3>4 DEF Doubled
  <2>9. ~AssistantLast(entries, WithoutLastError(h))
    BY <2>7, <2>8, Zenon DEF AssistantLast
  <2> QED BY <1>3, <2>9
<1> QED BY <1>5, <1>6

LEMMA CompactionEndsOpens ==
  ASSUME IInv, ContinueInv, CompactionEnds
  PROVE  ContinueInv'
<1>1. /\ EntryTypes /\ entries \in Seq(Messages) /\ hidden \subseteq 1..Len(entries)
      /\ compactions \in 0..MaxCompactions
  BY DEF IInv, Types, EntryTypes, RunTypes
<1>2. MaxRetries = 0 /\ pc = "overflow"
      => tried /\ ~Doubled(entries) /\ OverflowLast(entries)
  BY Zenon DEF ContinueInv, OverflowInv
<1>3. MaxRetries = 0 /\ pc = "threshold" => Shows(entries, hidden)
  BY Zenon DEF ContinueInv, OverflowInv
<1>4. CASE /\ pc = "overflow" /\ CompactOnce
           /\ \E h \in Cuts : Continue(WithoutLastError(h))
  <2>1. MaxCompactions # 0
    BY <1>1, <1>4, SMT DEF CompactOnce
  <2>2. PICK h \in Cuts : Continue(WithoutLastError(h))
    BY <1>4
  <2>3. PICK w : w = WithoutLastError(h)
    OBVIOUS
  <2>4. w \subseteq 1..Len(entries)
    BY <1>1, <2>3, CutsAre, WithoutIs
  <2>5. MaxRetries = 0 => ~AssistantLast(entries, w)
    BY <1>1, <1>2, <1>4, <2>3, OverflowHidden
  <2>6. MaxRetries = 0 => tried
    BY <1>2, <1>4, Zenon
  <2>7. Continue(w)
    BY <2>2, <2>3
  <2>8. MaxRetries = 0 \/ MaxCompactions = 0 => HasQueued \/ ~AssistantLast(entries, w)
    BY <2>1, <2>5, Zenon
  <2>9. MaxRetries = 0 /\ ~AssistantLast(entries, w) => tried \/ ~AssistantLast(entries, {})
    BY <2>6, Zenon
  <2> QED BY <2>4, <2>7, <2>8, <2>9, ContinueOpens
<1>5. CASE /\ pc = "threshold" /\ CompactOnce
           /\ \E h \in Cuts : ContinueIfQueued(h)
  <2>1. PICK h \in Cuts : ContinueIfQueued(h)
    BY <1>5
  <2>2. Shows(entries, h) /\ h \subseteq 1..Len(entries)
    BY <1>1, CutsShow
  <2>3. AssistantLast(entries, {}) => AssistantLast(entries, h)
    BY <1>1, <2>2, OpenIs
  <2> QED BY <2>1, <2>2, <2>3, ContinueIfQueuedOpens
<1>6. CASE pc \in {"overflow", "threshold"} /\ ContinueIfQueued(hidden)
  <2>1. MaxRetries = 0 /\ ~AssistantLast(entries, hidden)
        => tried \/ ~AssistantLast(entries, {})
    <3>1. CASE pc = "overflow"
      <4>1. MaxRetries = 0 => tried
        BY <1>2, <3>1, Zenon
      <4> QED BY <4>1, Zenon
    <3>2. CASE pc = "threshold"
      <4>1. ASSUME MaxRetries = 0, ~AssistantLast(entries, hidden)
            PROVE  ~AssistantLast(entries, {})
        <5>1. Shows(entries, hidden)
          BY <1>3, <3>2, <4>1
        <5> QED BY <1>1, <4>1, <5>1, OpenIs
      <4> QED BY <4>1, Zenon
    <3> QED BY <1>6, <3>1, <3>2
  <2> QED BY <1>1, <1>6, <2>1, ContinueIfQueuedOpens
<1> QED BY <1>4, <1>5, <1>6, Zenon DEF CompactionEnds

LEMMA CompactBeforePromptOpens ==
  ASSUME IInv, ContinueInv, CompactBeforePrompt
  PROVE  ContinueInv'
<1>1. pc' = "idle" /\ threw' = threw
  BY DEF CompactBeforePrompt
<1>2. MaxRetries = 0 \/ MaxCompactions = 0 => ~threw
  BY Zenon DEF ContinueInv
<1>3. MaxRetries = 0 \/ MaxCompactions = 0 => ~threw'
  BY <1>1, <1>2
<1> QED BY <1>1, <1>3, IdleOpens

LEMMA InitOpens == Init => ContinueInv
<1>1. SUFFICES ASSUME Init PROVE ContinueInv
  OBVIOUS
<1>2. pc = "idle" /\ ~threw
  BY <1>1 DEF Init
<1>3. TurnInv /\ OverflowInv
  BY <1>2 DEF TurnInv, OverflowInv
<1> QED BY <1>2, <1>3, Zenon DEF ContinueInv

LEMMA NextOpens == IInv /\ ContinueInv /\ [Next]_vars => ContinueInv'
<1>1. SUFFICES ASSUME IInv, ContinueInv, [Next]_vars PROVE ContinueInv'
  OBVIOUS
<1>2. CASE \E t \in Texts : Prompt(t) \/ StartRun(t) \/ Steer(t) \/ FollowUp(t)
  BY <1>1, <1>2, UserOpens
<1>3. CASE ClearQueue \/ SendCustomMessage \/ RecordBashResult \/ Abort
  BY <1>1, <1>3, UserOpens
<1>4. CASE Inject \/ ToolResult \/ TurnEnd \/ PrepareNextTurn
  BY <1>1, <1>4, InjectOpens, ToolResultOpens, TurnEndOpens, PrepareOpens
<1>5. CASE \E stop \in Stops : Respond(stop)
  BY <1>1, <1>5, RespondOpens
<1>6. CASE PrepareRetry \/ Retry \/ PostRun
  BY <1>1, <1>6, RetryOpens, PostRunOpens
<1>7. CASE CompactionEnds \/ CompactBeforePrompt
  BY <1>1, <1>7, CompactionEndsOpens, CompactBeforePromptOpens
<1>8. CASE UNCHANGED vars
  <2>1. UNCHANGED <<entries, hidden, pc, pending, tried, threw>>
    BY <1>8 DEF vars, queueVars, retryVars
  <2> QED BY <1>1, <2>1, SameOpens
<1> QED BY <1>1, <1>2, <1>3, <1>4, <1>5, <1>6, <1>7, <1>8, Zenon DEF Next

(* continue() rejects only in a session with both retries and compactions:  *)
(* without either it finds something to continue from whenever it is called.*)
(* A retry leaves two errors at the end of the transcript; a compaction that*)
(* follows hides one of them.                                               *)
THEOREM OneRecoveryContinues ==
  ASSUME MaxRetries = 0 \/ MaxCompactions = 0
  PROVE  Spec => []CanContinue
<1>1. Init => IInv /\ ContinueInv
  BY InitHolds, InitOpens
<1>2. IInv /\ ContinueInv /\ [Next]_vars => (IInv /\ ContinueInv)'
  BY NextKeeps, NextOpens
<1>3. IInv /\ ContinueInv => CanContinue
  BY Zenon DEF ContinueInv, CanContinue
<1> QED BY <1>1, <1>2, <1>3, PTL DEF Spec

LEMMA QueuedContinues ==
  ASSUME NEW h, ContinueIfQueued(h)
  PROVE  threw' = threw
<1>1. CASE HasQueued /\ Continue(h)
  BY <1>1, Zenon DEF Continue
<1> QED BY <1>1, Zenon DEF ContinueIfQueued

(* continue() rejects nowhere but after the summary of an overflow: a retry *)
(* finds something to continue from, and so does what is called because     *)
(* there are queued messages, whatever became of the run before.            *)
THEOREM OnlyOverflowRejects ==
  Spec => [][threw' # threw => pc = "overflow" /\ CompactionEnds /\ CompactOnce]_vars
<1>1. Init => IInv /\ ContinueInv
  BY InitHolds, InitOpens
<1>2. IInv /\ ContinueInv /\ [Next]_vars => (IInv /\ ContinueInv)'
  BY NextKeeps, NextOpens
<1>3. IInv /\ ContinueInv /\ [Next]_vars
      => [threw' # threw => pc = "overflow" /\ CompactionEnds /\ CompactOnce]_vars
  <2>1. SUFFICES ASSUME IInv, ContinueInv, Next, threw' # threw
                 PROVE  pc = "overflow" /\ CompactionEnds /\ CompactOnce
    BY Zenon
  <2>2. ~Retry
    <3>1. SUFFICES ASSUME Retry PROVE threw' = threw
      BY <2>1
    <3>2. pc = "sleep" /\ Continue(hidden)
      BY <3>1 DEF Retry
    <3>3. ~AssistantLast(entries, hidden)
      BY <2>1, <3>2 DEF ContinueInv, TurnInv
    <3>4. LastRole(hidden) # "assistant"
      BY <2>1, <3>3, LastIs DEF IInv, Types, RunTypes
    <3> QED BY <3>2, <3>4, Zenon DEF Continue
  <2>3. ~PostRun
    <3>1. SUFFICES ASSUME PostRun PROVE threw' = threw
      BY <2>1
    <3>2. RecoverOverflow \/ CompactAtThreshold \/ ContinueIfQueued(hidden)
      BY <3>1, Zenon DEF PostRun, CheckCompaction
    <3>3. CASE RecoverOverflow \/ CompactAtThreshold
      BY <3>3 DEF RecoverOverflow, CompactAtThreshold
    <3>4. CASE ContinueIfQueued(hidden)
      BY <3>4, QueuedContinues
    <3> QED BY <3>2, <3>3, <3>4
  <2>4. ASSUME NEW t
        PROVE  ~(\/ Prompt(t) \/ StartRun(t) \/ Steer(t) \/ FollowUp(t) \/ ClearQueue
                 \/ SendCustomMessage \/ RecordBashResult \/ Abort)
    BY <2>1 DEF Prompt, StartRun, Steer, FollowUp, ClearQueue, SendCustomMessage,
                RecordBashResult, Abort
  <2>5. ~(Inject \/ ToolResult \/ TurnEnd \/ PrepareNextTurn \/ PrepareRetry)
    BY <2>1 DEF Inject, ToolResult, TurnEnd, PrepareNextTurn, PrepareRetry
  <2>6. \A stop \in Stops : ~Respond(stop)
    BY <2>1 DEF Respond
  <2>7. ~CompactBeforePrompt
    BY <2>1 DEF CompactBeforePrompt
  <2>8. CompactionEnds
    BY <2>1, <2>2, <2>3, <2>4, <2>5, <2>6, <2>7, Zenon DEF Next
  <2>9. \A h : ~ContinueIfQueued(h)
    BY <2>1, QueuedContinues
  <2>10. pc = "overflow" /\ CompactOnce
    BY <2>8, <2>9, Zenon DEF CompactionEnds
  <2> QED BY <2>8, <2>10
<1> QED BY <1>1, <1>2, <1>3, PTL DEF Spec

=============================================================================

------------------------ MODULE HermesEngineProofs -------------------------
(***************************************************************************)
(* Proofs about HermesEngine, for any number of texts, whatever they say   *)
(* and any of them typed as prompts or steering, and any number of         *)
(* follow-ups in a run.                                                    *)
(***************************************************************************)
EXTENDS HermesEngine, FiniteSetTheorems, TLAPS

-----------------------------------------------------------------------------
(* What occurs in a sequence, and what does so once.                        *)

Occurs(x, s) == \E i \in 1..Len(s) : s[i] = x
Single(x, s) == \A i, j \in 1..Len(s) : s[i] = x /\ s[j] = x => i = j

LEMMA EmptyOccurs ==
  ASSUME NEW x
  PROVE  ~Occurs(x, <<>>) /\ Single(x, <<>>)
BY SMT DEF Occurs, Single

LEMMA AppendOccurs ==
  ASSUME NEW V, NEW s \in Seq(V), NEW x, NEW y \in V
  PROVE  /\ Append(s, y) \in Seq(V)
         /\ Occurs(x, Append(s, y)) <=> Occurs(x, s) \/ x = y
         /\ Single(x, s) /\ (x = y => ~Occurs(x, s)) => Single(x, Append(s, y))
BY SMT DEF Occurs, Single

LEMMA TailOccurs ==
  ASSUME NEW V, NEW s \in Seq(V), s # <<>>, NEW x
  PROVE  /\ Tail(s) \in Seq(V) /\ Head(s) \in V
         /\ Occurs(Head(s), s)
         /\ Occurs(x, Tail(s)) => Occurs(x, s)
         /\ x # Head(s) /\ Occurs(x, s) => Occurs(x, Tail(s))
         /\ Single(x, s) => Single(x, Tail(s))
         /\ Single(x, s) /\ x = Head(s) => ~Occurs(x, Tail(s))
<1>1. /\ Tail(s) \in Seq(V) /\ Len(Tail(s)) = Len(s) - 1
      /\ \A i \in 1..(Len(s) - 1) : Tail(s)[i] = s[i + 1]
  BY SMT
<1>2. Len(s) \in Nat \ {0} /\ Head(s) = s[1] /\ Head(s) \in V
  BY SMT
<1>3. Occurs(Head(s), s)
  BY <1>2, SMT DEF Occurs
<1>4. Occurs(x, Tail(s)) => Occurs(x, s)
  BY <1>1, <1>2, SMT DEF Occurs
<1>5. x # Head(s) /\ Occurs(x, s) => Occurs(x, Tail(s))
  <2>1. SUFFICES ASSUME x # Head(s), NEW i \in 1..Len(s), s[i] = x
                 PROVE  Occurs(x, Tail(s))
    BY DEF Occurs
  <2>2. i - 1 \in 1..Len(Tail(s)) /\ Tail(s)[i - 1] = x
    BY <1>1, <1>2, <2>1, SMT
  <2> QED BY <2>2 DEF Occurs
<1>6. Single(x, s) => Single(x, Tail(s))
  BY <1>1, <1>2, SMT DEF Single
<1>7. Single(x, s) /\ x = Head(s) => ~Occurs(x, Tail(s))
  BY <1>1, <1>2, SMT DEF Single, Occurs
<1> QED BY <1>1, <1>2, <1>3, <1>4, <1>5, <1>6, <1>7

LEMMA ConcatOccurs ==
  ASSUME NEW V, NEW s \in Seq(V), NEW u \in Seq(V), NEW x
  PROVE  /\ s \o u \in Seq(V)
         /\ Occurs(x, s \o u) <=> Occurs(x, s) \/ Occurs(x, u)
         /\ Single(x, s) /\ Single(x, u) /\ ~(Occurs(x, s) /\ Occurs(x, u))
              => Single(x, s \o u)
<1>1. /\ s \o u \in Seq(V) /\ Len(s \o u) = Len(s) + Len(u)
      /\ Len(s) \in Nat /\ Len(u) \in Nat
      /\ \A i \in 1..(Len(s) + Len(u)) :
           (s \o u)[i] = IF i <= Len(s) THEN s[i] ELSE u[i - Len(s)]
  BY SMT
<1>2. ASSUME Occurs(x, s \o u) PROVE Occurs(x, s) \/ Occurs(x, u)
  <2>1. PICK i \in 1..(Len(s) + Len(u)) : (s \o u)[i] = x
    BY <1>1, <1>2 DEF Occurs
  <2>2. CASE i <= Len(s)
    BY <1>1, <2>1, <2>2, SMT DEF Occurs
  <2>3. CASE ~(i <= Len(s))
    <3>1. i - Len(s) \in 1..Len(u) /\ u[i - Len(s)] = x
      BY <1>1, <2>1, <2>3, SMT
    <3> QED BY <3>1 DEF Occurs
  <2> QED BY <2>2, <2>3
<1>3. ASSUME Occurs(x, s) PROVE Occurs(x, s \o u)
  BY <1>1, <1>3, SMT DEF Occurs
<1>4. ASSUME Occurs(x, u) PROVE Occurs(x, s \o u)
  <2>1. PICK i \in 1..Len(u) : u[i] = x
    BY <1>4 DEF Occurs
  <2>2. i + Len(s) \in 1..(Len(s) + Len(u)) /\ (s \o u)[i + Len(s)] = x
    BY <1>1, <2>1, SMT
  <2> QED BY <1>1, <2>2 DEF Occurs
<1>5. ASSUME Single(x, s), Single(x, u), ~(Occurs(x, s) /\ Occurs(x, u))
      PROVE  Single(x, s \o u)
  <2>1. SUFFICES ASSUME NEW i \in 1..(Len(s) + Len(u)), NEW j \in 1..(Len(s) + Len(u)),
                        (s \o u)[i] = x, (s \o u)[j] = x
                 PROVE  i = j
    BY <1>1 DEF Single
  <2>2. \A k \in {i, j} :
          \/ k <= Len(s) /\ k \in 1..Len(s) /\ s[k] = x
          \/ ~(k <= Len(s)) /\ k - Len(s) \in 1..Len(u) /\ u[k - Len(s)] = x
    BY <1>1, <2>1, SMT
  <2>3. CASE i <= Len(s) /\ j <= Len(s)
    BY <1>5, <2>2, <2>3 DEF Single
  <2>4. CASE ~(i <= Len(s)) /\ ~(j <= Len(s))
    <3>1. i - Len(s) = j - Len(s)
      BY <1>5, <2>2, <2>4 DEF Single
    <3> QED BY <1>1, <3>1, SMT
  <2>5. CASE i <= Len(s) /\ ~(j <= Len(s))
    BY <1>5, <2>2, <2>5, Zenon DEF Occurs
  <2>6. CASE ~(i <= Len(s)) /\ j <= Len(s)
    BY <1>5, <2>2, <2>6, Zenon DEF Occurs
  <2> QED BY <2>3, <2>4, <2>5, <2>6
<1> QED BY <1>1, <1>2, <1>3, <1>4, <1>5

(* RemoveAt takes out what occurs once.                                     *)
LEMMA RemoveAtOccurs ==
  ASSUME NEW V, NEW s \in Seq(V), NEW i \in 1..Len(s), Single(s[i], s), NEW x
  PROVE  /\ RemoveAt(s, i) \in Seq(V)
         /\ Occurs(x, RemoveAt(s, i)) <=> Occurs(x, s) /\ x # s[i]
         /\ Single(x, s) => Single(x, RemoveAt(s, i))
<1> DEFINE u == RemoveAt(s, i)
<1>1. /\ u \in Seq(V) /\ Len(s) \in Nat /\ Len(u) = Len(s) - 1
      /\ \A j \in 1..Len(u) : u[j] = IF j < i THEN s[j] ELSE s[j + 1]
  <2> DEFINE a == SubSeq(s, 1, i - 1)
             b == SubSeq(s, i + 1, Len(s))
  <2>1. /\ a \in Seq(V) /\ Len(a) = i - 1 /\ \A j \in 1..(i - 1) : a[j] = s[j]
    BY SMT
  <2>2. /\ b \in Seq(V) /\ Len(b) = Len(s) - i /\ Len(s) \in Nat
        /\ \A j \in 1..(Len(s) - i) : b[j] = s[j + i]
    BY SMT
  <2>3. u = a \o b
    BY DEF RemoveAt
  <2> HIDE DEF u, a, b
  <2>4. /\ a \o b \in Seq(V) /\ Len(a \o b) = Len(a) + Len(b)
        /\ \A j \in 1..(Len(a) + Len(b)) :
             (a \o b)[j] = IF j <= Len(a) THEN a[j] ELSE b[j - Len(a)]
    <3>1. a \in Seq(V) /\ b \in Seq(V)
      BY <2>1, <2>2
    <3> QED BY <3>1, SMT
  <2>5. ASSUME NEW j \in 1..(Len(s) - 1)
        PROVE  u[j] = IF j < i THEN s[j] ELSE s[j + 1]
    <3>1. CASE j < i
      BY <2>1, <2>2, <2>3, <2>4, <3>1, SMT
    <3>2. CASE ~(j < i)
      <4>1. /\ u[j] = b[j - (i - 1)] /\ j - (i - 1) \in 1..(Len(s) - i)
            /\ (j - (i - 1)) + i = j + 1
        BY <2>1, <2>2, <2>3, <2>4, <3>2, SMT
      <4>2. b[j - (i - 1)] = s[(j - (i - 1)) + i]
        BY <2>2, <4>1
      <4> QED BY <3>2, <4>1, <4>2
    <3> QED BY <3>1, <3>2
  <2>6. Len(u) = Len(s) - 1
    BY <2>1, <2>2, <2>3, <2>4, SMT
  <2> QED BY <2>2, <2>3, <2>4, <2>5, <2>6
<1> HIDE DEF u
<1>2. ASSUME Occurs(x, u) PROVE Occurs(x, s) /\ x # s[i]
  <2>1. PICK j \in 1..Len(u) : u[j] = x
    BY <1>2 DEF Occurs
  <2>2. \E k \in 1..Len(s) : k # i /\ s[k] = x
    BY <1>1, <2>1, SMT
  <2> QED BY <2>2 DEF Occurs, Single
<1>3. ASSUME Occurs(x, s), x # s[i] PROVE Occurs(x, u)
  <2>1. PICK k \in 1..Len(s) : s[k] = x
    BY <1>3 DEF Occurs
  <2>2. k # i
    BY <1>3, <2>1
  <2>3. CASE k < i
    BY <1>1, <2>1, <2>3, SMT DEF Occurs
  <2>4. CASE ~(k < i)
    <3>1. k - 1 \in 1..Len(u) /\ ~(k - 1 < i) /\ (k - 1) + 1 = k
      BY <1>1, <2>2, <2>4, SMT
    <3>2. u[k - 1] = x
      BY <1>1, <2>1, <3>1
    <3> QED BY <3>1, <3>2 DEF Occurs
  <2> QED BY <2>3, <2>4
<1>4. ASSUME Single(x, s) PROVE Single(x, u)
  <2>1. SUFFICES ASSUME NEW j \in 1..Len(u), NEW k \in 1..Len(u), u[j] = x, u[k] = x
                 PROVE  j = k
    BY DEF Single
  <2>2. \A m, n \in 1..Len(s) : s[m] = x /\ s[n] = x => m = n
    BY <1>4 DEF Single
  <2> QED BY <1>1, <2>1, <2>2, SMT
<1> QED BY <1>1, <1>2, <1>3, <1>4 DEF u

(* SetToSeq lists the members of a finite set, each of them once.           *)
LEMMA SetToSeqOccurs ==
  ASSUME NEW S, IsFiniteSet(S), NEW x
  PROVE  /\ SetToSeq(S) \in Seq(S)
         /\ Occurs(x, SetToSeq(S)) <=> x \in S
         /\ Single(x, SetToSeq(S))
<1> DEFINE n == Cardinality(S)
           f == SetToSeq(S)
<1>1. n \in Nat /\ ExistsBijection(1..n, S)
  BY FS_CardinalityType
<1>2. \E g : g \in [1..n -> S] /\ IsInjective(g)
  BY <1>1, Zenon DEF ExistsBijection, Bijection, Injection
<1>3. f \in [1..n -> S] /\ IsInjective(f)
  BY <1>2, Zenon DEF SetToSeq
<1>4. f \in Injection(1..n, S)
  BY <1>3 DEF Injection
<1>5. IsFiniteSet(1..n) /\ Cardinality(1..n) = n
  <2>1. IsFiniteSet(1..n) /\ Cardinality(1..n) = IF 1 > n THEN 0 ELSE n - 1 + 1
    BY <1>1, FS_Interval, SMT
  <2> HIDE DEF n
  <2> QED BY <1>1, <2>1, SMT
<1>6. f \in Surjection(1..n, S)
  BY <1>1, <1>4, <1>5, FS_Injection
<1> HIDE DEF f, n
<1>7. f \in Seq(S) /\ Len(f) = n
  BY <1>1, <1>3, SMT
<1>8. Occurs(x, f) <=> x \in S
  BY <1>3, <1>6, <1>7, Zenon DEF Occurs, Surjection
<1>9. Single(x, f)
  BY <1>3, <1>7, Zenon DEF Single, IsInjective
<1> QED BY <1>7, <1>8, <1>9 DEF f

-----------------------------------------------------------------------------
(* The invariants.                                                          *)

Pcs == {"none", "preflight", "starting", "turn", "connecting", "creating", "waiting",
        "stuck", "settled", "over"}
RunTypes ==
  /\ run \in [Texts -> [pc : Pcs, text : Texts, drained : 0..DrainGuard]]
  /\ result \in [Texts -> Texts \cup {None, Failed}]
  /\ forgotten \subseteq Texts /\ turn \in Texts \cup {None}
QueueTypes ==
  /\ followUps \in Seq(Texts) /\ steering \subseteq Texts /\ dropped \subseteq Texts
  /\ typed \in [Texts -> {"no", "prompt", "followUp", "steer"}]
EngineTypes ==
  /\ rpcs \subseteq Calls /\ inbox \in Seq(Calls) /\ wire \in Seq(Lines)
  /\ busy \in Texts \cup {None}
FlagTypes ==
  /\ active \in BOOLEAN /\ disposed \in BOOLEAN
  /\ abort \in {"none", "interrupting", "waiting", "returned"}
  /\ engine \in {"none", "booting", "running", "dead", "exited"}
  /\ ready \in BOOLEAN /\ session \in BOOLEAN

(* The places of a text that has been typed, and the text in flight.        *)
Live == {"preflight", "starting", "turn", "connecting", "creating", "waiting", "stuck"}
Holders == {r \in Texts : run[r].pc \in Live}
TextsOf(S) == {run[r].text : r \in S}
Held == TextsOf(Holders)
Queued == {t \in Texts : Occurs(t, followUps)}
Done == {t \in Texts : result[t] # None}
Typed == {t \in Texts : typed[t] # "no"}
TurnText == TextsOf(Texts \cap {turn})

(* No two runs have the same text; a run that has not begun has its own.    *)
HolderInv == \A r, q \in Holders : run[r].text = run[q].text => r = q
FreshInv == \A r \in Texts : run[r].pc = "none" => run[r].text = r

(* The turn in flight has its run waiting.  A text whose turn was given up  *)
(* has a result, or a run that still waits.                                 *)
TurnInv == turn # None => run[turn].pc = "waiting"
ForgottenInv ==
  \A t \in forgotten :
    t \in Done \/ \E r \in At("waiting") \cup At("stuck") : run[r].text = t

RunInv ==
  RunTypes /\ HolderInv /\ FreshInv /\ TurnInv /\ WaiterHasTurn /\ ForgottenInv

(* A text that has been typed is in one of the five places; no text is      *)
(* queued twice, and the run of a text that has not been a prompt has not   *)
(* begun.                                                                   *)
PlaceInv ==
  /\ Held \cap (Queued \cup steering \cup dropped \cup Done) = {}
  /\ Queued \cap (steering \cup dropped \cup Done) = {}
  /\ steering \cap (dropped \cup Done) = {} /\ dropped \cap Done = {}
  /\ Typed = Held \cup Queued \cup steering \cup dropped \cup Done
QueueInv == \A t \in Texts : Single(t, followUps)
NewInv == \A r \in Texts : typed[r] # "prompt" => run[r].pc = "none"

(* Another text that says the same has had its turn begun, and once it has  *)
(* it always will.                                                          *)
DroppedInv == \A t \in dropped : (Equal(t) \ {t}) \cap HadItsTurn # {}
HadKept == HadItsTurn \subseteq HadItsTurn'

(* What the engine has of a text: the request to work on it, the work, or   *)
(* the line that ends it, one of them and once.  It is the text of the turn *)
(* in flight, or one whose turn was given up.                               *)
Asked(t) == Occurs(Call("submit", t), inbox)
Ending(t) == Occurs(End(t), wire)
HasIt == {t \in Texts : Asked(t) \/ busy = t \/ Ending(t)}
OnceInv ==
  \A t \in Texts :
    /\ Single(Call("submit", t), inbox) /\ Single(End(t), wire)
    /\ Asked(t) => busy # t /\ ~Ending(t)
    /\ busy = t => ~Ending(t)
EngineInv == HasIt \subseteq forgotten \cup TurnText

Matched == OnceInv /\ EngineInv /\ OwnResult

LEMMA TypesSplit == TypeOK <=> RunTypes /\ QueueTypes /\ EngineTypes /\ FlagTypes
BY Zenon DEF TypeOK, RunTypes, QueueTypes, EngineTypes, FlagTypes, Pcs

LEMMA Numbers ==
  /\ None \notin Texts /\ Failed \notin Texts /\ None # Failed /\ Aborter \notin Texts
  /\ \A t \in Texts : t \in Nat
BY EngineAssumption, SMT DEF Texts, None, Failed, Aborter

LEMMA TextsFinite == \A S : S \subseteq Texts => IsFiniteSet(S)
<1>1. IsFiniteSet(Texts)
  BY EngineAssumption, FS_Interval, SMT DEF Texts
<1> QED BY <1>1, FS_Subset, Zenon

-----------------------------------------------------------------------------
(* The runs.                                                                *)

LEMMA PutRuns ==
  ASSUME RunTypes, NEW S, NEW pc \in Pcs, Put(S, pc)
  PROVE  /\ run' \in [Texts -> [pc : Pcs, text : Texts, drained : 0..DrainGuard]]
         /\ \A r \in Texts : /\ run'[r].text = run[r].text
                             /\ run'[r].drained = run[r].drained
                             /\ run'[r].pc = IF r \in S THEN pc ELSE run[r].pc
<1>1. ASSUME NEW r \in Texts
      PROVE  /\ run'[r] = [run[r] EXCEPT !.pc = IF r \in S THEN pc ELSE run[r].pc]
             /\ run[r] \in [pc : Pcs, text : Texts, drained : 0..DrainGuard]
  BY <1>1, Zenon DEF Put, RunTypes
<1>2. ASSUME NEW r \in Texts
      PROVE  /\ run'[r] \in [pc : Pcs, text : Texts, drained : 0..DrainGuard]
             /\ run'[r].text = run[r].text /\ run'[r].drained = run[r].drained
             /\ run'[r].pc = IF r \in S THEN pc ELSE run[r].pc
  <2> DEFINE v == IF r \in S THEN pc ELSE run[r].pc
  <2>1. run'[r] = [run[r] EXCEPT !.pc = v]
    BY <1>1
  <2>2. run[r] \in [pc : Pcs, text : Texts, drained : 0..DrainGuard] /\ v \in Pcs
    BY <1>1
  <2> HIDE DEF v
  <2>3. /\ run'[r] \in [pc : Pcs, text : Texts, drained : 0..DrainGuard]
        /\ run'[r].text = run[r].text /\ run'[r].drained = run[r].drained
        /\ run'[r].pc = v
    BY <2>1, <2>2
  <2> QED BY <2>3 DEF v
<1>3. run' = [r \in Texts |-> run'[r]]
  BY Zenon DEF Put
<1> QED BY <1>2, <1>3, Zenon

(* What becomes of the runs of S when their turns fail or end.              *)
Settles(S) ==
  /\ \A r \in Texts : run'[r].text = run[r].text
  /\ \A r \in S : run'[r].pc = "settled"
  /\ \A r \in Texts \ S :
       \/ run'[r].pc = run[r].pc
       \/ run[r].pc = "waiting" /\ run'[r].pc = "stuck" /\ r # turn
  /\ \A t \in Texts : result'[t] # None <=> result[t] # None \/ t \in TextsOf(S)
  /\ forgotten \subseteq forgotten' /\ forgotten' \subseteq forgotten \cup TurnText
  /\ \/ turn' = turn /\ turn \notin S
     \/ turn' = None /\ (TurnText \subseteq forgotten' \/ turn \in S)

Asking == {"turn", "connecting", "creating", "waiting"}

LEMMA SettlesKeeps ==
  ASSUME RunInv, RunTypes', NEW S, S \subseteq Texts,
         \A r \in S : run[r].pc \in Asking, Settles(S)
  PROVE  /\ RunInv'
         /\ Held' = Held \ TextsOf(S) /\ Done' = Done \cup TextsOf(S)
         /\ TextsOf(S) \subseteq Held /\ HadKept
<1>1. \A r \in Texts : r \in Holders' <=> r \in Holders /\ r \notin S
  BY DEF Settles, Holders, Live, Asking
<1>2. S \subseteq Holders /\ Holders' = Holders \ S
  BY <1>1 DEF Holders, Live, Asking
<1>3. HolderInv'
  BY <1>2 DEF RunInv, HolderInv, Settles, Holders
<1>4. FreshInv'
  BY DEF RunInv, FreshInv, Settles
<1>5. TurnInv'
  BY Numbers DEF RunInv, RunTypes, TurnInv, Settles
<1>6. TurnText = IF turn = None THEN {} ELSE {run[turn].text}
  BY Numbers DEF TurnText, TextsOf, RunInv, RunTypes
<1>7. WaiterHasTurn'
  <2>1. SUFFICES ASSUME NEW r \in Texts, run'[r].pc \in {"waiting", "stuck"}
                 PROVE  turn' = r \/ run'[r].text \in forgotten'
    BY DEF WaiterHasTurn, At
  <2>2. r \notin S /\ run[r].pc \in {"waiting", "stuck"} /\ run'[r].text = run[r].text
    BY <2>1 DEF Settles
  <2>3. turn = r \/ run[r].text \in forgotten
    BY <2>2 DEF RunInv, WaiterHasTurn, At
  <2>4. CASE turn = r
    BY <1>6, <2>2, <2>4, Numbers DEF Settles
  <2> QED BY <2>2, <2>3, <2>4 DEF Settles
<1>8. Done' = Done \cup TextsOf(S)
  BY DEF Done, Settles, TextsOf, RunInv, RunTypes
<1>9. ForgottenInv'
  <2>1. SUFFICES ASSUME NEW t \in forgotten', t \notin Done'
                 PROVE  \E r \in Texts : run'[r].pc \in {"waiting", "stuck"}
                                         /\ run'[r].text = t
    BY DEF ForgottenInv, At
  <2>2. t \notin Done /\ t \notin TextsOf(S)
    BY <1>8, <2>1
  <2>3. PICK r \in Texts : run[r].pc \in {"waiting", "stuck"} /\ run[r].text = t
    <3>1. CASE t \in forgotten
      BY <2>2, <3>1 DEF RunInv, ForgottenInv, At
    <3>2. CASE t \in TurnText
      BY <1>6, <3>2 DEF RunInv, RunTypes, TurnInv
    <3> QED BY <2>1, <3>1, <3>2 DEF Settles
  <2>4. r \notin S
    BY <2>2, <2>3 DEF TextsOf
  <2> QED BY <2>3, <2>4 DEF Settles
<1>10. Held' = Held \ TextsOf(S)
  BY <1>2 DEF Held, TextsOf, Settles, RunInv, HolderInv, Holders
<1>11. TextsOf(S) \subseteq Held
  BY <1>2 DEF Held, TextsOf
<1>12. HadKept
  <2>1. ASSUME NEW r \in Turning
        PROVE  run[r].text \in HadItsTurn'
    <3>1. r \in Texts /\ run[r].text \in Texts /\ run'[r].text = run[r].text
      BY DEF Turning, RunInv, RunTypes, Settles
    <3>2. CASE r \in S
      BY <3>1, <3>2 DEF Settles, TextsOf, HadItsTurn
    <3>3. CASE r \notin S
      <4>1. r \in Turning'
        BY <3>1, <3>3 DEF Settles, Turning
      <4> QED BY <3>1, <4>1 DEF HadItsTurn
    <3> QED BY <3>2, <3>3
  <2>2. \A t \in Texts : result[t] # None => t \in HadItsTurn'
    BY DEF Settles, HadItsTurn
  <2> QED BY <2>1, <2>2 DEF HadKept, HadItsTurn
<1> QED BY <1>3, <1>4, <1>5, <1>7, <1>8, <1>9, <1>10, <1>11, <1>12 DEF RunInv

(* A result is overwritten by an error only.                                *)
FailedOnly == \A t \in Texts : result'[t] \in {result[t], Failed}

LEMMA ErrorResults ==
  ASSUME RunTypes, NEW S, S \subseteq Texts, Error(S)
  PROVE  /\ result' \in [Texts -> Texts \cup {None, Failed}]
         /\ \A t \in Texts : result'[t] # None <=> result[t] # None \/ t \in TextsOf(S)
         /\ FailedOnly
<1>1. result' = [t \in Texts |-> IF t \in TextsOf(S) THEN Failed ELSE result[t]]
  BY DEF Error, TextsOf
<1>2. \A t \in Texts : result[t] \in Texts \cup {None, Failed}
  BY DEF RunTypes
<1> QED BY <1>1, <1>2, Numbers DEF FailedOnly

LEMMA FailSettles ==
  ASSUME RunInv, NEW S, S \subseteq Texts, \A r \in S : run[r].pc \in Asking,
         Fail(S),
         \/ turn' = turn /\ turn \notin S
         \/ turn' = None /\ (turn \in S \/ turn = None)
  PROVE  Settles(S) /\ RunTypes' /\ FailedOnly
<1>1. /\ run' \in [Texts -> [pc : Pcs, text : Texts, drained : 0..DrainGuard]]
      /\ \A r \in Texts : /\ run'[r].text = run[r].text
                          /\ run'[r].drained = run[r].drained
                          /\ run'[r].pc = IF r \in S THEN "settled" ELSE run[r].pc
  <2>1. "settled" \in Pcs
    BY DEF Pcs
  <2> QED BY <2>1, PutRuns DEF Fail, RunInv
<1>2. /\ result' \in [Texts -> Texts \cup {None, Failed}]
      /\ \A t \in Texts : result'[t] # None <=> result[t] # None \/ t \in TextsOf(S)
      /\ FailedOnly
  BY ErrorResults DEF Fail, RunInv
<1>3. /\ forgotten \subseteq forgotten' /\ forgotten' \subseteq forgotten \cup TurnText
      /\ forgotten' \subseteq Texts
  BY DEF Fail, Forget, TurnText, TextsOf, RunInv, RunTypes
<1>4. \/ turn' = turn /\ turn \notin S
      \/ turn' = None /\ (TurnText \subseteq forgotten' \/ turn \in S)
  BY Numbers DEF TurnText, TextsOf
<1>5. RunTypes'
  BY <1>1, <1>2, <1>3 DEF RunTypes, RunInv
<1> QED BY <1>1, <1>2, <1>3, <1>4, <1>5 DEF Settles

LEMMA RefusedSettles ==
  ASSUME RunInv, NEW t, Refused(t)
  PROVE  /\ Settles(Waiting("waiting", {t})) /\ RunTypes' /\ FailedOnly
         /\ TurnText \subseteq forgotten'
<1> DEFINE S == Waiting("waiting", {t})
<1>1. S \subseteq Texts
  BY DEF Waiting, At
<1> HIDE DEF S
<1>2. Put(S, "settled") /\ Error(S) /\ Forget(Texts) /\ turn' = None
  BY DEF Refused, S
<1>3. /\ run' \in [Texts -> [pc : Pcs, text : Texts, drained : 0..DrainGuard]]
      /\ \A r \in Texts : /\ run'[r].text = run[r].text
                          /\ run'[r].drained = run[r].drained
                          /\ run'[r].pc = IF r \in S THEN "settled" ELSE run[r].pc
  <2>1. "settled" \in Pcs
    BY DEF Pcs
  <2> QED BY <1>2, <2>1, PutRuns DEF RunInv
<1>4. /\ result' \in [Texts -> Texts \cup {None, Failed}]
      /\ \A u \in Texts : result'[u] # None <=> result[u] # None \/ u \in TextsOf(S)
      /\ FailedOnly
  BY <1>1, <1>2, ErrorResults DEF RunInv
<1>5. forgotten' = forgotten \cup TurnText /\ forgotten' \subseteq Texts
  BY <1>2 DEF Forget, TurnText, TextsOf, RunInv, RunTypes
<1>6. RunTypes'
  BY <1>2, <1>3, <1>4, <1>5 DEF RunTypes
<1>7. Settles(S)
  BY <1>1, <1>2, <1>3, <1>4, <1>5 DEF Settles
<1> QED BY <1>4, <1>5, <1>6, <1>7 DEF S

LEMMA TurnTimeoutSettles ==
  ASSUME RunInv, NEW r \in Texts, TurnTimeout(r)
  PROVE  /\ Settles(Texts \cap {turn}) /\ RunTypes' /\ FailedOnly
         /\ \A q \in Texts \cap {turn} : run[q].pc \in Asking
<1> DEFINE S == Texts \cap {turn}
<1>1. /\ S \subseteq Texts /\ \A q \in S : run[q].pc \in Asking
      /\ turn \in S \/ turn = None
  BY Numbers DEF RunInv, RunTypes, TurnInv, Asking
<1>2. CASE turn = r
  <2>1. Fail(S) /\ turn' = None
    BY <1>2, Zenon DEF TurnTimeout, FailTurn
  <2> QED BY <1>1, <2>1, FailSettles
<1>3. CASE turn # r
  <2>1. /\ run' = [q \in Texts |-> [run[q] EXCEPT
             !.pc = IF q = r THEN "stuck" ELSE IF q \in S THEN "settled" ELSE run[q].pc]]
        /\ Error(S) /\ Forget(S) /\ turn' = None /\ run[r].pc = "waiting"
    BY <1>3, Zenon DEF TurnTimeout
  <2>2. ASSUME NEW q \in Texts
        PROVE  /\ run'[q] \in [pc : Pcs, text : Texts, drained : 0..DrainGuard]
               /\ run'[q].text = run[q].text
               /\ run'[q].pc = IF q = r THEN "stuck"
                               ELSE IF q \in S THEN "settled" ELSE run[q].pc
    <3> DEFINE v == IF q = r THEN "stuck" ELSE IF q \in S THEN "settled" ELSE run[q].pc
    <3>1. run'[q] = [run[q] EXCEPT !.pc = v]
      BY <2>1, Zenon
    <3>2. run[q] \in [pc : Pcs, text : Texts, drained : 0..DrainGuard] /\ v \in Pcs
      BY DEF RunInv, RunTypes, Pcs
    <3> HIDE DEF v
    <3>3. /\ run'[q] \in [pc : Pcs, text : Texts, drained : 0..DrainGuard]
          /\ run'[q].text = run[q].text /\ run'[q].pc = v
      BY <3>1, <3>2
    <3> QED BY <3>3 DEF v
  <2>3. run' = [q \in Texts |-> run'[q]]
    BY <2>1, Zenon
  <2> HIDE DEF S
  <2>4. /\ result' \in [Texts -> Texts \cup {None, Failed}]
        /\ \A t \in Texts : result'[t] # None <=> result[t] # None \/ t \in TextsOf(S)
        /\ FailedOnly
    BY <1>1, <2>1, ErrorResults DEF RunInv
  <2>5. /\ forgotten' = forgotten \cup TextsOf(S) /\ TextsOf(S) = TurnText
        /\ forgotten' \subseteq Texts
    BY <1>1, <2>1 DEF Forget, S, TextsOf, TurnText, RunInv, RunTypes
  <2>6. run' \in [Texts -> [pc : Pcs, text : Texts, drained : 0..DrainGuard]]
    BY <2>2, <2>3, Zenon
  <2>7. RunTypes'
    BY <2>1, <2>4, <2>5, <2>6 DEF RunTypes
  <2>8. r \notin S
    BY <1>3 DEF S
  <2>9. Settles(S)
    BY <1>1, <1>3, <2>1, <2>2, <2>4, <2>5, <2>8 DEF Settles
  <2> QED BY <1>1, <2>4, <2>7, <2>9 DEF S
<1> QED BY <1>2, <1>3

(* Runs that go on: to ask the gateway, to wait for their turn, or to end.  *)
LEMMA MoveKeeps ==
  ASSUME RunInv, NEW S, S \subseteq Texts, NEW pc, Move(S, pc), turn' = turn,
         \/ /\ \A r \in S : run[r].pc \in {"starting", "turn", "connecting", "creating"}
            /\ pc \in {"turn", "connecting", "creating"}
         \/ pc = "starting" /\ \A r \in S : run[r].pc = "preflight"
         \/ pc = "over" /\ \A r \in S : run[r].pc = "settled"
  PROVE  /\ RunInv' /\ Held' = Held /\ Done' = Done /\ FailedOnly /\ HadKept
         /\ forgotten' = forgotten /\ TurnText' = TurnText
         /\ \A r \in Texts : run'[r].pc = "none" <=> run[r].pc = "none"
<1>1. pc \in Pcs
  BY DEF Pcs
<1>2. Put(S, pc) /\ result' = result /\ forgotten' = forgotten
  BY DEF Move
<1>3. /\ run' \in [Texts -> [pc : Pcs, text : Texts, drained : 0..DrainGuard]]
      /\ \A r \in Texts : /\ run'[r].text = run[r].text
                          /\ run'[r].pc = IF r \in S THEN pc ELSE run[r].pc
  BY <1>1, <1>2, PutRuns DEF RunInv
<1>4. RunTypes'
  BY <1>2, <1>3 DEF RunInv, RunTypes
<1>5. Holders' = Holders
  BY <1>3 DEF Holders, Live
<1>6. HolderInv' /\ FreshInv'
  BY <1>3, <1>5 DEF RunInv, HolderInv, FreshInv, Holders
<1>7. \A r \in Texts : run'[r].pc \in {"waiting", "stuck"} <=> run[r].pc \in {"waiting", "stuck"}
  BY <1>3
<1>8. TurnInv'
  BY <1>3, Numbers DEF RunInv, RunTypes, TurnInv
<1>9. WaiterHasTurn'
  BY <1>2, <1>3, <1>7 DEF RunInv, WaiterHasTurn, At
<1>10. Done' = Done /\ FailedOnly
  BY <1>2 DEF Done, FailedOnly
<1>11. ForgottenInv'
  BY <1>2, <1>3, <1>7, <1>10 DEF RunInv, ForgottenInv, At
<1>12. Held' = Held /\ TurnText' = TurnText
  BY <1>3, <1>5 DEF Held, TextsOf, TurnText, Holders
<1>13. HadKept
  <2>1. \A r \in Turning : r \in Turning' /\ run'[r].text = run[r].text
    BY <1>3 DEF Turning
  <2> QED BY <1>2, <2>1 DEF HadKept, HadItsTurn
<1> QED
  BY <1>2, <1>3, <1>4, <1>6, <1>8, <1>9, <1>10, <1>11, <1>12, <1>13 DEF RunInv

LEMMA SubmitOverKeeps ==
  ASSUME RunInv, NEW r \in Texts, run[r].pc \in {"turn", "creating"},
         turn = None, turn' = r, Move({r}, "waiting")
  PROVE  /\ RunInv' /\ Held' = Held /\ Done' = Done /\ FailedOnly /\ HadKept
         /\ forgotten' = forgotten /\ TurnText = {} /\ TurnText' = {run[r].text}
         /\ run[r].text \in Held
         /\ run[r].text \notin forgotten \/ run[r].text \in Done
         /\ \A q \in Texts : run'[q].pc = "none" <=> run[q].pc = "none"
<1>1. "waiting" \in Pcs
  BY DEF Pcs
<1>2. Put({r}, "waiting") /\ result' = result /\ forgotten' = forgotten
  BY DEF Move
<1>3. /\ run' \in [Texts -> [pc : Pcs, text : Texts, drained : 0..DrainGuard]]
      /\ \A q \in Texts : /\ run'[q].text = run[q].text
                          /\ run'[q].pc = IF q = r THEN "waiting" ELSE run[q].pc
  BY <1>1, <1>2, PutRuns DEF RunInv
<1>4. RunTypes'
  BY <1>2, <1>3 DEF RunInv, RunTypes
<1>5. Holders' = Holders /\ r \in Holders
  BY <1>3 DEF Holders, Live
<1>6. HolderInv' /\ FreshInv' /\ TurnInv'
  BY <1>3, <1>5 DEF RunInv, HolderInv, FreshInv, TurnInv, Holders
<1>7. WaiterHasTurn'
  BY <1>2, <1>3, Numbers DEF RunInv, WaiterHasTurn, At
<1>8. Done' = Done /\ FailedOnly
  BY <1>2 DEF Done, FailedOnly
<1>9. ForgottenInv'
  BY <1>2, <1>3, <1>8 DEF RunInv, ForgottenInv, At
<1>10. Held' = Held /\ TurnText = {} /\ TurnText' = {run[r].text}
  BY <1>3, <1>5, Numbers DEF Held, TextsOf, TurnText, Holders
<1>11. run[r].text \in Held
  BY <1>5 DEF Held, TextsOf
<1>12. run[r].text \notin forgotten \/ run[r].text \in Done
  BY <1>5 DEF RunInv, ForgottenInv, HolderInv, Holders, Live, At
<1>13. HadKept
  <2>1. \A q \in Turning : q \in Turning' /\ run'[q].text = run[q].text
    BY <1>3 DEF Turning
  <2> QED BY <1>2, <2>1 DEF HadKept, HadItsTurn
<1> QED
  BY <1>2, <1>3, <1>4, <1>6, <1>7, <1>8, <1>9, <1>10, <1>11, <1>12, <1>13 DEF RunInv

-----------------------------------------------------------------------------
(* The five places.                                                         *)

LEMMA SteersReturnKeeps ==
  ASSUME QueueTypes, QueueInv, PlaceInv, NEW S, SteersReturn(S)
  PROVE  /\ QueueTypes' /\ QueueInv' /\ typed' = typed /\ dropped' = dropped
         /\ Queued' \cup steering' = Queued \cup steering
         /\ Queued' \cap steering' = {}
<1>1. CASE active
  <2>1. /\ followUps' = followUps /\ steering' = steering /\ typed' = typed
        /\ dropped' = dropped
    BY <1>1 DEF SteersReturn, queueVars
  <2> QED BY <2>1 DEF QueueTypes, QueueInv, Queued, PlaceInv
<1>2. CASE ~active
  <2> DEFINE T == Landed(S)
             u == SetToSeq(T)
  <2>1. /\ steering' = steering \ T /\ followUps' = followUps \o u
        /\ typed' = typed /\ dropped' = dropped
    BY <1>2 DEF SteersReturn
  <2>2. T \subseteq Texts /\ T \subseteq steering /\ IsFiniteSet(T)
    BY TextsFinite DEF QueueTypes, Landed
  <2> HIDE DEF T
  <2>3. \A t : u \in Seq(T) /\ (Occurs(t, u) <=> t \in T) /\ Single(t, u)
    BY <2>2, SetToSeqOccurs
  <2>4. u \in Seq(Texts)
    BY <2>2, <2>3, SMT
  <2> HIDE DEF u
  <2>5. \A t : /\ followUps' \in Seq(Texts)
               /\ Occurs(t, followUps') <=> Occurs(t, followUps) \/ t \in T
               /\ Single(t, followUps) /\ ~(Occurs(t, followUps) /\ t \in T)
                    => Single(t, followUps')
    <3>1. followUps \in Seq(Texts)
      BY DEF QueueTypes
    <3>2. \A t : /\ followUps \o u \in Seq(Texts)
                 /\ Occurs(t, followUps \o u) <=> Occurs(t, followUps) \/ Occurs(t, u)
                 /\ Single(t, followUps) /\ Single(t, u)
                      /\ ~(Occurs(t, followUps) /\ Occurs(t, u))
                    => Single(t, followUps \o u)
      BY <2>4, <3>1, ConcatOccurs
    <3> QED BY <2>1, <2>3, <3>2
  <2>6. \A t \in Texts : ~(Occurs(t, followUps) /\ t \in T)
    BY <2>2 DEF PlaceInv, Queued
  <2>7. QueueInv'
    BY <2>5, <2>6 DEF QueueInv
  <2>8. Queued' = Queued \cup T
    BY <2>2, <2>5 DEF Queued
  <2>9. QueueTypes'
    BY <2>1, <2>2, <2>5 DEF QueueTypes
  <2>10. Queued' \cup steering' = Queued \cup steering /\ Queued' \cap steering' = {}
    BY <2>1, <2>2, <2>8 DEF PlaceInv
  <2> QED BY <2>1, <2>7, <2>9, <2>10
<1> QED BY <1>1, <1>2

(* A turn that starts removes at most one text, which says the same, from   *)
(* where it was queued.                                                     *)
LEMMA MessageStarts ==
  ASSUME NEW fs \in Seq(Texts), \A x \in Texts : Single(x, fs), NEW t \in Texts,
         QueueTypes, t \notin steering, ~Occurs(t, fs),
         \A x \in steering : ~Occurs(x, fs), MessageStart(t, fs)
  PROVE  \E X \in SUBSET Texts :
           /\ X \subseteq Equal(t) \ {t} /\ dropped' = dropped \cup X
           /\ followUps' \in Seq(Texts) /\ QueueInv' /\ steering' \subseteq Texts
           /\ \A x \in Texts : Occurs(x, fs) \/ x \in steering
                               <=> x \in Queued' \/ x \in steering' \/ x \in X
           /\ \A x \in Texts : /\ ~(x \in Queued' /\ x \in steering')
                               /\ x \in X => x \notin Queued' /\ x \notin steering'
<1>1. CASE \E s \in First(t, steering) :
             /\ steering' = steering \ {s} /\ dropped' = dropped \cup {s}
             /\ followUps' = fs
  <2>1. PICK s \in First(t, steering) :
          /\ steering' = steering \ {s} /\ dropped' = dropped \cup {s}
          /\ followUps' = fs
    BY <1>1
  <2>2. s \in Equal(t) /\ s \in steering /\ s # t /\ s \in Texts
    BY DEF First, QueueTypes
  <2>3. PICK X : X = {s}
    OBVIOUS
  <2>4. X \in SUBSET Texts /\ X \subseteq Equal(t) \ {t} /\ dropped' = dropped \cup X
    BY <2>1, <2>2, <2>3
  <2>5. QueueInv' /\ steering' \subseteq Texts /\ steering' = steering \ X
    BY <2>1, <2>3 DEF QueueInv, QueueTypes
  <2>6. \A x \in Texts : x \in Queued' <=> Occurs(x, fs)
    BY <2>1 DEF Queued
  <2>7. \A x \in Texts : x \in X => x \in steering /\ ~Occurs(x, fs)
    BY <2>2, <2>3
  <2> QED BY <2>1, <2>4, <2>5, <2>6, <2>7
<1>2. CASE /\ \E i \in DOMAIN fs : /\ fs[i] \in Equal(t)
                                  /\ followUps' = RemoveAt(fs, i)
                                  /\ dropped' = dropped \cup {fs[i]}
           /\ steering' = steering
  <2>1. PICK i \in DOMAIN fs : /\ fs[i] \in Equal(t)
                               /\ followUps' = RemoveAt(fs, i)
                               /\ dropped' = dropped \cup {fs[i]}
    BY <1>2
  <2>2. i \in 1..Len(fs) /\ fs[i] \in Texts
    BY SMT
  <2>3. PICK s, X : s = fs[i] /\ X = {fs[i]}
    OBVIOUS
  <2>4. Occurs(s, fs) /\ s # t /\ s \notin steering /\ Single(fs[i], fs)
    BY <2>2, <2>3 DEF Occurs
  <2>5. X \in SUBSET Texts /\ X \subseteq Equal(t) \ {t} /\ dropped' = dropped \cup X
    BY <2>1, <2>2, <2>3, <2>4
  <2>6. \A x : /\ RemoveAt(fs, i) \in Seq(Texts)
               /\ Occurs(x, RemoveAt(fs, i)) <=> Occurs(x, fs) /\ x # fs[i]
               /\ Single(x, fs) => Single(x, RemoveAt(fs, i))
    BY <2>2, <2>4, RemoveAtOccurs
  <2>7. followUps' \in Seq(Texts) /\ QueueInv' /\ steering' \subseteq Texts
    BY <1>2, <2>1, <2>6 DEF QueueInv, QueueTypes
  <2>8. \A x \in Texts : x \in Queued' <=> Occurs(x, fs) /\ x # s
    BY <2>1, <2>3, <2>6 DEF Queued
  <2>9. \A x \in Texts : x \in X <=> x = s
    BY <2>3
  <2> QED BY <1>2, <2>4, <2>5, <2>7, <2>8, <2>9
<1>3. CASE followUps' = fs /\ steering' = steering /\ dropped' = dropped
  <2>1. PICK X : X = {}
    OBVIOUS
  <2>2. X \in SUBSET Texts /\ X \subseteq Equal(t) \ {t} /\ dropped' = dropped \cup X
    BY <1>3, <2>1
  <2>3. QueueInv' /\ steering' \subseteq Texts
    BY <1>3 DEF QueueInv, QueueTypes
  <2>4. \A x \in Texts : (x \in Queued' <=> Occurs(x, fs)) /\ x \notin X
    BY <1>3, <2>1 DEF Queued
  <2> QED BY <1>3, <2>2, <2>3, <2>4
<1> QED BY <1>1, <1>2, <1>3, Zenon DEF MessageStart

(* Everything about where the texts are.                                    *)
Core == RunInv /\ QueueTypes /\ PlaceInv /\ QueueInv /\ NewInv /\ DroppedInv

(* What is dropped stays so, for its reason, and more may be for the same.  *)
LEMMA DroppedKept ==
  ASSUME Core, HadKept, NEW X, dropped' = dropped \cup X,
         \A x \in X : (Equal(x) \ {x}) \cap HadItsTurn' # {}
  PROVE  DroppedInv'
<1>1. SUFFICES ASSUME NEW x \in dropped'
               PROVE  (Equal(x) \ {x}) \cap HadItsTurn' # {}
  BY DEF DroppedInv, Equal
<1>2. CASE x \in dropped
  BY <1>2 DEF Core, DroppedInv, HadKept
<1> QED BY <1>2

LEMMA CoreKept ==
  ASSUME Core, RunInv', HadKept, NEW T, T \subseteq Held,
         Held' = Held \ T, Done' = Done \cup T,
         \A r \in Texts : run[r].pc = "none" => run'[r].pc = "none",
         NEW S, UNCHANGED queueVars \/ SteersReturn(S)
  PROVE  Core'
<1>1. /\ QueueTypes' /\ QueueInv' /\ typed' = typed /\ dropped' = dropped
      /\ Queued' \cup steering' = Queued \cup steering
      /\ Queued' \cap steering' = {}
  <2>1. CASE UNCHANGED queueVars
    BY <2>1 DEF Core, queueVars, QueueTypes, QueueInv, Queued, PlaceInv
  <2>2. CASE SteersReturn(S)
    BY <2>2, SteersReturnKeeps DEF Core
  <2> QED BY <2>1, <2>2
<1>2. Typed' = Typed
  BY <1>1 DEF Typed
<1>3. PlaceInv'
  <2> DEFINE H == Held  H1 == Held'  Q == Queued  Q1 == Queued'  D == Done  D1 == Done'
             Y == Typed  Y1 == Typed'
  <2>1. /\ H \cap (Q \cup steering \cup dropped \cup D) = {}
        /\ Q \cap (steering \cup dropped \cup D) = {}
        /\ steering \cap (dropped \cup D) = {} /\ dropped \cap D = {}
        /\ Y = H \cup Q \cup steering \cup dropped \cup D
    BY DEF Core, PlaceInv
  <2>2. /\ H1 = H \ T /\ D1 = D \cup T /\ T \subseteq H /\ Y1 = Y
        /\ Q1 \cup steering' = Q \cup steering /\ Q1 \cap steering' = {}
        /\ dropped' = dropped
    BY <1>1, <1>2
  <2>3. /\ H1 \cap (Q1 \cup steering' \cup dropped' \cup D1) = {}
        /\ Q1 \cap (steering' \cup dropped' \cup D1) = {}
        /\ steering' \cap (dropped' \cup D1) = {} /\ dropped' \cap D1 = {}
        /\ Y1 = H1 \cup Q1 \cup steering' \cup dropped' \cup D1
    <3> HIDE DEF H, H1, Q, Q1, D, D1, Y, Y1
    <3> QED BY <2>1, <2>2
  <2> QED BY <2>3 DEF PlaceInv
<1>4. NewInv'
  BY <1>1 DEF Core, NewInv
<1>5. DroppedInv'
  BY <1>1 DEF Core, DroppedInv, HadKept, Equal
<1> QED BY <1>1, <1>3, <1>4, <1>5 DEF Core

(* Runs that settle, and runs that move on.                                 *)
LEMMA SettlingKeepsCore ==
  ASSUME Core, RunTypes', NEW S, S \subseteq Texts,
         \A r \in S : run[r].pc \in Asking, Settles(S),
         NEW X, UNCHANGED queueVars \/ SteersReturn(X)
  PROVE  Core'
<1>1. /\ RunInv' /\ Held' = Held \ TextsOf(S) /\ Done' = Done \cup TextsOf(S)
      /\ TextsOf(S) \subseteq Held /\ HadKept
  BY SettlesKeeps DEF Core
<1>2. \A r \in Texts : run[r].pc = "none" => run'[r].pc = "none"
  BY DEF Settles, Asking
<1> QED BY <1>1, <1>2, CoreKept

LEMMA MovingKeepsCore ==
  ASSUME Core, RunInv', HadKept, Held' = Held, Done' = Done,
         \A r \in Texts : run'[r].pc = "none" <=> run[r].pc = "none",
         NEW X, UNCHANGED queueVars \/ SteersReturn(X)
  PROVE  Core'
<1>1. PICK T : T = {}
  OBVIOUS
<1>2. T \subseteq Held /\ Held' = Held \ T /\ Done' = Done \cup T
  BY <1>1
<1>3. \A r \in Texts : run[r].pc = "none" => run'[r].pc = "none"
  OBVIOUS
<1> HIDE <1>1
<1> QED BY <1>2, <1>3, CoreKept

-----------------------------------------------------------------------------
(* What the engine has.                                                     *)

(* The turn in flight and the texts given up are accounted for.             *)
Accounted == TurnText \cup forgotten \subseteq TurnText' \cup forgotten'

LEMMA SettlesAccounted ==
  ASSUME RunInv, NEW S, Settles(S), turn' = turn \/ TurnText \subseteq forgotten'
  PROVE  Accounted
<1>1. turn' = turn => TurnText' = TurnText
  BY DEF Settles, TurnText, TextsOf
<1> QED BY <1>1 DEF Settles, Accounted

(* Nothing new is asked of the engine.                                      *)
InboxKept ==
  /\ inbox' \in Seq(Calls)
  /\ \A t \in Texts : /\ Asked(t)' => Asked(t)
                      /\ Single(Call("submit", t), inbox')

WireKept ==
  /\ wire' = wire \/ (wire # <<>> /\ wire' = Tail(wire))
  /\ busy' = busy

LEMMA WireLines ==
  ASSUME EngineTypes, WireKept
  PROVE  /\ wire' \in Seq(Lines)
         /\ \A t \in Texts : /\ Ending(t)' => Ending(t)
                             /\ Single(End(t), wire) => Single(End(t), wire')
<1>1. wire \in Seq(Lines)
  BY DEF EngineTypes
<1>2. CASE wire' = wire
  BY <1>1, <1>2 DEF Ending
<1>3. CASE wire # <<>> /\ wire' = Tail(wire)
  <2>1. \A x : /\ Tail(wire) \in Seq(Lines)
               /\ Occurs(x, Tail(wire)) => Occurs(x, wire)
               /\ Single(x, wire) => Single(x, Tail(wire))
    BY <1>1, <1>3, TailOccurs
  <2> QED BY <1>3, <2>1 DEF Ending
<1> QED BY <1>2, <1>3 DEF WireKept

LEMMA MatchedKept ==
  ASSUME EngineTypes, Matched, InboxKept, WireKept, Accounted, FailedOnly,
         forgotten \subseteq forgotten'
  PROVE  Matched'
<1>1. \A t \in Texts : /\ Ending(t)' => Ending(t)
                       /\ Single(End(t), wire) => Single(End(t), wire')
  BY WireLines
<1>2. OnceInv'
  BY <1>1 DEF Matched, OnceInv, InboxKept, WireKept
<1>3. HasIt' \subseteq HasIt
  BY <1>1 DEF HasIt, InboxKept, WireKept
<1>4. EngineInv'
  BY <1>3 DEF Matched, EngineInv, Accounted
<1>5. OwnResult'
  BY DEF Matched, OwnResult, FailedOnly
<1> QED BY <1>2, <1>4, <1>5 DEF Matched

LEMMA CallsKnown ==
  /\ \A t \in Texts : /\ Call("submit", t) \in Calls /\ Call("create", t) \in Calls
                      /\ Call("steer", t) \in Calls
  /\ Call("interrupt", Aborter) \in Calls
  /\ \A t, u \in Texts : Call("submit", t) = Call("submit", u) => t = u
  /\ \A t \in Texts, c \in Calls : c.kind # "submit" => Call("submit", t) # c
  /\ \A c \in Calls : c.kind # "interrupt" => c.who \in Texts
  /\ \A c \in Calls : c.kind = "submit" => c = Call("submit", c.who)
BY DEF Call, Calls

LEMMA SendKeeps ==
  ASSUME EngineTypes, NEW C, C \subseteq Calls, IsFiniteSet(C), NEW gone, Send(C, gone)
  PROVE  /\ rpcs' \subseteq Calls /\ inbox' \in Seq(Calls)
         /\ \A x : /\ Occurs(x, inbox') <=> Occurs(x, inbox) \/ x \in C
                   /\ Single(x, inbox) /\ ~(Occurs(x, inbox) /\ x \in C)
                        => Single(x, inbox')
<1> DEFINE u == SetToSeq(C)
<1>1. \A x : u \in Seq(C) /\ (Occurs(x, u) <=> x \in C) /\ Single(x, u)
  BY SetToSeqOccurs
<1>2. u \in Seq(Calls)
  BY <1>1, SMT
<1>3. inbox' = inbox \o u /\ rpcs' = (rpcs \ gone) \cup C
  BY DEF Send
<1> HIDE DEF u
<1>4. inbox \in Seq(Calls) /\ rpcs \subseteq Calls
  BY DEF EngineTypes
<1>5. \A x : /\ inbox \o u \in Seq(Calls)
             /\ Occurs(x, inbox \o u) <=> Occurs(x, inbox) \/ Occurs(x, u)
             /\ Single(x, inbox) /\ Single(x, u) /\ ~(Occurs(x, inbox) /\ Occurs(x, u))
                  => Single(x, inbox \o u)
  BY <1>2, <1>4, ConcatOccurs
<1> QED BY <1>1, <1>3, <1>4, <1>5

(* Calls other than submit.                                                 *)
LEMMA SendOther ==
  ASSUME EngineTypes, Matched, NEW C, C \subseteq Calls, IsFiniteSet(C),
         \A c \in C : c.kind # "submit", NEW gone, Send(C, gone)
  PROVE  rpcs' \subseteq Calls /\ InboxKept
<1>1. \A t \in Texts : Call("submit", t) \notin C
  BY CallsKnown
<1>2. /\ rpcs' \subseteq Calls /\ inbox' \in Seq(Calls)
      /\ \A x : /\ Occurs(x, inbox') <=> Occurs(x, inbox) \/ x \in C
                /\ Single(x, inbox) /\ ~(Occurs(x, inbox) /\ x \in C)
                     => Single(x, inbox')
  BY SendKeeps
<1> QED BY <1>1, <1>2 DEF InboxKept, Asked, Matched, OnceInv

LEMMA SendNone ==
  ASSUME EngineTypes, Matched, NEW gone, Send({}, gone)
  PROVE  rpcs' \subseteq Calls /\ InboxKept
BY SendOther, FS_EmptySet

LEMMA InboxSame ==
  ASSUME EngineTypes, Matched, inbox' = inbox
  PROVE  InboxKept
BY DEF InboxKept, EngineTypes, Matched, OnceInv, Asked

-----------------------------------------------------------------------------
(* The steps that the gateway's operations are made of.                     *)

Known == Core /\ EngineTypes /\ Matched

LEMMA EngineTyped ==
  ASSUME EngineTypes, rpcs' \subseteq Calls, inbox' \in Seq(Calls), WireKept
  PROVE  EngineTypes'
BY WireLines DEF EngineTypes, WireKept

(* Runs settle and the gateway asks for nothing new.                        *)
LEMMA SettlingKeeps ==
  ASSUME Known, RunTypes', NEW S, S \subseteq Texts,
         \A r \in S : run[r].pc \in Asking, Settles(S), FailedOnly,
         turn' = turn \/ TurnText \subseteq forgotten',
         NEW X, UNCHANGED queueVars \/ SteersReturn(X),
         rpcs' \subseteq Calls, InboxKept, WireKept
  PROVE  Known'
<1>1. Core'
  BY SettlingKeepsCore DEF Known
<1>2. Accounted /\ forgotten \subseteq forgotten'
  BY SettlesAccounted DEF Known, Core, Settles
<1>3. Matched'
  BY <1>2, MatchedKept DEF Known
<1>4. EngineTypes'
  BY EngineTyped DEF Known, InboxKept
<1> QED BY <1>1, <1>3, <1>4 DEF Known

LEMMA FailKeeps ==
  ASSUME Known, NEW S, S \subseteq Texts, \A r \in S : run[r].pc \in Asking, Fail(S),
         \/ turn' = turn /\ turn \notin S
         \/ turn' = None /\ (turn \in S \/ turn = None),
         NEW X, UNCHANGED queueVars \/ SteersReturn(X),
         rpcs' \subseteq Calls, InboxKept, WireKept
  PROVE  Known'
<1>1. Settles(S) /\ RunTypes' /\ FailedOnly
  BY FailSettles DEF Known, Core
<1>2. turn' = turn \/ TurnText \subseteq forgotten'
  BY DEF Fail, Forget, TurnText, TextsOf
<1> QED BY <1>1, <1>2, SettlingKeeps

(* Runs that are not waiting fail without a turn.                           *)
LEMMA FailOthersKeeps ==
  ASSUME Known, NEW S, S \subseteq Texts,
         \A r \in S : run[r].pc \in {"turn", "connecting", "creating"}, Fail(S),
         turn' = turn, UNCHANGED queueVars,
         rpcs' \subseteq Calls, InboxKept, WireKept
  PROVE  Known'
<1>1. turn \notin S
  BY Numbers DEF Known, Core, RunInv, TurnInv, RunTypes
<1>2. \A r \in S : run[r].pc \in Asking
  BY DEF Asking
<1> QED BY <1>1, <1>2, FailKeeps

LEMMA MovingKeeps ==
  ASSUME Known, NEW S, S \subseteq Texts, NEW pc, Move(S, pc), turn' = turn,
         \/ /\ \A r \in S : run[r].pc \in {"starting", "turn", "connecting", "creating"}
            /\ pc \in {"turn", "connecting", "creating"}
         \/ pc = "starting" /\ \A r \in S : run[r].pc = "preflight"
         \/ pc = "over" /\ \A r \in S : run[r].pc = "settled",
         UNCHANGED queueVars, rpcs' \subseteq Calls, InboxKept, WireKept
  PROVE  Known'
<1>1. /\ RunInv' /\ Held' = Held /\ Done' = Done /\ FailedOnly /\ HadKept
      /\ forgotten' = forgotten /\ TurnText' = TurnText
      /\ \A r \in Texts : run'[r].pc = "none" <=> run[r].pc = "none"
  BY MoveKeeps DEF Known, Core
<1>2. Core'
  BY <1>1, MovingKeepsCore DEF Known
<1>3. Matched'
  BY <1>1, MatchedKept DEF Known, Accounted
<1>4. EngineTypes'
  BY EngineTyped DEF Known, InboxKept
<1> QED BY <1>2, <1>3, <1>4 DEF Known

LEMMA RunsSame ==
  ASSUME Known, UNCHANGED runVars, turn' = turn,
         NEW X, UNCHANGED queueVars \/ SteersReturn(X),
         rpcs' \subseteq Calls, InboxKept, WireKept
  PROVE  Known'
<1>1. run' = run /\ result' = result /\ forgotten' = forgotten
  BY DEF runVars
<1>2. /\ RunInv' /\ Held' = Held /\ Done' = Done /\ FailedOnly /\ TurnText' = TurnText
      /\ HadKept /\ \A r \in Texts : run'[r].pc = "none" <=> run[r].pc = "none"
  BY <1>1
  DEF Known, Core, HadKept, HadItsTurn, Turning, RunInv, RunTypes, HolderInv, Holders,
      FreshInv, TurnInv, WaiterHasTurn,
      ForgottenInv, At, Held, TextsOf, Done, FailedOnly, TurnText
<1>3. Core'
  BY <1>2, MovingKeepsCore DEF Known
<1>4. Matched'
  BY <1>1, <1>2, MatchedKept DEF Known, Accounted
<1>5. EngineTypes'
  BY EngineTyped DEF Known, InboxKept
<1> QED BY <1>3, <1>4, <1>5 DEF Known

(* The turn is taken and its text submitted: the engine has nothing of a    *)
(* text whose run has not asked yet.                                        *)
LEMMA SubmitOverMatched ==
  ASSUME Known, NEW r \in Texts, run[r].pc \in {"turn", "creating"}, turn = None,
         NEW gone, SubmitOver(r, gone), WireKept, UNCHANGED queueVars
  PROVE  Known'
<1> DEFINE t == run[r].text
           c == Call("submit", t)
<1>1. turn' = r /\ Move({r}, "waiting") /\ Send({c}, gone)
  BY DEF SubmitOver
<1>2. /\ RunInv' /\ Held' = Held /\ Done' = Done /\ FailedOnly /\ HadKept
      /\ forgotten' = forgotten /\ TurnText = {} /\ TurnText' = {t}
      /\ t \in Held /\ (t \notin forgotten \/ t \in Done)
      /\ \A q \in Texts : run'[q].pc = "none" <=> run[q].pc = "none"
  BY <1>1, SubmitOverKeeps DEF Known, Core
<1>3. Core'
  BY <1>2, MovingKeepsCore DEF Known
<1>4. t \in Texts /\ c \in Calls /\ IsFiniteSet({c})
  BY CallsKnown, FS_Singleton DEF Known, Core, RunInv, RunTypes
<1>5. t \notin HasIt
  BY <1>2 DEF Known, Core, PlaceInv, Matched, EngineInv
<1>6. /\ rpcs' \subseteq Calls /\ inbox' \in Seq(Calls)
      /\ \A x : /\ Occurs(x, inbox') <=> Occurs(x, inbox) \/ x \in {c}
                /\ Single(x, inbox) /\ ~(Occurs(x, inbox) /\ x \in {c})
                     => Single(x, inbox')
  BY <1>1, <1>4, SendKeeps DEF Known
<1>7. \A u \in Texts : /\ Asked(u)' <=> Asked(u) \/ u = t
                       /\ Single(Call("submit", u), inbox')
  BY <1>4, <1>5, <1>6, CallsKnown DEF Asked, Known, Matched, OnceInv, HasIt
<1>8. /\ \A u \in Texts : /\ Ending(u)' => Ending(u)
                          /\ Single(End(u), wire) => Single(End(u), wire')
      /\ busy' = busy
  BY WireLines DEF Known, WireKept
<1>9. OnceInv'
  BY <1>4, <1>5, <1>7, <1>8 DEF Known, Matched, OnceInv, HasIt
<1>10. HasIt' \subseteq HasIt \cup {t}
  BY <1>7, <1>8 DEF HasIt
<1>11. EngineInv'
  BY <1>2, <1>10 DEF Known, Matched, EngineInv
<1>12. OwnResult'
  BY <1>2 DEF Known, Matched, OwnResult, FailedOnly
<1>13. EngineTypes'
  BY <1>6, EngineTyped DEF Known
<1> QED BY <1>3, <1>9, <1>11, <1>12, <1>13 DEF Known, Matched

LEMMA SubmitKeeps ==
  ASSUME Known, NEW r \in Texts, run[r].pc \in {"turn", "creating"},
         NEW gone, Submit(r, gone), WireKept, UNCHANGED queueVars
  PROVE  Known'
<1>1. CASE turn = None /\ SubmitOver(r, gone)
  BY <1>1, SubmitOverMatched
<1>2. CASE Fail({r}) /\ Send({}, gone) /\ UNCHANGED turn
  <2>1. rpcs' \subseteq Calls /\ InboxKept
    BY <1>2, SendNone DEF Known
  <2>2. \A q \in {r} : run[q].pc \in {"turn", "connecting", "creating"}
    OBVIOUS
  <2> QED BY <1>2, <2>1, <2>2, FailOthersKeeps
<1> QED BY <1>1, <1>2 DEF Submit

LEMMA EnsureSessionKeeps ==
  ASSUME Known, NEW S, S \subseteq Texts, \A r \in S : run[r].pc \in {"turn", "connecting"},
         EnsureSession(S), turn' = turn, WireKept, UNCHANGED queueVars
  PROVE  Known'
<1>1. CASE Move(S, "creating") /\ Send({Call("create", run[r].text) : r \in S}, {})
  <2> DEFINE C == {Call("create", run[r].text) : r \in S}
             f == [r \in S |-> Call("create", run[r].text)]
  <2>1. IsFiniteSet(C)
    <3>1. f \in Surjection(S, C)
      BY DEF Surjection
    <3>2. IsFiniteSet(S)
      BY TextsFinite
    <3> QED BY <3>1, <3>2, FS_Surjection
  <2>2. C \subseteq Calls /\ \A c \in C : c.kind # "submit"
    <3>1. \A r \in S : run[r].text \in Texts
      BY DEF Known, Core, RunInv, RunTypes
    <3>2. \A r \in S : Call("create", run[r].text) \in Calls
      BY <3>1, CallsKnown
    <3>3. \A r \in S : Call("create", run[r].text).kind = "create"
      BY DEF Call
    <3> QED BY <3>2, <3>3
  <2>3. Send(C, {})
    BY <1>1
  <2> HIDE DEF C
  <2>4. rpcs' \subseteq Calls /\ InboxKept
    BY <2>1, <2>2, <2>3, SendOther DEF Known
  <2> QED BY <1>1, <2>4, MovingKeeps
<1>2. CASE Fail(S) /\ Send({}, {})
  <2>1. rpcs' \subseteq Calls /\ InboxKept
    BY <1>2, SendNone DEF Known
  <2> QED BY <1>2, <2>1, FailOthersKeeps
<1> QED BY <1>1, <1>2 DEF EnsureSession

LEMMA FailTurnKeeps ==
  ASSUME Known, FailTurn, UNCHANGED queueVars,
         rpcs' \subseteq Calls, InboxKept, WireKept
  PROVE  Known'
<1> DEFINE S == {turn} \cap Texts
<1>1. /\ S \subseteq Texts /\ \A r \in S : run[r].pc \in Asking
      /\ turn \in S \/ turn = None
  BY Numbers DEF Known, Core, RunInv, RunTypes, TurnInv, Asking
<1>2. Fail(S) /\ turn' = None
  BY DEF FailTurn
<1> HIDE DEF S
<1> QED BY <1>1, <1>2, FailKeeps

-----------------------------------------------------------------------------
(* The gateway: what it hears of, and when its process goes.                *)

LEMMA GoneSettles ==
  ASSUME Known, Gone
  PROVE  \E S \in SUBSET Texts :
           /\ \A r \in S : run[r].pc \in Asking
           /\ Settles(S) /\ RunTypes' /\ FailedOnly
           /\ TurnText \subseteq forgotten' /\ forgotten \subseteq forgotten'
<1> DEFINE S == At("connecting") \cup Waiting("creating", Callers("create"))
                \cup Waiting("waiting", Callers("submit")) \cup ({turn} \cap Texts)
<1>1. /\ S \subseteq Texts /\ \A r \in S : run[r].pc \in Asking
      /\ turn \in S \/ turn = None
  BY Numbers DEF Known, Core, RunInv, RunTypes, TurnInv, Asking, Waiting, At
<1>2. Fail(S) /\ turn' = None
  BY DEF Gone
<1> HIDE DEF S
<1>3. Settles(S) /\ RunTypes' /\ FailedOnly
  BY <1>1, <1>2, FailSettles DEF Known, Core
<1>4. TurnText \subseteq forgotten' /\ forgotten \subseteq forgotten'
  BY <1>1, <1>2, Numbers DEF Fail, Forget, TurnText, TextsOf
<1> QED BY <1>1, <1>3, <1>4

LEMMA ExitKeeps ==
  ASSUME Known, Exit
  PROVE  Known'
<1>1. Gone /\ inbox' = inbox /\ WireKept
  BY DEF Exit, WireKept
<1>2. PICK S \in SUBSET Texts :
        /\ \A r \in S : run[r].pc \in Asking
        /\ Settles(S) /\ RunTypes' /\ FailedOnly
        /\ TurnText \subseteq forgotten' /\ forgotten \subseteq forgotten'
  BY <1>1, GoneSettles
<1>3. SteersReturn(Callers("steer")) /\ rpcs' \subseteq Calls
  BY <1>1 DEF Gone
<1>4. InboxKept
  BY <1>1, InboxSame DEF Known
<1> QED BY <1>1, <1>2, <1>3, <1>4, SettlingKeeps

LEMMA DisposeKeeps ==
  ASSUME Known, Dispose
  PROVE  Known'
<1>1. Gone /\ inbox' = <<>> /\ wire' = <<>> /\ busy' = None
  BY DEF Dispose
<1>2. PICK S \in SUBSET Texts :
        /\ \A r \in S : run[r].pc \in Asking
        /\ Settles(S) /\ RunTypes' /\ FailedOnly
        /\ TurnText \subseteq forgotten' /\ forgotten \subseteq forgotten'
  BY <1>1, GoneSettles
<1>3. SteersReturn(Callers("steer")) /\ rpcs' = {}
  BY <1>1 DEF Gone
<1>4. Core'
  BY <1>2, <1>3, SettlingKeepsCore DEF Known
<1>5. \A x : ~Occurs(x, <<>>) /\ Single(x, <<>>)
  BY EmptyOccurs
<1>6. OnceInv' /\ HasIt' = {}
  BY <1>1, <1>5, Numbers DEF OnceInv, HasIt, Asked, Ending
<1>7. EngineInv' /\ OwnResult'
  BY <1>2, <1>6 DEF EngineInv, Known, Matched, OwnResult, FailedOnly
<1>8. EngineTypes'
  BY <1>1, <1>3, SMT DEF EngineTypes
<1> QED BY <1>4, <1>6, <1>7, <1>8 DEF Known, Matched

LEMMA AnsweredKeeps ==
  ASSUME Known, NEW c \in Calls, NEW ok, Answered(c, ok), WireKept
  PROVE  Known'
<1>1. CASE /\ UNCHANGED queueVars
           /\ \E r \in Waiting("creating", {c.who}) : Submit(r, {c})
  <2>1. PICK r \in Waiting("creating", {c.who}) : Submit(r, {c})
    BY <1>1
  <2>2. r \in Texts /\ run[r].pc \in {"turn", "creating"}
    BY DEF Waiting, At
  <2> QED BY <1>1, <2>1, <2>2, SubmitKeeps
<1>2. CASE /\ Fail(Waiting("creating", {c.who})) /\ Send({}, {c})
           /\ UNCHANGED <<turn, queueVars>>
  <2>1. PICK S : S = Waiting("creating", {c.who})
    OBVIOUS
  <2>2. S \subseteq Texts /\ \A r \in S : run[r].pc \in {"turn", "connecting", "creating"}
    BY <2>1 DEF Waiting, At
  <2>3. rpcs' \subseteq Calls /\ InboxKept
    BY <1>2, SendNone DEF Known
  <2>4. Fail(S) /\ turn' = turn /\ UNCHANGED queueVars
    BY <1>2, <2>1
  <2> QED BY <2>2, <2>3, <2>4, FailOthersKeeps
<1>3. CASE Send({}, {c}) /\ UNCHANGED <<turn, runVars, queueVars>>
  <2>1. rpcs' \subseteq Calls /\ InboxKept
    BY <1>3, SendNone DEF Known
  <2> QED BY <1>3, <2>1, RunsSame
<1>4. CASE Refused(c.who) /\ Send({}, {c}) /\ UNCHANGED queueVars
  <2>1. PICK S : S = Waiting("waiting", {c.who})
    OBVIOUS
  <2>2. /\ Settles(S) /\ RunTypes' /\ FailedOnly /\ TurnText \subseteq forgotten'
    BY <1>4, <2>1, RefusedSettles DEF Known, Core
  <2>3. S \subseteq Texts /\ \A r \in S : run[r].pc \in Asking
    BY <2>1 DEF Waiting, At, Asking
  <2>4. rpcs' \subseteq Calls /\ InboxKept
    BY <1>4, SendNone DEF Known
  <2> QED BY <1>4, <2>2, <2>3, <2>4, SettlingKeeps
<1>5. CASE SteersReturn({c.who}) /\ Send({}, {c}) /\ UNCHANGED <<turn, runVars>>
  <2>1. rpcs' \subseteq Calls /\ InboxKept
    BY <1>5, SendNone DEF Known
  <2> QED BY <1>5, <2>1, RunsSame
<1> QED BY <1>1, <1>2, <1>3, <1>4, <1>5 DEF Answered

LEMMA UnexpectedKeeps ==
  ASSUME Known, NEW ok, Unexpected(ok), WireKept
  PROVE  Known'
<1>1. rpcs' = rpcs /\ inbox' = inbox /\ UNCHANGED queueVars
  BY DEF Unexpected
<1>2. rpcs' \subseteq Calls /\ InboxKept
  BY <1>1, InboxSame DEF Known, EngineTypes
<1>3. CASE UNCHANGED <<turn, runVars>>
  BY <1>1, <1>2, <1>3, RunsSame
<1>4. CASE FailTurn
  BY <1>1, <1>2, <1>4, FailTurnKeeps
<1> QED BY <1>3, <1>4 DEF Unexpected

LEMMA TakeReadyKeeps ==
  ASSUME Known, TakeReady, WireKept
  PROVE  Known'
<1>1. PICK S : S = At("connecting")
  OBVIOUS
<1>2. S \subseteq Texts /\ \A r \in S : run[r].pc \in {"turn", "connecting"}
  BY <1>1 DEF At
<1>3. EnsureSession(S) /\ turn' = turn /\ UNCHANGED queueVars
  BY <1>1 DEF TakeReady
<1> QED BY <1>2, <1>3, EnsureSessionKeeps

(* The line that ends a turn is gone; if it was not the one of the turn in  *)
(* flight, it was that of a text given up.                                  *)
LEMMA TakeEndKeeps ==
  ASSUME Known, TakeEnd, wire # <<>>, wire' = Tail(wire), busy' = busy
  PROVE  Known'
<1>0. PICK s, t : s = Head(wire).text /\ t = run[turn].text
  OBVIOUS
<1>1. /\ WireKept /\ rpcs' = rpcs /\ inbox' = inbox /\ UNCHANGED queueVars
      /\ turn' = None
  BY DEF TakeEnd, WireKept
<1>2. rpcs' \subseteq Calls /\ InboxKept
  BY <1>1, InboxSame DEF Known, EngineTypes
<1>3. CASE turn = None
  <2>1. UNCHANGED runVars /\ turn' = turn
    BY <1>1, <1>3 DEF TakeEnd
  <2> QED BY <1>1, <1>2, <2>1, RunsSame
<1>4. CASE turn # None
  <2>1. /\ run' = [run EXCEPT ![turn].pc = "settled"]
        /\ result' = [result EXCEPT ![t] = s]
        /\ forgotten' = forgotten \cup ({t} \ {s})
    BY <1>0, <1>4 DEF TakeEnd
  <2>2. turn \in Texts /\ t \in Texts /\ run[turn].pc \in Asking /\ TurnText = {t}
    BY <1>0, <1>4 DEF Known, Core, RunInv, RunTypes, TurnInv, TurnText, TextsOf, Asking
  <2>3. s \in Texts /\ Head(wire) = End(s) /\ Ending(s)
    <3>1. wire \in Seq(Lines)
      BY DEF Known, EngineTypes
    <3>2. Head(wire) \in Lines /\ Occurs(Head(wire), wire)
      BY <3>1, TailOccurs
    <3>3. Head(wire).type = "end"
      BY DEF TakeEnd
    <3>4. Ready.type # "end" /\ \A c, ok : Answer(c, ok).type # "end"
      BY DEF Ready, Answer
    <3>5. PICK u \in Texts : Head(wire) = End(u)
      <4>1. \/ Head(wire) = Ready
            \/ \E c \in Calls, ok \in BOOLEAN : Head(wire) = Answer(c, ok)
            \/ \E u \in Texts : Head(wire) = End(u)
        BY <3>2 DEF Lines
      <4> QED BY <3>3, <3>4, <4>1
    <3>6. s = u
      BY <1>0, <3>5 DEF End
    <3> QED BY <3>2, <3>5, <3>6 DEF Ending
  <2>4. /\ run' \in [Texts -> [pc : Pcs, text : Texts, drained : 0..DrainGuard]]
        /\ \A r \in Texts : /\ run'[r].text = run[r].text
                            /\ run'[r].pc = IF r = turn THEN "settled" ELSE run[r].pc
    BY <2>1, <2>2 DEF Known, Core, RunInv, RunTypes, Pcs
  <2>5. RunTypes'
    BY <1>1, <2>1, <2>2, <2>3, <2>4 DEF Known, Core, RunInv, RunTypes
  <2>6. \A u \in Texts : result'[u] = IF u = t THEN s ELSE result[u]
    BY <2>1, <2>2 DEF Known, Core, RunInv, RunTypes
  <2>7. PICK S : S = {turn}
    OBVIOUS
  <2>8. TextsOf(S) = {t}
    BY <1>0, <2>7 DEF TextsOf
  <2>9. Settles(S)
    <3>1. /\ \A r \in Texts : run'[r].text = run[r].text
          /\ \A r \in S : run'[r].pc = "settled"
          /\ \A r \in Texts \ S : run'[r].pc = run[r].pc
      BY <2>2, <2>4, <2>7
    <3>2. \A u \in Texts : result'[u] # None <=> result[u] # None \/ u \in TextsOf(S)
      BY <2>3, <2>6, <2>8, Numbers
    <3>3. forgotten \subseteq forgotten' /\ forgotten' \subseteq forgotten \cup TurnText
      BY <2>1, <2>2
    <3> QED BY <1>1, <2>7, <3>1, <3>2, <3>3 DEF Settles
  <2>10. S \subseteq Texts /\ \A r \in S : run[r].pc \in Asking
    BY <2>2, <2>7
  <2>11. Core'
    BY <1>1, <2>5, <2>9, <2>10, SettlingKeepsCore DEF Known
  <2>12. EngineTypes'
    BY <1>1, <1>2, EngineTyped DEF Known, InboxKept
  <2>13. /\ \A u \in Texts : /\ Ending(u)' => Ending(u)
                             /\ Single(End(u), wire) => Single(End(u), wire')
    BY <1>1, WireLines DEF Known
  <2>14. OnceInv'
    BY <1>1, <1>2, <2>13 DEF Known, Matched, OnceInv, InboxKept, WireKept
  <2>15. ~Ending(s)'
    <3>1. wire \in Seq(Lines) /\ Single(Head(wire), wire)
      BY <2>3 DEF Known, EngineTypes, Matched, OnceInv
    <3>2. ~Occurs(Head(wire), Tail(wire))
      BY <3>1, TailOccurs
    <3> QED BY <2>3, <3>2 DEF Ending
  <2>16. s \in HasIt /\ HasIt' \subseteq HasIt \ {s}
    BY <1>2, <2>3, <2>13, <2>15 DEF HasIt, InboxKept, Known, Matched, OnceInv
  <2>17. HasIt \subseteq forgotten \cup {t}
    BY <2>2 DEF Known, Matched, EngineInv
  <2>18. EngineInv'
    BY <2>1, <2>16, <2>17 DEF EngineInv
  <2>19. OwnResult'
    <3>1. s \in forgotten' \/ s = t
      BY <2>1, <2>16, <2>17
    <3> QED BY <2>1, <2>6, <3>1 DEF Known, Matched, OwnResult
  <2> QED BY <2>11, <2>12, <2>14, <2>18, <2>19 DEF Known, Matched
<1> QED BY <1>3, <1>4

LEMMA HandleLineKeeps ==
  ASSUME Known, HandleLine
  PROVE  Known'
<1>1. wire # <<>> /\ wire' = Tail(wire) /\ busy' = busy /\ WireKept
  BY DEF HandleLine, WireKept
<1>2. CASE TakeReady
  BY <1>1, <1>2, TakeReadyKeeps
<1>3. CASE TakeAnswer
  <2>1. PICK c : c = Head(wire).call
    OBVIOUS
  <2>2. CASE c \in rpcs
    <3>1. Answered(c, Head(wire).ok) /\ c \in Calls
      BY <1>3, <2>1, <2>2 DEF TakeAnswer, Known, EngineTypes
    <3> QED BY <1>1, <3>1, AnsweredKeeps
  <2>3. CASE c \notin rpcs
    <3>1. Unexpected(Head(wire).ok)
      BY <1>3, <2>1, <2>3 DEF TakeAnswer
    <3> QED BY <1>1, <3>1, UnexpectedKeeps
  <2> QED BY <2>2, <2>3
<1>4. CASE TakeEnd
  BY <1>1, <1>4, TakeEndKeeps
<1> QED BY <1>2, <1>3, <1>4 DEF HandleLine

LEMMA TimersKeep ==
  ASSUME Known, RpcTimeout \/ \E r \in Texts : ReadyTimeout(r) \/ TurnTimeout(r)
  PROVE  Known'
<1>1. CASE RpcTimeout
  <2>1. PICK c \in rpcs : Answered(c, FALSE)
    BY <1>1 DEF RpcTimeout
  <2>2. c \in Calls /\ WireKept
    BY <1>1 DEF RpcTimeout, Known, EngineTypes, WireKept, engineVars
  <2> QED BY <2>1, <2>2, AnsweredKeeps
<1>2. ASSUME NEW r \in Texts, ReadyTimeout(r) PROVE Known'
  <2>1. PICK S : S = {r}
    OBVIOUS
  <2>2. /\ Fail(S) /\ turn' = turn /\ UNCHANGED queueVars /\ WireKept
        /\ rpcs' = rpcs /\ inbox' = inbox
    BY <1>2, <2>1 DEF ReadyTimeout, gatewayVars, engineVars, WireKept
  <2>3. S \subseteq Texts /\ \A q \in S : run[q].pc \in {"turn", "connecting", "creating"}
    BY <1>2, <2>1 DEF ReadyTimeout
  <2>4. rpcs' \subseteq Calls /\ InboxKept
    BY <2>2, InboxSame DEF Known, EngineTypes
  <2> QED BY <2>2, <2>3, <2>4, FailOthersKeeps
<1>3. ASSUME NEW r \in Texts, TurnTimeout(r) PROVE Known'
  <2>1. PICK S : S = Texts \cap {turn}
    OBVIOUS
  <2>2. /\ Settles(S) /\ RunTypes' /\ FailedOnly
        /\ S \subseteq Texts /\ \A q \in S : run[q].pc \in Asking
    BY <1>3, <2>1, TurnTimeoutSettles DEF Known, Core
  <2>3. /\ UNCHANGED queueVars /\ WireKept /\ rpcs' = rpcs /\ inbox' = inbox
    BY <1>3 DEF TurnTimeout, engineVars, WireKept
  <2>4. rpcs' \subseteq Calls /\ InboxKept
    BY <2>3, InboxSame DEF Known, EngineTypes
  <2>5. TurnText \subseteq forgotten'
    BY <1>3 DEF TurnTimeout, FailTurn, Fail, Forget, TurnText, TextsOf
  <2> QED BY <2>2, <2>3, <2>4, <2>5, SettlingKeeps
<1> QED BY <1>1, <1>2, <1>3

-----------------------------------------------------------------------------
(* The session's calls.                                                     *)

(* A run takes up a text that no run holds.                                 *)
LEMMA TakeUpKeeps ==
  ASSUME RunInv, NEW r \in Texts, run[r].pc \in {"none", "settled"},
         NEW t \in Texts, t \notin Held,
         run' \in [Texts -> [pc : Pcs, text : Texts, drained : 0..DrainGuard]],
         run'[r].text = t, run'[r].pc \in {"preflight", "turn"},
         \A q \in Texts \ {r} : run'[q].pc = run[q].pc /\ run'[q].text = run[q].text,
         turn' = turn, result' = result, forgotten' = forgotten
  PROVE  /\ RunInv' /\ Held' = Held \cup {t} /\ Done' = Done /\ TurnText' = TurnText
         /\ HadKept
<1>1. RunTypes'
  BY DEF RunInv, RunTypes
<1>2. Holders' = Holders \cup {r} /\ r \notin Holders
  BY DEF Holders, Live
<1>3. HolderInv'
  BY <1>2 DEF RunInv, HolderInv, Held, TextsOf, Holders
<1>4. FreshInv'
  BY DEF RunInv, FreshInv
<1>5. TurnInv' /\ turn # r
  BY Numbers DEF RunInv, RunTypes, TurnInv
<1>6. WaiterHasTurn'
  BY DEF RunInv, WaiterHasTurn, At
<1>7. Done' = Done
  BY DEF Done
<1>8. ForgottenInv'
  BY <1>7 DEF RunInv, ForgottenInv, At
<1>9. Held' = Held \cup {t}
  BY <1>2 DEF Held, TextsOf, Holders
<1>10. TurnText' = TurnText
  BY <1>5 DEF TurnText, TextsOf, RunInv, RunTypes
<1>11. HadKept
  <2>1. \A q \in Turning : q \in Turning' /\ run'[q].text = run[q].text
    BY DEF Turning
  <2> QED BY <2>1 DEF HadKept, HadItsTurn
<1> QED BY <1>1, <1>3, <1>4, <1>5, <1>6, <1>7, <1>8, <1>9, <1>10, <1>11 DEF RunInv

(* The runs are as they were.                                               *)
LEMMA CoreSame ==
  ASSUME RunInv, UNCHANGED runVars, turn' = turn
  PROVE  /\ RunInv' /\ Held' = Held /\ Done' = Done /\ FailedOnly
         /\ TurnText' = TurnText /\ Accounted /\ forgotten' = forgotten /\ HadKept
<1>1. run' = run /\ result' = result /\ forgotten' = forgotten
  BY DEF runVars
<1> QED
  BY <1>1
  DEF RunInv, RunTypes, HolderInv, Holders, FreshInv, TurnInv, WaiterHasTurn,
      ForgottenInv, At, Held, TextsOf, Done, FailedOnly, TurnText, Accounted,
      HadKept, HadItsTurn, Turning

(* A text that is new is in none of the places.                             *)
LEMMA NewText ==
  ASSUME Core, NEW t \in Texts, New(t)
  PROVE  /\ run[t].pc = "none" /\ run[t].text = t
         /\ t \notin Typed /\ t \notin Held \cup Queued \cup steering \cup dropped \cup Done
<1>1. typed[t] = "no"
  BY DEF New
<1> QED BY <1>1 DEF Core, RunInv, FreshInv, NewInv, PlaceInv, Typed

LEMMA PromptKeeps ==
  ASSUME Known, NEW t \in Texts, Prompt(t)
  PROVE  Known'
<1>1. /\ New(t) /\ typed' = [typed EXCEPT ![t] = "prompt"] /\ Move({t}, "preflight")
      /\ followUps' = followUps /\ steering' = steering /\ dropped' = dropped
      /\ turn' = turn /\ rpcs' = rpcs /\ inbox' = inbox /\ WireKept
  BY DEF Prompt, gatewayVars, engineVars, WireKept
<1>2. /\ run[t].pc = "none" /\ run[t].text = t
      /\ t \notin Typed /\ t \notin Held \cup Queued \cup steering \cup dropped \cup Done
  BY <1>1, NewText DEF Known
<1>3. /\ run' \in [Texts -> [pc : Pcs, text : Texts, drained : 0..DrainGuard]]
      /\ \A r \in Texts : /\ run'[r].text = run[r].text
                          /\ run'[r].pc = IF r \in {t} THEN "preflight" ELSE run[r].pc
  <2>1. "preflight" \in Pcs
    BY DEF Pcs
  <2> QED BY <1>1, <2>1, PutRuns DEF Known, Core, RunInv, Move
<1>4. result' = result /\ forgotten' = forgotten
  BY <1>1 DEF Move
<1>5. /\ RunInv' /\ Held' = Held \cup {t} /\ Done' = Done /\ TurnText' = TurnText
      /\ HadKept
  <2>1. /\ run'[t].text = t /\ run'[t].pc \in {"preflight", "turn"}
        /\ \A q \in Texts \ {t} : run'[q].pc = run[q].pc /\ run'[q].text = run[q].text
    BY <1>2, <1>3
  <2> QED BY <1>1, <1>2, <1>3, <1>4, <2>1, TakeUpKeeps DEF Known, Core
<1>6. /\ QueueTypes' /\ Typed' = Typed \cup {t}
      /\ \A r \in Texts \ {t} : typed'[r] = typed[r]
      /\ typed'[t] = "prompt"
  BY <1>1 DEF Known, Core, QueueTypes, Typed
<1>7. QueueInv' /\ Queued' = Queued
  BY <1>1 DEF Known, Core, QueueInv, Queued
<1>8. NewInv'
  BY <1>3, <1>6 DEF Known, Core, NewInv
<1>9. PlaceInv'
  <2>1. PlaceInv /\ steering' = steering /\ dropped' = dropped
    BY <1>1 DEF Known, Core
  <2> QED BY <1>2, <1>5, <1>6, <1>7, <2>1 DEF PlaceInv
<1>10. rpcs' \subseteq Calls /\ InboxKept
  BY <1>1, InboxSame DEF Known, EngineTypes
<1>11. Matched'
  BY <1>1, <1>4, <1>5, <1>10, MatchedKept DEF Known, Accounted, FailedOnly
<1>12. EngineTypes'
  BY <1>1, <1>10, EngineTyped DEF Known, InboxKept
<1>13. DroppedInv'
  BY <1>1, <1>5 DEF Known, Core, DroppedInv, HadKept, Equal
<1> QED BY <1>5, <1>6, <1>7, <1>8, <1>9, <1>11, <1>12, <1>13 DEF Known, Core

(* A text is queued, as a follow-up or as steering.                         *)
LEMMA QueuedKeeps ==
  ASSUME Known, NEW t \in Texts, New(t), NEW w \in {"followUp", "steer"},
         typed' = [typed EXCEPT ![t] = w],
         \/ \E s \in steering \cup {t} : /\ followUps' = Append(followUps, s)
                                        /\ steering' = (steering \cup {t}) \ {s}
         \/ followUps' = followUps /\ steering' = steering \cup {t},
         dropped' = dropped, UNCHANGED runVars, turn' = turn,
         rpcs' \subseteq Calls, InboxKept, WireKept
  PROVE  Known'
<1>1. /\ run[t].pc = "none"
      /\ t \notin Typed /\ t \notin Held \cup Queued \cup steering \cup dropped \cup Done
  BY NewText DEF Known
<1>2. /\ RunInv' /\ Held' = Held /\ Done' = Done /\ FailedOnly /\ Accounted
      /\ forgotten' = forgotten /\ HadKept
  BY CoreSame DEF Known, Core
<1>3. /\ typed' \in [Texts -> {"no", "prompt", "followUp", "steer"}]
      /\ Typed' = Typed \cup {t} /\ \A r \in Texts \ {t} : typed'[r] = typed[r]
  BY DEF Known, Core, QueueTypes, Typed
<1>4. /\ followUps' \in Seq(Texts) /\ steering' \subseteq Texts /\ QueueInv'
      /\ Queued' \cup steering' = Queued \cup steering \cup {t}
      /\ Queued' \cap steering' = {}
  <2>0. followUps \in Seq(Texts) /\ steering \subseteq Texts
    BY DEF Known, Core, QueueTypes
  <2>1. CASE \E s \in steering \cup {t} : /\ followUps' = Append(followUps, s)
                                         /\ steering' = (steering \cup {t}) \ {s}
    <3>1. PICK s \in steering \cup {t} : /\ followUps' = Append(followUps, s)
                                         /\ steering' = (steering \cup {t}) \ {s}
      BY <2>1
    <3>2. \A x : /\ Append(followUps, s) \in Seq(Texts)
                 /\ Occurs(x, Append(followUps, s)) <=> Occurs(x, followUps) \/ x = s
                 /\ Single(x, followUps) /\ (x = s => ~Occurs(x, followUps))
                      => Single(x, Append(followUps, s))
      BY <2>0, AppendOccurs
    <3>3. s \in Texts /\ s \notin Queued
      BY <1>1, <2>0 DEF Known, Core, PlaceInv
    <3>4. ~Occurs(s, followUps)
      BY <3>3 DEF Queued
    <3>5. QueueInv' /\ Queued' = Queued \cup {s}
      BY <3>1, <3>2, <3>3, <3>4 DEF Known, Core, QueueInv, Queued
    <3>6. Queued \cap steering = {} /\ t \notin Queued
      BY <1>1 DEF Known, Core, PlaceInv
    <3> QED BY <2>0, <3>1, <3>2, <3>3, <3>5, <3>6
  <2>2. CASE followUps' = followUps /\ steering' = steering \cup {t}
    <3>1. QueueInv' /\ Queued' = Queued
      BY <2>2 DEF Known, Core, QueueInv, Queued
    <3>2. Queued \cap steering = {} /\ t \notin Queued
      BY <1>1 DEF Known, Core, PlaceInv
    <3> QED BY <2>0, <2>2, <3>1, <3>2
  <2> QED BY <2>1, <2>2
<1>5. QueueTypes'
  BY <1>3, <1>4 DEF Known, Core, QueueTypes
<1>6. NewInv'
  <2>1. run' = run
    BY DEF runVars
  <2> QED BY <1>1, <1>3, <2>1 DEF Known, Core, NewInv
<1>7. PlaceInv'
  <2> DEFINE H == Held  Q == Queued  D == Done  Y == Typed
  <2>1. /\ H \cap (Q \cup steering \cup dropped \cup D) = {}
        /\ Q \cap (steering \cup dropped \cup D) = {}
        /\ steering \cap (dropped \cup D) = {} /\ dropped \cap D = {}
        /\ Y = H \cup Q \cup steering \cup dropped \cup D
        /\ t \notin H \cup Q \cup steering \cup dropped \cup D
    BY <1>1 DEF Known, Core, PlaceInv
  <2>2. PICK H1, Q1, S1, D1, Y1 :
          H1 = Held' /\ Q1 = Queued' /\ S1 = steering' /\ D1 = Done' /\ Y1 = Typed'
    OBVIOUS
  <2>3. /\ H1 = H /\ D1 = D /\ Y1 = Y \cup {t}
        /\ Q1 \cup S1 = Q \cup steering \cup {t} /\ Q1 \cap S1 = {}
    BY <1>2, <1>3, <1>4, <2>2
  <2>4. /\ H1 \cap (Q1 \cup S1 \cup dropped \cup D1) = {}
        /\ Q1 \cap (S1 \cup dropped \cup D1) = {}
        /\ S1 \cap (dropped \cup D1) = {} /\ dropped \cap D1 = {}
        /\ Y1 = H1 \cup Q1 \cup S1 \cup dropped \cup D1
    <3> HIDE DEF H, Q, D, Y
    <3> QED BY <2>1, <2>3
  <2> QED BY <2>2, <2>4 DEF PlaceInv
<1>8. Matched'
  BY <1>2, MatchedKept DEF Known
<1>9. EngineTypes'
  BY EngineTyped DEF Known, InboxKept
<1>10. DroppedInv'
  BY <1>2 DEF Known, Core, DroppedInv, HadKept, Equal
<1> QED BY <1>2, <1>4, <1>5, <1>6, <1>7, <1>8, <1>9, <1>10 DEF Known, Core

LEMMA FollowUpKeeps ==
  ASSUME Known, NEW t \in Texts, FollowUp(t)
  PROVE  Known'
<1>1. /\ New(t) /\ typed' = [typed EXCEPT ![t] = "followUp"]
      /\ followUps' = Append(followUps, t) /\ steering' = steering /\ dropped' = dropped
      /\ UNCHANGED runVars /\ turn' = turn /\ rpcs' = rpcs /\ inbox' = inbox /\ WireKept
  BY DEF FollowUp, gatewayVars, engineVars, WireKept
<1>2. rpcs' \subseteq Calls /\ InboxKept
  BY <1>1, InboxSame DEF Known, EngineTypes
<1>3. t \notin steering
  BY <1>1, NewText DEF Known
<1>4. \E s \in steering \cup {t} : /\ followUps' = Append(followUps, s)
                                  /\ steering' = (steering \cup {t}) \ {s}
  <2>1. t \in steering \cup {t} /\ steering' = (steering \cup {t}) \ {t}
    BY <1>1, <1>3
  <2> QED BY <1>1, <2>1
<1> QED BY <1>1, <1>2, <1>4, QueuedKeeps

LEMMA SteerKeeps ==
  ASSUME Known, NEW t \in Texts, Steer(t)
  PROVE  Known'
<1>1. /\ New(t) /\ typed' = [typed EXCEPT ![t] = "steer"]
      /\ UNCHANGED runVars /\ dropped' = dropped /\ turn' = turn /\ WireKept
  BY DEF Steer, engineVars, WireKept
<1>2. \/ \E s \in steering \cup {t} : /\ followUps' = Append(followUps, s)
                                     /\ steering' = (steering \cup {t}) \ {s}
      \/ followUps' = followUps /\ steering' = steering \cup {t}
  <2>1. First(t, steering \cup {t}) \subseteq steering \cup {t}
    BY DEF First
  <2> QED BY <2>1, Zenon DEF Steer
<1>3. rpcs' \subseteq Calls /\ InboxKept
  <2>1. CASE rpcs' = rpcs /\ inbox' = inbox
    BY <2>1, InboxSame DEF Known, EngineTypes
  <2>2. CASE Send({Call("steer", t)}, {})
    <3>1. PICK C : C = {Call("steer", t)}
      OBVIOUS
    <3>2. Call("steer", t).kind = "steer" /\ Call("steer", t) \in Calls
      BY CallsKnown DEF Call
    <3>3. C \subseteq Calls /\ IsFiniteSet(C) /\ \A c \in C : c.kind # "submit"
      BY <3>1, <3>2, FS_Singleton
    <3> QED BY <2>2, <3>1, <3>3, SendOther DEF Known
  <2> QED BY <2>1, <2>2, Zenon DEF Steer
<1> QED BY <1>1, <1>2, <1>3, QueuedKeeps

LEMMA AbortKeeps ==
  ASSUME Known, Abort
  PROVE  Known'
<1>1. UNCHANGED runVars /\ turn' = turn /\ UNCHANGED queueVars /\ WireKept
  BY DEF Abort, engineVars, WireKept
<1>2. rpcs' \subseteq Calls /\ InboxKept
  <2>1. CASE rpcs' = rpcs /\ inbox' = inbox
    BY <2>1, InboxSame DEF Known, EngineTypes
  <2>2. CASE Send({Call("interrupt", Aborter)}, {})
    <3>1. PICK C : C = {Call("interrupt", Aborter)}
      OBVIOUS
    <3>2. Call("interrupt", Aborter).kind = "interrupt" /\ Call("interrupt", Aborter) \in Calls
      BY CallsKnown DEF Call
    <3>3. C \subseteq Calls /\ IsFiniteSet(C) /\ \A c \in C : c.kind # "submit"
      BY <3>1, <3>2, FS_Singleton
    <3> QED BY <2>2, <3>1, <3>3, SendOther DEF Known
  <2> QED BY <2>1, <2>2, Zenon DEF Abort
<1> QED BY <1>1, <1>2, RunsSame

-----------------------------------------------------------------------------
(* The runs.                                                                *)

LEMMA AskKeeps ==
  ASSUME Known, NEW r \in Texts, Ask(r)
  PROVE  Known'
<1>1. run[r].pc = "turn" /\ WireKept /\ UNCHANGED queueVars
  BY DEF Ask, WireKept
<1>2. PICK S : S = {r}
  OBVIOUS
<1>3. CASE Move(S, "connecting") /\ UNCHANGED <<rpcs, inbox, turn>>
  <2>1. rpcs' \subseteq Calls /\ InboxKept
    BY <1>3, InboxSame DEF Known, EngineTypes
  <2>2. /\ S \subseteq Texts
        /\ \A q \in S : run[q].pc \in {"starting", "turn", "connecting", "creating"}
    BY <1>1, <1>2
  <2> QED BY <1>1, <1>3, <2>1, <2>2, MovingKeeps
<1>4. CASE EnsureSession(S) /\ UNCHANGED turn
  <2>1. S \subseteq Texts /\ \A q \in S : run[q].pc \in {"turn", "connecting"}
    BY <1>1, <1>2
  <2> QED BY <1>1, <1>4, <2>1, EnsureSessionKeeps
<1>5. CASE Submit(r, {})
  BY <1>1, <1>5, SubmitKeeps
<1> QED BY <1>2, <1>3, <1>4, <1>5, Zenon DEF Ask

(* The places when a turn starts, of a text that its run has had or of the  *)
(* follow-up that it takes.                                                 *)
LEMMA TakenPlaces ==
  ASSUME PlaceInv, QueueTypes, QueueTypes',
         NEW t \in Texts, t \in Queued, Held' = Held \cup {t}, Done' = Done, Typed' = Typed,
         NEW X \in SUBSET Texts, dropped' = dropped \cup X,
         \A x \in Texts : (x \in Queued /\ x # t) \/ x \in steering
                          <=> x \in Queued' \/ x \in steering' \/ x \in X,
         \A x \in Texts : /\ ~(x \in Queued' /\ x \in steering')
                          /\ x \in X => x \notin Queued' /\ x \notin steering'
  PROVE  PlaceInv'
<1>1. PICK H1, Q1, S1, D1, Y1, Z1 :
        /\ H1 = Held' /\ Q1 = Queued' /\ S1 = steering' /\ D1 = Done' /\ Y1 = Typed'
        /\ Z1 = dropped'
  OBVIOUS
<1>2. /\ Q1 \subseteq Texts /\ S1 \subseteq Texts /\ Queued \subseteq Texts
      /\ steering \subseteq Texts
  BY <1>1 DEF Queued, QueueTypes
<1>3. /\ Held \cap (Queued \cup steering \cup dropped \cup Done) = {}
      /\ Queued \cap (steering \cup dropped \cup Done) = {}
      /\ steering \cap (dropped \cup Done) = {} /\ dropped \cap Done = {}
      /\ Typed = Held \cup Queued \cup steering \cup dropped \cup Done
  BY DEF PlaceInv
<1>4. Q1 \cup S1 \cup X = (Queued \ {t}) \cup steering
  <2>1. \A x \in Texts : (x \in Queued /\ x # t) \/ x \in steering
                         <=> x \in Q1 \/ x \in S1 \/ x \in X
    BY <1>1, Zenon
  <2> QED BY <1>2, <2>1
<1>5. Q1 \cap S1 = {} /\ X \cap (Q1 \cup S1) = {}
  <2>1. \A x \in Texts : /\ ~(x \in Q1 /\ x \in S1)
                         /\ x \in X => x \notin Q1 /\ x \notin S1
    BY <1>1
  <2>2. X \subseteq Texts
    OBVIOUS
  <2> QED BY <1>2, <2>1, <2>2
<1>6. H1 = Held \cup {t} /\ D1 = Done /\ Y1 = Typed /\ Z1 = dropped \cup X
  BY <1>1
<1>7. /\ H1 \cap (Q1 \cup S1 \cup Z1 \cup D1) = {}
      /\ Q1 \cap (S1 \cup Z1 \cup D1) = {}
      /\ S1 \cap (Z1 \cup D1) = {} /\ Z1 \cap D1 = {}
      /\ Y1 = H1 \cup Q1 \cup S1 \cup Z1 \cup D1
  BY <1>3, <1>4, <1>5, <1>6
<1> QED BY <1>1, <1>7 DEF PlaceInv

LEMMA StartedPlaces ==
  ASSUME PlaceInv, QueueTypes, QueueTypes', Held' = Held, Done' = Done, Typed' = Typed,
         NEW X \in SUBSET Texts, dropped' = dropped \cup X,
         \A x \in Texts : x \in Queued \/ x \in steering
                          <=> x \in Queued' \/ x \in steering' \/ x \in X,
         \A x \in Texts : /\ ~(x \in Queued' /\ x \in steering')
                          /\ x \in X => x \notin Queued' /\ x \notin steering'
  PROVE  PlaceInv'
<1>1. PICK H1, Q1, S1, D1, Y1, Z1 :
        /\ H1 = Held' /\ Q1 = Queued' /\ S1 = steering' /\ D1 = Done' /\ Y1 = Typed'
        /\ Z1 = dropped'
  OBVIOUS
<1>2. /\ Q1 \subseteq Texts /\ S1 \subseteq Texts /\ Queued \subseteq Texts
      /\ steering \subseteq Texts
  BY <1>1 DEF Queued, QueueTypes
<1>3. /\ Held \cap (Queued \cup steering \cup dropped \cup Done) = {}
      /\ Queued \cap (steering \cup dropped \cup Done) = {}
      /\ steering \cap (dropped \cup Done) = {} /\ dropped \cap Done = {}
      /\ Typed = Held \cup Queued \cup steering \cup dropped \cup Done
  BY DEF PlaceInv
<1>4. Q1 \cup S1 \cup X = Queued \cup steering
  <2>1. \A x \in Texts : (x \in Queued) \/ x \in steering
                         <=> x \in Q1 \/ x \in S1 \/ x \in X
    BY <1>1, Zenon
  <2> QED BY <1>2, <2>1
<1>5. Q1 \cap S1 = {} /\ X \cap (Q1 \cup S1) = {}
  <2>1. \A x \in Texts : /\ ~(x \in Q1 /\ x \in S1)
                         /\ x \in X => x \notin Q1 /\ x \notin S1
    BY <1>1
  <2>2. X \subseteq Texts
    OBVIOUS
  <2> QED BY <1>2, <2>1, <2>2
<1>6. H1 = Held /\ D1 = Done /\ Y1 = Typed /\ Z1 = dropped \cup X
  BY <1>1
<1>7. /\ H1 \cap (Q1 \cup S1 \cup Z1 \cup D1) = {}
      /\ Q1 \cap (S1 \cup Z1 \cup D1) = {}
      /\ S1 \cap (Z1 \cup D1) = {} /\ Z1 \cap D1 = {}
      /\ Y1 = H1 \cup Q1 \cup S1 \cup Z1 \cup D1
  BY <1>3, <1>4, <1>5, <1>6
<1> QED BY <1>1, <1>7 DEF PlaceInv

LEMMA StartAndEndKeep ==
  ASSUME Known, NEW r \in Texts, StartRun(r) \/ EndRun(r)
  PROVE  Known'
<1>1. PICK S : S = {r}
  OBVIOUS
<1>2. UNCHANGED queueVars /\ turn' = turn /\ rpcs' = rpcs /\ inbox' = inbox /\ WireKept
  BY DEF StartRun, EndRun, gatewayVars, engineVars, WireKept
<1>3. rpcs' \subseteq Calls /\ InboxKept
  BY <1>2, InboxSame DEF Known, EngineTypes
<1>4. CASE StartRun(r)
  <2>1. Move(S, "starting") /\ \A q \in S : run[q].pc = "preflight"
    BY <1>1, <1>4 DEF StartRun
  <2> QED BY <1>1, <1>2, <1>3, <2>1, MovingKeeps
<1>5. CASE EndRun(r)
  <2>1. Move(S, "over") /\ \A q \in S : run[q].pc = "settled"
    BY <1>1, <1>5 DEF EndRun
  <2> QED BY <1>1, <1>2, <1>3, <2>1, MovingKeeps
<1> QED BY <1>4, <1>5

(* A turn starts: what it removes from the queues is dropped, and it is the *)
(* other text that says the same.                                           *)
LEMMA StartTurnKeeps ==
  ASSUME Known, NEW r \in Texts, StartTurn(r)
  PROVE  Known'
<1>1. PICK t, S : t = run[r].text /\ S = {r}
  OBVIOUS
<1>2. /\ run[r].pc = "starting" /\ Move(S, "turn") /\ MessageStart(t, followUps)
      /\ typed' = typed /\ turn' = turn /\ rpcs' = rpcs /\ inbox' = inbox /\ WireKept
  BY <1>1 DEF StartTurn, gatewayVars, engineVars, WireKept
<1>3. /\ RunInv' /\ Held' = Held /\ Done' = Done /\ FailedOnly /\ HadKept
      /\ forgotten' = forgotten /\ TurnText' = TurnText
      /\ \A q \in Texts : run'[q].pc = "none" <=> run[q].pc = "none"
  <2>1. /\ S \subseteq Texts
        /\ \A q \in S : run[q].pc \in {"starting", "turn", "connecting", "creating"}
    BY <1>1, <1>2
  <2> QED BY <1>2, <2>1, MoveKeeps DEF Known, Core
<1>4. t \in Held /\ t \in Texts
  <2>1. r \in Holders
    BY <1>2 DEF Holders, Live
  <2> QED BY <1>1, <2>1 DEF Held, TextsOf, Known, Core, RunInv, RunTypes
<1>5. /\ t \notin steering /\ ~Occurs(t, followUps)
      /\ \A x \in steering : ~Occurs(x, followUps)
  BY <1>4 DEF Known, Core, PlaceInv, Queued, QueueTypes
<1>6. PICK X \in SUBSET Texts :
        /\ X \subseteq Equal(t) \ {t} /\ dropped' = dropped \cup X
        /\ followUps' \in Seq(Texts) /\ QueueInv' /\ steering' \subseteq Texts
        /\ \A x \in Texts : Occurs(x, followUps) \/ x \in steering
                            <=> x \in Queued' \/ x \in steering' \/ x \in X
        /\ \A x \in Texts : /\ ~(x \in Queued' /\ x \in steering')
                            /\ x \in X => x \notin Queued' /\ x \notin steering'
  <2>1. followUps \in Seq(Texts) /\ \A x \in Texts : Single(x, followUps)
    BY DEF Known, Core, QueueTypes, QueueInv
  <2> QED BY <1>2, <1>4, <1>5, <2>1, MessageStarts DEF Known, Core
<1>7. QueueTypes' /\ Typed' = Typed
  BY <1>2, <1>6 DEF Known, Core, QueueTypes, Typed
<1>8. PlaceInv'
  <2>1. \A x \in Texts : x \in Queued <=> Occurs(x, followUps)
    BY DEF Queued
  <2> QED BY <1>3, <1>6, <1>7, <2>1, StartedPlaces DEF Known, Core
<1>9. t \in HadItsTurn'
  <2>1. run'[r].text = t /\ run'[r].pc = "turn"
    <3>1. Put({r}, "turn") /\ "turn" \in Pcs
      BY <1>1, <1>2 DEF Move, Pcs
    <3> QED BY <1>1, <3>1, PutRuns DEF Known, Core, RunInv
  <2> QED BY <2>1 DEF HadItsTurn, Turning
<1>10. DroppedInv'
  <2>1. \A x \in X : t \in (Equal(x) \ {x}) \cap HadItsTurn'
    BY <1>4, <1>6, <1>9 DEF Equal
  <2> QED BY <1>3, <1>6, <2>1, DroppedKept DEF Known
<1>11. NewInv'
  BY <1>2, <1>3 DEF Known, Core, NewInv
<1>12. rpcs' \subseteq Calls /\ InboxKept
  BY <1>2, InboxSame DEF Known, EngineTypes
<1>13. Matched'
  BY <1>2, <1>3, <1>12, MatchedKept DEF Known, Accounted
<1>14. EngineTypes'
  BY <1>2, <1>12, EngineTyped DEF Known, InboxKept
<1> QED BY <1>3, <1>6, <1>7, <1>8, <1>10, <1>11, <1>13, <1>14 DEF Known, Core

(* A follow-up leaves the queue for the run that takes it.                  *)
LEMMA NextTurnKeeps ==
  ASSUME Known, NEW r \in Texts, NextTurn(r)
  PROVE  Known'
<1>1. PICK t : t = Head(followUps)
  OBVIOUS
<1>2. /\ run[r].pc = "settled" /\ followUps # <<>> /\ run[r].drained < DrainGuard
      /\ run' = [run EXCEPT ![r] =
                   [pc |-> "turn", text |-> t, drained |-> run[r].drained + 1]]
      /\ MessageStart(t, Tail(followUps)) /\ typed' = typed
      /\ result' = result /\ forgotten' = forgotten /\ turn' = turn
      /\ rpcs' = rpcs /\ inbox' = inbox /\ WireKept
  BY <1>1 DEF NextTurn, gatewayVars, engineVars, WireKept
<1>3. followUps \in Seq(Texts)
  BY DEF Known, Core, QueueTypes
<1>4. /\ Tail(followUps) \in Seq(Texts) /\ t \in Texts /\ Occurs(t, followUps)
      /\ \A x : /\ Occurs(x, Tail(followUps)) => Occurs(x, followUps)
                /\ x # t /\ Occurs(x, followUps) => Occurs(x, Tail(followUps))
                /\ Single(x, followUps) => Single(x, Tail(followUps))
                /\ Single(x, followUps) /\ x = t => ~Occurs(x, Tail(followUps))
  BY <1>1, <1>2, <1>3, TailOccurs
<1>5. /\ t \in Queued /\ \A x \in Texts : Single(x, Tail(followUps))
      /\ \A x \in Texts : Occurs(x, Tail(followUps)) <=> x \in Queued /\ x # t
  BY <1>4 DEF Known, Core, QueueInv, Queued
<1>15. PICK X \in SUBSET Texts :
         /\ X \subseteq Equal(t) \ {t} /\ dropped' = dropped \cup X
         /\ followUps' \in Seq(Texts) /\ QueueInv' /\ steering' \subseteq Texts
         /\ \A x \in Texts : Occurs(x, Tail(followUps)) \/ x \in steering
                             <=> x \in Queued' \/ x \in steering' \/ x \in X
         /\ \A x \in Texts : /\ ~(x \in Queued' /\ x \in steering')
                             /\ x \in X => x \notin Queued' /\ x \notin steering'
  <2>1. /\ t \notin steering /\ ~Occurs(t, Tail(followUps))
        /\ \A x \in steering : ~Occurs(x, Tail(followUps))
    BY <1>4, <1>5 DEF Known, Core, PlaceInv, QueueTypes
  <2>2. QueueTypes /\ Tail(followUps) \in Seq(Texts)
    BY <1>4 DEF Known, Core
  <2> QED BY <1>2, <1>4, <1>5, <2>1, <2>2, MessageStarts
<1>6. t \notin Held
  BY <1>5 DEF Known, Core, PlaceInv
<1>7. /\ run' \in [Texts -> [pc : Pcs, text : Texts, drained : 0..DrainGuard]]
      /\ run'[r].text = t /\ run'[r].pc = "turn"
      /\ \A q \in Texts \ {r} : run'[q] = run[q]
  <2> DEFINE v == [pc |-> "turn", text |-> t, drained |-> run[r].drained + 1]
  <2>1. run[r].drained \in 0..DrainGuard /\ "turn" \in Pcs
    BY DEF Known, Core, RunInv, RunTypes, Pcs
  <2>2. run[r].drained + 1 \in 0..DrainGuard
    BY <1>2, <2>1, EngineAssumption, SMT
  <2>3. /\ v \in [pc : Pcs, text : Texts, drained : 0..DrainGuard]
        /\ v.text = t /\ v.pc = "turn"
    BY <1>4, <2>1, <2>2
  <2>4. run' = [run EXCEPT ![r] = v]
    BY <1>2
  <2> HIDE DEF v
  <2> QED BY <2>3, <2>4 DEF Known, Core, RunInv, RunTypes
<1>8. /\ RunInv' /\ Held' = Held \cup {t} /\ Done' = Done /\ TurnText' = TurnText
      /\ HadKept
  <2>1. /\ run[r].pc \in {"none", "settled"} /\ run'[r].pc \in {"preflight", "turn"}
        /\ \A q \in Texts \ {r} : run'[q].pc = run[q].pc /\ run'[q].text = run[q].text
    BY <1>2, <1>7
  <2> QED BY <1>2, <1>4, <1>6, <1>7, <2>1, TakeUpKeeps DEF Known, Core
<1>9. QueueTypes' /\ Typed' = Typed
  BY <1>2, <1>15 DEF Known, Core, QueueTypes, Typed
<1>10. NewInv'
  <2>1. typed[r] = "prompt"
    BY <1>2 DEF Known, Core, NewInv
  <2> QED BY <1>2, <1>7, <2>1 DEF Known, Core, NewInv
<1>11. PlaceInv'
  BY <1>4, <1>5, <1>8, <1>9, <1>15, TakenPlaces DEF Known, Core
<1>16. DroppedInv'
  <2>1. t \in HadItsTurn'
    BY <1>7 DEF HadItsTurn, Turning
  <2>2. \A x \in X : t \in (Equal(x) \ {x}) \cap HadItsTurn'
    BY <1>4, <1>15, <2>1 DEF Equal
  <2> QED BY <1>8, <1>15, <2>2, DroppedKept DEF Known
<1>12. rpcs' \subseteq Calls /\ InboxKept
  BY <1>2, InboxSame DEF Known, EngineTypes
<1>13. Matched'
  BY <1>2, <1>8, <1>12, MatchedKept DEF Known, Accounted, FailedOnly
<1>14. EngineTypes'
  BY <1>2, <1>12, EngineTyped DEF Known, InboxKept
<1> QED BY <1>8, <1>9, <1>10, <1>11, <1>13, <1>14, <1>15, <1>16 DEF Known, Core

-----------------------------------------------------------------------------
(* The engine: what it has of a text goes from its requests to its work and *)
(* on to its lines.                                                         *)

LEMMA EngineKeeps ==
  ASSUME Known, EngineStep, EngineTypes', OnceInv', HasIt' \subseteq HasIt
  PROVE  Known'
<1>1. UNCHANGED runVars /\ UNCHANGED queueVars /\ turn' = turn
  BY DEF EngineStep
<1>2. /\ RunInv' /\ Held' = Held /\ Done' = Done /\ FailedOnly /\ TurnText' = TurnText
      /\ forgotten' = forgotten /\ HadKept
  BY <1>1, CoreSame DEF Known, Core
<1>3. Core'
  <2>1. \A r \in Texts : run'[r].pc = "none" <=> run[r].pc = "none"
    BY <1>1 DEF runVars
  <2> QED BY <1>1, <1>2, <2>1, MovingKeepsCore DEF Known
<1>4. EngineInv'
  BY <1>2 DEF Known, Matched, EngineInv
<1>5. OwnResult'
  BY <1>2 DEF Known, Matched, OwnResult, FailedOnly
<1> QED BY <1>3, <1>4, <1>5 DEF Known, Matched

(* A line is said.                                                          *)
LEMMA SayKeeps ==
  ASSUME EngineTypes, NEW line \in Lines, Say(line)
  PROVE  /\ wire' \in Seq(Lines)
         /\ \A t \in Texts : /\ Ending(t)' <=> Ending(t) \/ line = End(t)
                             /\ Single(End(t), wire) /\ (line = End(t) => ~Ending(t))
                                  => Single(End(t), wire')
<1>1. wire \in Seq(Lines) /\ wire' = Append(wire, line)
  BY DEF EngineTypes, Say
<1>2. \A x : /\ Append(wire, line) \in Seq(Lines)
             /\ Occurs(x, Append(wire, line)) <=> Occurs(x, wire) \/ x = line
             /\ Single(x, wire) /\ (x = line => ~Occurs(x, wire))
                  => Single(x, Append(wire, line))
  BY <1>1, AppendOccurs
<1> QED BY <1>1, <1>2 DEF Ending

LEMMA LinesKnown ==
  /\ Ready \in Lines /\ \A t : Ready # End(t)
  /\ \A c \in Calls, ok \in BOOLEAN : Answer(c, ok) \in Lines
  /\ \A c, ok, t : Answer(c, ok) # End(t)
  /\ \A t \in Texts : End(t) \in Lines
  /\ \A t, u : End(t) = End(u) => t = u
<1>1. Ready \in Lines /\ \A t \in Texts : End(t) \in Lines
  BY DEF Lines
<1>2. ASSUME NEW c \in Calls, NEW ok \in BOOLEAN PROVE Answer(c, ok) \in Lines
  BY DEF Lines
<1>3. /\ Ready.type = "ready" /\ \A c, ok : Answer(c, ok).type = "answer"
      /\ \A t : End(t).type = "end" /\ End(t).text = t
  BY DEF Ready, Answer, End
<1>4. \A t, u : End(t) = End(u) => t = u
  BY <1>3
<1>5. (\A t : Ready # End(t)) /\ \A c, ok, t : Answer(c, ok) # End(t)
  BY <1>3
<1> QED BY <1>1, <1>2, <1>4, <1>5

LEMMA BootKeeps ==
  ASSUME Known, Boot
  PROVE  Known'
<1>1. Say(Ready) /\ EngineStep /\ inbox' = inbox /\ busy' = busy
  BY DEF Boot
<1>2. /\ wire' \in Seq(Lines)
      /\ \A t \in Texts : /\ Ending(t)' <=> Ending(t)
                          /\ Single(End(t), wire) => Single(End(t), wire')
  BY <1>1, LinesKnown, SayKeeps DEF Known
<1>3. OnceInv' /\ HasIt' \subseteq HasIt
  BY <1>1, <1>2 DEF Known, Matched, OnceInv, HasIt, Asked
<1>4. EngineTypes'
  BY <1>1, <1>2 DEF Known, EngineTypes, EngineStep
<1> QED BY <1>1, <1>3, <1>4, EngineKeeps

LEMMA TakeRequestKeeps ==
  ASSUME Known, TakeRequest
  PROVE  Known'
<1>0. PICK c : c = Head(inbox)
  OBVIOUS
<1>1. PICK ok \in BOOLEAN :
        /\ CASE c.kind = "submit" -> ok <=> busy = None
             [] c.kind \in {"steer", "interrupt"} -> ok <=> busy # None
             [] c.kind = "create" -> TRUE
        /\ Say(Answer(c, ok))
        /\ busy' = IF c.kind = "submit" /\ ok THEN c.who ELSE busy
  BY <1>0 DEF TakeRequest
<1>2. inbox # <<>> /\ inbox' = Tail(inbox) /\ EngineStep
  BY DEF TakeRequest
<1>3. inbox \in Seq(Calls)
  BY DEF Known, EngineTypes
<1>4. /\ Tail(inbox) \in Seq(Calls) /\ c \in Calls /\ Occurs(c, inbox)
      /\ \A x : /\ Occurs(x, Tail(inbox)) => Occurs(x, inbox)
                /\ Single(x, inbox) => Single(x, Tail(inbox))
                /\ Single(x, inbox) /\ x = c => ~Occurs(x, Tail(inbox))
  BY <1>0, <1>2, <1>3, TailOccurs
<1>5. /\ wire' \in Seq(Lines)
      /\ \A t \in Texts : /\ Ending(t)' <=> Ending(t)
                          /\ Single(End(t), wire) => Single(End(t), wire')
  <2>1. PICK line : line = Answer(c, ok)
    OBVIOUS
  <2>2. line \in Lines /\ \A t \in Texts : line # End(t)
    BY <1>4, <2>1, LinesKnown
  <2> QED BY <1>1, <2>1, <2>2, SayKeeps DEF Known
<1>6. \A t \in Texts : /\ Asked(t)' => Asked(t)
                       /\ Single(Call("submit", t), inbox')
  BY <1>2, <1>4 DEF Asked, Known, Matched, OnceInv
<1>7. CASE busy' = busy
  <2>1. OnceInv' /\ HasIt' \subseteq HasIt
    BY <1>5, <1>6, <1>7 DEF Known, Matched, OnceInv, HasIt
  <2>2. EngineTypes'
    BY <1>2, <1>4, <1>5, <1>7 DEF Known, EngineTypes, EngineStep
  <2> QED BY <1>2, <2>1, <2>2, EngineKeeps
<1>8. CASE c.kind = "submit" /\ busy = None /\ busy' = c.who
  <2>1. PICK u : u = c.who
    OBVIOUS
  <2>2. u \in Texts /\ c = Call("submit", u) /\ busy' = u
    BY <1>4, <1>8, <2>1, CallsKnown
  <2>3. Asked(u) /\ ~Ending(u) /\ Single(c, inbox)
    BY <1>4, <2>2 DEF Asked, Known, Matched, OnceInv
  <2>4. ~Occurs(c, inbox')
    BY <1>2, <1>4, <2>3
  <2>5. ~Asked(u)'
    BY <2>2, <2>4 DEF Asked
  <2>6. OnceInv' /\ HasIt' \subseteq HasIt
    BY <1>5, <1>6, <2>2, <2>3, <2>5 DEF Known, Matched, OnceInv, HasIt
  <2>7. EngineTypes'
    BY <1>2, <1>4, <1>5, <2>2 DEF Known, EngineTypes, EngineStep
  <2> QED BY <1>2, <2>6, <2>7, EngineKeeps
<1> QED BY <1>1, <1>7, <1>8

LEMMA EndTurnKeeps ==
  ASSUME Known, EndTurn
  PROVE  Known'
<1>1. PICK u : u = busy
  OBVIOUS
<1>2. u \in Texts /\ busy' = None /\ Say(End(u)) /\ EngineStep /\ inbox' = inbox
  BY <1>1 DEF EndTurn, Known, EngineTypes
<1>3. ~Asked(u) /\ ~Ending(u) /\ u \in HasIt
  BY <1>1, <1>2 DEF Known, Matched, OnceInv, HasIt
<1>4. /\ wire' \in Seq(Lines)
      /\ \A t \in Texts : /\ Ending(t)' <=> Ending(t) \/ t = u
                          /\ Single(End(t), wire) => Single(End(t), wire')
  <2>1. PICK line : line = End(u)
    OBVIOUS
  <2>2. line \in Lines /\ \A t \in Texts : line = End(t) <=> t = u
    BY <1>2, <2>1, LinesKnown
  <2> QED BY <1>2, <1>3, <2>1, <2>2, SayKeeps DEF Known
<1>5. \A t \in Texts : Asked(t)' <=> Asked(t)
  BY <1>2 DEF Asked
<1>6. OnceInv'
  BY <1>2, <1>3, <1>4, <1>5, Numbers DEF Known, Matched, OnceInv
<1>7. HasIt' \subseteq HasIt
  BY <1>2, <1>3, <1>4, <1>5, Numbers DEF HasIt
<1>8. EngineTypes'
  BY <1>2, <1>4 DEF Known, EngineTypes, EngineStep
<1> QED BY <1>2, <1>6, <1>7, <1>8, EngineKeeps

LEMMA DieKeeps ==
  ASSUME Known, Die
  PROVE  Known'
<1>1. busy' = None /\ inbox' = <<>> /\ EngineStep /\ wire' = wire
  BY DEF Die
<1>2. \A x : ~Occurs(x, <<>>) /\ Single(x, <<>>)
  BY EmptyOccurs
<1>3. OnceInv' /\ HasIt' \subseteq HasIt
  BY <1>1, <1>2, Numbers DEF Known, Matched, OnceInv, HasIt, Asked, Ending
<1>4. EngineTypes'
  <2>1. <<>> \in Seq(Calls)
    OBVIOUS
  <2> QED BY <1>1, <2>1 DEF Known, EngineTypes, EngineStep
<1> QED BY <1>1, <1>3, <1>4, EngineKeeps

-----------------------------------------------------------------------------
(* The specification.                                                       *)

(* The inductive invariant.                                                 *)
EngineIInv == Known /\ FlagTypes

LEMMA FlagsKeep ==
  ASSUME FlagTypes, Next
  PROVE  FlagTypes'
<1> USE DEF FlagTypes
<1>1. ASSUME NEW t \in Texts, Prompt(t) \/ StartRun(t) \/ FollowUp(t) \/ Steer(t)
      PROVE  FlagTypes'
  BY <1>1, Zenon DEF Prompt, StartRun, FollowUp, Steer, gatewayVars, engineVars
<1>2. CASE Abort
  BY <1>2, Zenon DEF Abort, InterruptReturns, engineVars
<1>3. Gone => abort' \in {"none", "interrupting", "waiting", "returned"}
  BY Zenon DEF Gone, InterruptReturns
<1>4. CASE Dispose
  BY <1>3, <1>4, Zenon DEF Dispose, Gone
<1>5. CASE Exit
  BY <1>3, <1>5, Zenon DEF Exit, Gone
<1>6. ASSUME NEW r \in Texts, Ask(r) PROVE FlagTypes'
  BY <1>6, Zenon DEF Ask
<1>7. ASSUME NEW r \in Texts, \/ StartTurn(r) \/ NextTurn(r) \/ EndRun(r)
                              \/ ReadyTimeout(r) \/ TurnTimeout(r)
      PROVE  FlagTypes'
  BY <1>7, Zenon DEF StartTurn, NextTurn, EndRun, ReadyTimeout, TurnTimeout, gatewayVars, engineVars
<1>8. ASSUME NEW c, NEW ok, Answered(c, ok)
      PROVE  /\ session' \in BOOLEAN
             /\ abort' \in {"none", "interrupting", "waiting", "returned"}
  BY <1>8, Zenon DEF Answered, InterruptReturns
<1>9. CASE RpcTimeout
  BY <1>8, <1>9, Zenon DEF RpcTimeout, engineVars
<1>10. CASE HandleLine
  <2>1. /\ session' \in BOOLEAN /\ ready' \in BOOLEAN
        /\ abort' \in {"none", "interrupting", "waiting", "returned"}
    <3>1. CASE TakeReady
      BY <3>1, Zenon DEF TakeReady
    <3>2. CASE TakeAnswer
      BY <1>8, <3>2, Zenon DEF TakeAnswer, Unexpected
    <3>3. CASE TakeEnd
      BY <3>3, Zenon DEF TakeEnd
    <3> QED BY <1>10, <3>1, <3>2, <3>3 DEF HandleLine
  <2> QED BY <1>10, <2>1, Zenon DEF HandleLine
<1>11. CASE Boot \/ TakeRequest \/ EndTurn \/ Die
  BY <1>11, Zenon DEF Boot, TakeRequest, EndTurn, Die, EngineStep
<1> QED
  BY <1>1, <1>2, <1>4, <1>5, <1>6, <1>7, <1>9, <1>10, <1>11, Zenon DEF Next

LEMMA KnownKept ==
  ASSUME Known, Next
  PROVE  Known'
<1>1. ASSUME NEW t \in Texts, Prompt(t) PROVE Known'
  BY <1>1, PromptKeeps
<1>2. ASSUME NEW t \in Texts, FollowUp(t) PROVE Known'
  BY <1>2, FollowUpKeeps
<1>3. ASSUME NEW t \in Texts, Steer(t) PROVE Known'
  BY <1>3, SteerKeeps
<1>4. ASSUME NEW r \in Texts, StartRun(r) \/ EndRun(r) PROVE Known'
  BY <1>4, StartAndEndKeep
<1>5. ASSUME NEW r \in Texts, Ask(r) PROVE Known'
  BY <1>5, AskKeeps
<1>6. ASSUME NEW r \in Texts, StartTurn(r) \/ NextTurn(r) PROVE Known'
  BY <1>6, StartTurnKeeps, NextTurnKeeps
<1>7. ASSUME RpcTimeout \/ \E r \in Texts : ReadyTimeout(r) \/ TurnTimeout(r)
      PROVE  Known'
  BY <1>7, TimersKeep
<1>8. CASE Abort \/ Dispose \/ Exit \/ HandleLine
  BY <1>8, AbortKeeps, DisposeKeeps, ExitKeeps, HandleLineKeeps
<1>9. CASE Boot \/ TakeRequest \/ EndTurn \/ Die
  BY <1>9, BootKeeps, TakeRequestKeeps, EndTurnKeeps, DieKeeps
<1> QED
  BY <1>1, <1>2, <1>3, <1>4, <1>5, <1>6, <1>7, <1>8, <1>9, Zenon DEF Next

LEMMA KnownUnchanged ==
  ASSUME EngineIInv, UNCHANGED vars
  PROVE  EngineIInv'
<1>1. /\ UNCHANGED runVars /\ UNCHANGED queueVars /\ turn' = turn
      /\ rpcs' = rpcs /\ inbox' = inbox /\ WireKept
  BY DEF vars, gatewayVars, engineVars, WireKept
<1>2. rpcs' \subseteq Calls /\ InboxKept
  BY <1>1, InboxSame DEF EngineIInv, Known, EngineTypes
<1>3. Known'
  BY <1>1, <1>2, RunsSame DEF EngineIInv
<1>4. FlagTypes'
  BY Zenon DEF EngineIInv, FlagTypes, vars, gatewayVars, engineVars
<1> QED BY <1>3, <1>4 DEF EngineIInv

LEMMA KnownAtFirst ==
  ASSUME Init
  PROVE  EngineIInv
<1>1. /\ run \in [Texts -> [pc : Pcs, text : Texts, drained : 0..DrainGuard]]
      /\ \A r \in Texts : run[r].pc = "none" /\ run[r].text = r
  <2>1. 0 \in 0..DrainGuard /\ "none" \in Pcs
    BY EngineAssumption, SMT DEF Pcs
  <2> QED BY <2>1 DEF Init
<1>2. \A x : ~Occurs(x, <<>>) /\ Single(x, <<>>)
  BY EmptyOccurs
<1>3. RunTypes /\ Holders = {}
  BY <1>1 DEF Init, RunTypes, Holders, Live
<1>4. RunInv /\ Held = {}
  BY <1>1, <1>3
  DEF RunInv, HolderInv, FreshInv, TurnInv, WaiterHasTurn, ForgottenInv, At, Init, Held,
      TextsOf
<1>5. QueueTypes /\ QueueInv /\ Queued = {} /\ Typed = {} /\ Done = {} /\ steering = {}
  <2>1. followUps = <<>> /\ <<>> \in Seq(Texts)
    BY DEF Init
  <2> QED BY <1>2, <2>1 DEF Init, QueueTypes, QueueInv, Queued, Typed, Done
<1>6. PlaceInv /\ NewInv /\ DroppedInv
  <2>1. dropped = {}
    BY DEF Init
  <2> QED BY <1>1, <1>4, <1>5, <2>1 DEF PlaceInv, NewInv, DroppedInv
<1>7. EngineTypes
  BY SMT DEF Init, EngineTypes
<1>8. OnceInv /\ HasIt = {}
  BY <1>2, Numbers DEF Init, OnceInv, HasIt, Asked, Ending
<1>9. EngineInv /\ OwnResult
  BY <1>8 DEF EngineInv, OwnResult, Init
<1>10. FlagTypes
  BY Zenon DEF Init, FlagTypes
<1> QED
  BY <1>4, <1>5, <1>6, <1>7, <1>8, <1>9, <1>10 DEF EngineIInv, Known, Core, Matched

(* A text that has been typed is in one of the five places, in which it is  *)
(* once.                                                                    *)
LEMMA PlacedOnce ==
  ASSUME Core
  PROVE  InOnePlace
<1>1. SUFFICES ASSUME NEW t \in Texts, typed[t] # "no"
               PROVE  \E p \in Places(t) : Places(t) = {p}
  BY DEF InOnePlace, Core, DroppedInv
<1> DEFINE F == {j \in DOMAIN followUps : followUps[j] = t}
<1>2. /\ InTurn(t) = {r \in Holders : run[r].text = t}
      /\ InTurn(t) # {} <=> t \in Held
  BY DEF InTurn, Turning, Holders, Live, Held, TextsOf
<1>3. F # {} <=> t \in Queued
  <2>1. DOMAIN followUps = 1..Len(followUps)
    BY DEF Core, QueueTypes
  <2> QED BY <2>1 DEF Queued, Occurs
<1>4. \A i, j \in F : i = j
  <2>1. DOMAIN followUps = 1..Len(followUps)
    BY DEF Core, QueueTypes
  <2> QED BY <2>1 DEF Core, QueueInv, Single
<1>5. \A r, q \in InTurn(t) : r = q
  BY <1>2 DEF Core, RunInv, HolderInv
<1>6. t \in Held \cup Queued \cup steering \cup dropped \cup Done
  BY <1>1 DEF Core, PlaceInv, Typed
<1>7. t \in Done <=> {t} \ {u \in Texts : result[u] = None} # {}
  BY DEF Done
<1> DEFINE P == {<<"run", r>> : r \in InTurn(t)}
           Q == {<<"followUps", i>> : i \in F}
           S == {<<"steering", 0>> : s \in steering \cap {t}}
           Z == {<<"dropped", 0>> : s \in dropped \cap {t}}
           D == {<<"settled", 0>> : s \in {t} \ {u \in Texts : result[u] = None}}
<1>8. Places(t) = P \cup Q \cup S \cup Z \cup D
  BY DEF Places
<1>9. /\ (P = {} <=> t \notin Held) /\ (Q = {} <=> t \notin Queued)
      /\ (S = {} <=> t \notin steering) /\ (Z = {} <=> t \notin dropped)
      /\ (D = {} <=> t \notin Done)
  BY <1>2, <1>3, <1>7
<1>10. /\ \A x, y \in P : x = y
       /\ \A x, y \in Q : x = y
       /\ \A x, y \in S : x = y
       /\ \A x, y \in Z : x = y
       /\ \A x, y \in D : x = y
  BY <1>4, <1>5
<1> HIDE DEF P, Q, S, Z, D, F
<1>11. \/ P # {} /\ Q = {} /\ S = {} /\ Z = {} /\ D = {}
       \/ P = {} /\ Q # {} /\ S = {} /\ Z = {} /\ D = {}
       \/ P = {} /\ Q = {} /\ S # {} /\ Z = {} /\ D = {}
       \/ P = {} /\ Q = {} /\ S = {} /\ Z # {} /\ D = {}
       \/ P = {} /\ Q = {} /\ S = {} /\ Z = {} /\ D # {}
  BY <1>6, <1>9 DEF Core, PlaceInv
<1> QED BY <1>8, <1>10, <1>11

LEMMA EngineInvariant == Spec => []EngineIInv
<1>1. Init => EngineIInv
  BY KnownAtFirst
<1>2. EngineIInv /\ [Next]_vars => EngineIInv'
  BY KnownKept, FlagsKeep, KnownUnchanged DEF EngineIInv
<1> QED BY <1>1, <1>2, PTL DEF Spec

(* The state is typed, and the run that waits for the end of a turn is the  *)
(* one whose turn it is, unless the gateway has given the turn up: nobody   *)
(* takes it from the run (hermes-gateway.ts 143-172, 289-293).              *)
THEOREM WaiterKeepsTurn == Spec => []Consistent
<1>1. EngineIInv => Consistent
  BY TypesSplit DEF EngineIInv, Known, Core, RunInv, Consistent
<1> QED BY <1>1, EngineInvariant, PTL

(* A turn is settled with the end of its own text, or fails, as long as the *)
(* gateway has not given up the turn of the text whose end it is            *)
(* (hermes-gateway.ts 143-172, 384-403).                                    *)
THEOREM OwnResults == Spec => []OwnResult
<1>1. EngineIInv => OwnResult
  BY DEF EngineIInv, Known, Matched
<1> QED BY <1>1, EngineInvariant, PTL

(* Whatever the user has typed is in one place at any time, on its way to a *)
(* run, queued, in the turn of a single run, settled or dropped, and it is  *)
(* dropped only if another text that says the same has had its turn begun   *)
(* (hermes-session.ts 88-108, 165-182, 222, agent-session.ts 644-664).      *)
THEOREM TextsInOnePlace == Spec => []InOnePlace
<1>1. EngineIInv => InOnePlace
  BY PlacedOnce DEF EngineIInv, Known
<1> QED BY <1>1, EngineInvariant, PTL
=============================================================================

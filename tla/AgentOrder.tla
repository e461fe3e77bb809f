----------------------------- MODULE AgentOrder -----------------------------
(***************************************************************************)
(* The order of agents: by their created_at, and by their id where those   *)
(* are equal.  list_agents sorts by it, and ensure_primary and             *)
(* delete_agent choose the first agent in it as the new primary.           *)
(***************************************************************************)
EXTENDS Naturals

(* a comes before b, or is b.                                               *)
Older(age, a, b) ==
  \/ age[a] < age[b]
  \/ age[a] = age[b] /\ a <= b

(* The first agent of S.                                                    *)
Oldest(S, age) ==
  CHOOSE a \in S : \A b \in S : Older(age, a, b)
=============================================================================

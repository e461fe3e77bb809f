--------------------------- MODULE MCEventFanout ----------------------------
(***************************************************************************)
(* Two clients, one of which can suffer from what happens to the other,    *)
(* and queues that fill up.                                                *)
(***************************************************************************)
EXTENDS EventFanout

CONSTANTS c1, c2, e1, e2

MCClients == {c1, c2}
FirstClient == {c1}
TwoEmitters == {e1, e2}
ThreeAndOne == [e \in TwoEmitters |-> IF e = e1 THEN 3 ELSE 1]
=============================================================================

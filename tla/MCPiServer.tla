----------------------------- MODULE MCPiServer -----------------------------
(***************************************************************************)
(* Two clients, so that one can be told while the other shakes hands.      *)
(***************************************************************************)
EXTENDS PiServer, TLC

CONSTANTS c1, c2

TwoConns == {c1, c2}
=============================================================================

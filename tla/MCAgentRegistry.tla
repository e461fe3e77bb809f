-------------------------- MODULE MCAgentRegistry ---------------------------
(***************************************************************************)
(* A small instance of AgentRegistry: three agent ids, so that a deletion  *)
(* of the primary leaves two agents to choose from, and two handlers, so   *)
(* that every pair of operations interleaves.                              *)
(***************************************************************************)
EXTENDS AgentRegistry

CONSTANTS h1, h2

MCIds == 1..3
MCHandlers == {h1, h2}
NoResolvers == {}

(* For the sandbox resolution that disturbs a deletion two ids are enough.  *)
PairIds == 1..2
=============================================================================

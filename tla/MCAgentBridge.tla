--------------------------- MODULE MCAgentBridge ----------------------------
(***************************************************************************)
(* Two prompts, so that one can disturb the next, and two generations: a   *)
(* prompt can lose its gateway and go through on the second attempt, with  *)
(* the next prompt in the same session, lose both and leave none to the    *)
(* next, or be done and leave a dead one.                                  *)
(***************************************************************************)
EXTENDS AgentBridge
=============================================================================

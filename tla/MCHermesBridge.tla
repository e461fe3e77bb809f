--------------------------- MODULE MCHermesBridge ---------------------------
(***************************************************************************)
(* Two or three prompts, so that what one leaves behind can reach the next *)
(* and the one after it, and one HTTP thread.                              *)
(***************************************************************************)
EXTENDS HermesBridge

CONSTANT v1

MCVisitors == {v1}
AnyRequest == Methods
AllSlow == {"create", "dispatch", "catalog"}
=============================================================================

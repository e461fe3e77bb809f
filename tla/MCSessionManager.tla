-------------------------- MODULE MCSessionManager --------------------------
(***************************************************************************)
(* Three requests on two agents: two that race to build the same bridge    *)
(* and one that finds the outcome.                                         *)
(***************************************************************************)
EXTENDS SessionManager

CONSTANTS t1, t2, t3

MCIds == 1..2
MCHandlers == {t1, t2, t3}
AllRoutes == {"prompt", "events", "skills"}
=============================================================================

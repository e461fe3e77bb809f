--------------------------- MODULE MCHermesEngine ---------------------------
(***************************************************************************)
(* Three texts, so that two prompts can race and still leave a text that   *)
(* steers, or a run takes a follow-up and meets its guard; the steering    *)
(* says the same as the second prompt or follow-up.                        *)
(***************************************************************************)
EXTENDS HermesEngine

MCPrompts == {1, 2}
MCSteers == {3}
MCSays == <<1, 2, 2>>
=============================================================================

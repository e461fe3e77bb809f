--------------------------- MODULE MCLiveSessions ---------------------------
(***************************************************************************)
(* Two connections and a single durable session, so that they meet.        *)
(***************************************************************************)
EXTENDS LiveSessions, TLC

CONSTANTS c1, c2, s1

TwoConns == {c1, c2}
OneSession == {s1}
=============================================================================

-------------------------- MODULE MCSessionLeases ---------------------------
(***************************************************************************)
(* Four leases: two that share, one that waits, one that comes later.      *)
(***************************************************************************)
EXTENDS SessionLeases
=============================================================================

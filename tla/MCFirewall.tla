----------------------------- MODULE MCFirewall -----------------------------
(***************************************************************************)
(* A small instance of Firewall for TLC: two connections.                  *)
(***************************************************************************)
EXTENDS Firewall

CONSTANTS c1, c2

MCConnections == {c1, c2}
=============================================================================

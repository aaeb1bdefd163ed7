----------------------------- MODULE MCExitNode -----------------------------
(* The instance of ExitNode that TLC checks: one slot and two connections,   *)
(* one of them to an onion name on an exit without Tor.                     *)
EXTENDS ExitNode

CONSTANTS c1, c2

Conns == {c1, c2}
OnionConns == {c2}
=============================================================================

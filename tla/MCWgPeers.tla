----------------------------- MODULE MCWgPeers ------------------------------
(* The instance of WgPeers that TLC checks. *)
EXTENDS WgPeers

CONSTANTS a1, a2, k1, k2, r1, r2

Addrs == {a1, a2}
Keys == {k1, k2}
Requests == {r1, r2}
=============================================================================

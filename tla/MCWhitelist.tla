----------------------------- MODULE MCWhitelist ----------------------------
(* An instance of Whitelist for TLC.                                        *)
EXTENDS Whitelist, TLC

CONSTANTS h1, h2, t1, t2, t3

TwoHosts == {h1, h2}
ThreeTx == {t1, t2, t3}
Symmetry == Permutations(Host) \cup Permutations(Tx)
=============================================================================

---------------------------- MODULE MCRecomputeTx ---------------------------
(* Instances of RecomputeTx for TLC.                                        *)
EXTENDS RecomputeTx

CONSTANTS a1, a2, t1, t2

TwoAddr == {a1, a2}
TwoTx == {t1, t2}
=============================================================================

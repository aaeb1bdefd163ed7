--------------------------- MODULE MCUsageMetering --------------------------
(* Instances of UsageMetering for TLC.                                      *)
EXTENDS UsageMetering

CONSTANTS k1, k2

One == {k1}
Two == {k1, k2}
=============================================================================

------------------------- MODULE MCAuthzSyncRestore -------------------------
(* Instances of AuthzSyncRestore for TLC.                                   *)
EXTENDS AuthzSyncRestore, TLC

CONSTANTS a1, a2

Two == {a1, a2}
Symmetry == Permutations(Addr)
=============================================================================

----------------------------- MODULE MCAuthzSync ----------------------------
(* An instance of AuthzSync for TLC.                                        *)
EXTENDS AuthzSync

CONSTANTS a1, a2

Two == {a1, a2}
=============================================================================

----------------------------- MODULE MCLongPoll -----------------------------
(* Instances of LongPoll for TLC.                                           *)
EXTENDS LongPoll

CONSTANTS p1, p2

Two == {p1, p2}
=============================================================================

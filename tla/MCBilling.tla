----------------------------- MODULE MCBilling ------------------------------
(* The instance of Billing that TLC checks: two reports that charge two      *)
(* accounts in opposite orders, one sample over the clamp.                  *)
EXTENDS Billing, TLC

CONSTANTS A, B, socks, tor, r1, r2, p1, p2, e1, e2, e3, e4

Accounts == {A, B}
Services == {socks, tor}
Reports == {r1, r2}
Requests == {p1, p2}
RateOf == socks :> 4 @@ tor :> 2
ByExpiry == <<e1, e2, e3, e4>>
OwnerOf == e1 :> A @@ e2 :> A @@ e3 :> B @@ e4 :> B
VolumeOf == e1 :> 2 @@ e2 :> 2 @@ e3 :> 2 @@ e4 :> 0
AtFirst == {e1, e3, e4}
Buffered == {r2}

Sample(a, s, b) == [account |-> a, service |-> s, bytes |-> b]
SamplesOf ==
  r1 :> <<Sample(A, socks, 3), Sample(B, tor, 9)>> @@
  r2 :> <<Sample(B, socks, 1), Sample(A, tor, 5)>>
=============================================================================

------------------------------ MODULE MCCashu -------------------------------
(* An instance of Cashu, with the purchases it extends, for TLC: a token of *)
(* the size the pay page asks for.  Who else pays the invoice is Pay.       *)
EXTENDS Cashu

CONSTANTS b1, t1

One == {b1}
Tokens == {t1}
ValueOf == [t \in Tokens |-> MeltAmount(Price)]
=============================================================================

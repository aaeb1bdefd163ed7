-------------------------------- MODULE Sums --------------------------------
(* The sum of a function over a finite set: what SQL's sum(...) adds up, and *)
(* what the properties about bytes and charges compare.                      *)
EXTENDS Functions

SumOver(f, S) == FoldFunctionOnSet(+, 0, f, S)
=============================================================================

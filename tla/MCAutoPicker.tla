---------------------------- MODULE MCAutoPicker ----------------------------
(* Instances of AutoPicker for TLC. *)
EXTENDS AutoPicker

\* Pairs on markets of their own.
ApartLeft  == <<"a", "c">>
ApartRight == <<"b", "d">>

\* The first and the last pair share a market.
SharedLeft  == <<"a", "c", "a">>
SharedRight == <<"b", "d", "e">>

S(q, l, r) == [qty |-> q, openL |-> l, openR |-> r]

\* Small, large and lopsided steps, more than one per pair, and one without prices.
MixedHistories == {<<>>, <<S(1, 1, 1)>>, <<S(1, 1, 1), S(1, 3, 1)>>, <<S(1, 0, 0)>>}
UnitHistories  == {<<>>, <<S(1, 1, 1)>>}
=============================================================================

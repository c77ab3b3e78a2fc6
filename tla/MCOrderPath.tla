---------------------------- MODULE MCOrderPath -----------------------------
(* An instance of OrderPath for TLC. *)
EXTENDS OrderPath

CONSTANTS order, leverage

OneOrder == {order}
OneOther == {leverage}
=============================================================================

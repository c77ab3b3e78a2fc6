---------------------------- MODULE MCPairActor ----------------------------
(* One pair actor, small enough for TLC. *)
EXTENDS PairActor
=============================================================================

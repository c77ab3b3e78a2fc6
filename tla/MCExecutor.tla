----------------------------- MODULE MCExecutor -----------------------------
(* One execution, small enough for TLC. *)
EXTENDS Executor
=============================================================================

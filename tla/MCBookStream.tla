---------------------------- MODULE MCBookStream ----------------------------
(* An instance of BookStream for TLC. *)
EXTENDS BookStream

\* A level is there, a second one is added, and the first one goes.
TwoLevels == {"p", "q"}
Books3 == <<[p |-> 1, q |-> 0], [p |-> 1, q |-> 2], [p |-> 0, q |-> 2]>>
=============================================================================

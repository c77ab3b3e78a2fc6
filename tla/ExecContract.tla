---------------------------- MODULE ExecContract ----------------------------
(***************************************************************************)
(* What the two-leg executor (internal/execution/executor.go) promises the *)
(* actor that calls it, on an account nobody else trades:                  *)
(*   - it sends one IOC pair, and then reduce-only batches that bring the  *)
(*     legs away from their targets exactly to them;                       *)
(*   - no batch is sent while an order of an earlier one may still execute,*)
(*     after the call's context is cancelled, or between two calls;        *)
(*   - it reports a settlement only when every order has ended and both    *)
(*     positions are at their targets, and is silent ever after.           *)
(* PairActor is written against this contract; Executor implements it.     *)
(***************************************************************************)
EXTENDS Integers

CONSTANTS
  MaxQty,  \* largest quantity of one leg of an IOC pair
  Hedges   \* left positions an execution may start from

Legs == {"L", "R"}

VARIABLES
  pos,        \* the position of each leg's market
  live,       \* signed quantity of the order that may still execute, per leg
  phase,      \* fresh, calling, returned, settled or declined
  cancelled,  \* the context of the call is cancelled
  zero        \* the only target left is a flat account

vars == <<pos, live, phase, cancelled, zero>>

Abs(n) == IF n < 0 THEN -n ELSE n
Sgn(n) == IF n > 0 THEN 1 ELSE IF n < 0 THEN -1 ELSE 0
Hedge(n) == [leg \in Legs |-> IF leg = "L" THEN n ELSE -n]

\* The hedge two opposed positions have in common, flat if they do not oppose.
hedgeTargets(p) ==
  IF p["L"] * p["R"] >= 0 THEN Hedge(0)
  ELSE Hedge(Sgn(p["L"]) * (IF Abs(p["L"]) < Abs(p["R"]) THEN Abs(p["L"]) ELSE Abs(p["R"])))

Target == IF zero THEN Hedge(0) ELSE hedgeTargets(pos)
Idle == \A leg \in Legs : live[leg] = 0

Init ==
  /\ \E n \in Hedges : pos = Hedge(n)
  /\ live = Hedge(0)
  /\ phase = "fresh"
  /\ cancelled = FALSE
  /\ zero \in BOOLEAN

\* ExecuteBounded: the two orders of the pair are one decision.
SendPair ==
  /\ phase = "fresh" /\ ~zero
  /\ ~cancelled
  /\ \E q \in 1..MaxQty, side \in {-1, 1} : live' = Hedge(side * q)
  /\ phase' = "calling"
  /\ UNCHANGED <<pos, cancelled, zero>>

\* EmergencyFlatten sends nothing before it has read the positions.
Call ==
  /\ phase = "fresh" /\ zero
  /\ phase' = "calling"
  /\ UNCHANGED <<pos, live, cancelled, zero>>

\* An order matches in part, in full or not at all, and is gone.
Terminate ==
  \E leg \in Legs :
    /\ live[leg] # 0
    /\ \E k \in 0..Abs(live[leg]) : pos' = [pos EXCEPT ![leg] = @ + Sgn(live[leg]) * k]
    /\ live' = [live EXCEPT ![leg] = 0]
    /\ UNCHANGED <<phase, cancelled, zero>>

Rescue ==
  /\ phase = "calling"
  /\ ~cancelled
  /\ Idle
  /\ \E sent \in (SUBSET {leg \in Legs : pos[leg] # Target[leg]}) \ {{}} :
       live' = [leg \in Legs |-> IF leg \in sent THEN Target[leg] - pos[leg] ELSE 0]
  /\ UNCHANGED <<pos, phase, cancelled, zero>>

\* With every order ended, the caller's intervention turns to a flat account.
GiveUpHedge ==
  /\ phase = "calling"
  /\ Idle
  /\ zero' = TRUE
  /\ UNCHANGED <<pos, live, phase, cancelled>>

Settle ==
  /\ phase = "calling"
  /\ Idle
  /\ pos = Target
  /\ phase' = "settled"
  /\ UNCHANGED <<pos, live, cancelled, zero>>

\* Out of time, out of reads, out of prices, or cancelled.
Return ==
  /\ phase = "calling"
  /\ phase' = "returned"
  /\ UNCHANGED <<pos, live, cancelled, zero>>

Decline ==
  /\ phase = "fresh" /\ ~zero
  /\ phase' = "declined"
  /\ UNCHANGED <<pos, live, cancelled, zero>>

Resume ==
  /\ phase = "returned"
  /\ phase' = "calling"
  /\ cancelled' = FALSE
  /\ UNCHANGED <<pos, live, zero>>

Cancel ==
  /\ cancelled' = TRUE
  /\ UNCHANGED <<pos, live, phase, zero>>

Next ==
  \/ SendPair \/ Call \/ Terminate \/ Rescue \/ GiveUpHedge \/ Settle
  \/ Return \/ Decline \/ Resume \/ Cancel

Spec == Init /\ [][Next]_vars

=============================================================================

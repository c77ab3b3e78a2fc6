----------------------------- MODULE PairActor -----------------------------
(***************************************************************************)
(* One PairActor (internal/engine/pair.go, settlement.go, checkpoint.go):  *)
(* the goroutine that owns one two-leg position, its persisted ledger, and *)
(* the three other parties that touch it:                                  *)
(*   - the venues, which match, cancel or expire IOC orders at their own   *)
(*     pace, also after the process that sent them has died;               *)
(*   - the picker goroutine, which calls Drain() and polls Drained();      *)
(*   - the watchRisk goroutine, which blocks openings and requests an      *)
(*     emergency exit.                                                     *)
(*                                                                         *)
(* Quantities are integers in units of the common lot of both markets.     *)
(* The ledger is its signed sum: what expectedL() computes from the steps, *)
(* zero exactly when there is no step (steps are positive and never of     *)
(* mixed direction), so it also stands for the counter cnt.                *)
(*                                                                         *)
(* The executor appears through its contract: it sends at most one order   *)
(* per leg at a time, sends nothing after its context is cancelled, and    *)
(* reports a settlement only after every order it sent has ended and both  *)
(* positions are at their targets. Otherwise it returns unresolved.        *)
(***************************************************************************)
EXTENDS Integers, FiniteSets

CONSTANTS
  StepQty,      \* units of one opening (Params.StepQty)
  MaxUnits,     \* units at which no further step is opened (Params.MaxSteps steps)
  StallLimit,   \* interventionStallLimit
  Watched,      \* a margin trigger is configured: watchRisk runs
  MaxRestarts,  \* bound: how often the process is started again
  MaxExternal   \* bound: position changes made outside this program

ASSUME ConstantsAssumption ==
  /\ StepQty \in Nat \ {0}
  /\ MaxUnits \in Nat
  /\ StallLimit \in Nat \ {0}
  /\ Watched \in BOOLEAN
  /\ MaxRestarts \in Nat
  /\ MaxExternal \in Nat

Legs == {"L", "R"}
Gens == 0..MaxRestarts

VARIABLES
  \* the venues
  pos,       \* position of each leg's market
  orders,    \* orders[g][leg]: the live order the g-th process left on a leg
  nExt,      \* external changes so far
  drift,     \* legs changed externally since the actor last read them
  \* the state file
  disk,
  \* process-wide
  gen,       \* number of this process
  pc,        \* control point of the actor goroutine
  stop,      \* the actor's context is cancelled
  \* owned by the actor goroutine
  boot,      \* the reconcile in progress is the one at start-up
  mode, led, checkpoint, exit, reconciled, legacy,
  pending,   \* a.pending # nil
  ex,        \* the execution in flight or pending
  clock,     \* the quarantine clock: checkpointSince / checkpointExitSince
  due,       \* whether the grace period was over when this pass began
  rl,        \* the left position read by this pass
  \* atomics shared with the picker and the risk watcher
  settled, flatPos, drain, drainConfirmed, wake,
  emergency, riskBlocked, startupRecovered,
  cancelled, \* the registered execCancel was called
  watch,     \* watchRisk is between its CAS and its cancel
  rd,        \* how far the picker's evaluation of Drained() has come
  retired    \* Drained() returned true to the picker

venueVars  == <<pos, orders, nExt, drift>>
procVars   == <<gen, stop>>
actorVars  == <<boot, mode, led, checkpoint, exit, reconciled, legacy,
                pending, ex, clock, due, rl>>
sharedVars == <<settled, flatPos, drain, drainConfirmed, wake, emergency,
                riskBlocked, startupRecovered, cancelled>>
otherVars  == <<watch, rd, retired>>
vars == <<venueVars, disk, procVars, pc, actorVars, sharedVars, otherVars>>

----------------------------------------------------------------------------
(* Values *)

Abs(n) == IF n < 0 THEN -n ELSE n
Sgn(n) == IF n > 0 THEN 1 ELSE IF n < 0 THEN -1 ELSE 0
Smaller(a, b) == IF a < b THEN a ELSE b

NoOrder == [q |-> 0, ro |-> FALSE]
Idle(g) == \A leg \in Legs : orders[g][leg].q = 0
NothingLive == \A g \in Gens : Idle(g)
OldIdle == \A g \in Gens : g # gen => Idle(g)

Hedge(n) == [leg \in Legs |-> IF leg = "L" THEN n ELSE -n]
Flatness == Hedge(0)

\* A hedge present on both markets: the smaller leg if they oppose each
\* other, nothing otherwise.
hedgeTargets(p) ==
  IF p["L"] * p["R"] >= 0 THEN Flatness
  ELSE Hedge(Sgn(p["L"]) * Smaller(Abs(p["L"]), Abs(p["R"])))

Kinds  == {"none", "open", "close", "unwind"}
Stages == {"settle", "terminals", "flatten"}
NoEx == [kind |-> "none", side |-> 0, qty |-> 0, stage |-> "settle", stalls |-> 0]

\* An execution that only ever reduces to zero.
Flattening == ex.kind = "unwind" \/ ex.stage = "flatten"
Target == IF Flattening THEN Flatness ELSE hedgeTargets(pos)

BusyPoints == {"recL", "recR", "recS", "recheck", "submit", "exec"}
Busy       == pc \in BusyPoints
Registered == pc \in {"recheck", "submit", "exec"}
CtxDone    == cancelled \/ stop
Draining   == drain # "no"
Up         == pc # "down"

SavePoints == {"saveSend", "saveDone", "saveFail", "saveClear", "saveMark",
               "saveRelease", "saveFinal"}
Points == {"down", "loop", "exL", "exR", "register"} \cup BusyPoints \cup SavePoints

----------------------------------------------------------------------------
(* The state file *)

\* Steps without entry prices come from an old state file and leave the ledger
\* only when it is cleared as a whole.
Unpriced == disk.unpriced /\ led # 0

\* What persist() writes: always the whole in-memory state.
Image == [led |-> led, unresolved |-> checkpoint, exit |-> exit, unpriced |-> Unpriced]

SaveOK(from, to) == /\ pc = from
                    /\ disk' = Image
                    /\ pc' = to

\* A failed save may or may not have replaced the file (the rename precedes
\* the directory sync). The loop returns fatalErr; Run then saves once more.
SaveErr ==
  /\ pc \in SavePoints \ {"saveFinal"}
  /\ disk' \in {disk, Image}
  /\ mode' = "PAUSED"
  /\ settled' = FALSE
  /\ pc' = "saveFinal"
  /\ UNCHANGED <<venueVars, procVars, boot, led, checkpoint, exit, reconciled, legacy,
                 pending, ex, clock, due, rl, flatPos, drain, drainConfirmed, wake,
                 emergency, riskBlocked, startupRecovered, cancelled, otherVars>>

\* Memory of a process that is gone: fixed values, nothing reads them.
Vanish ==
  /\ pc' = "down"
  /\ boot' = TRUE /\ mode' = "PAUSED" /\ led' = 0
  /\ checkpoint' = FALSE /\ exit' = FALSE /\ reconciled' = FALSE /\ legacy' = FALSE
  /\ pending' = FALSE /\ ex' = NoEx /\ clock' = "off" /\ due' = FALSE /\ rl' = 0
  /\ settled' = FALSE /\ flatPos' = FALSE /\ drain' = "no" /\ drainConfirmed' = FALSE
  /\ wake' = FALSE /\ emergency' = FALSE /\ riskBlocked' = FALSE
  /\ startupRecovered' = FALSE /\ cancelled' = FALSE
  /\ watch' = "idle" /\ rd' = 0 /\ UNCHANGED retired

\* The deferred persist of Run.
SaveFinal ==
  /\ pc = "saveFinal"
  /\ disk' \in {disk, Image}
  /\ Vanish
  /\ UNCHANGED <<venueVars, procVars>>

\* The process dies; a write under way may have reached the disk.
Crash ==
  /\ Up
  /\ disk' \in IF pc \in SavePoints THEN {disk, Image} ELSE {disk}
  /\ Vanish
  /\ UNCHANGED <<venueVars, procVars>>

\* NewPairActor for live trading, and the first lines of Run.
LoadForgetsExit(d) ==
  /\ pc' = "recL"
  /\ boot' = TRUE
  /\ mode' = "PAUSED"
  /\ led' = d.led
  /\ checkpoint' = d.unresolved
  /\ exit' = FALSE
  /\ clock' = "off"
  /\ legacy' = d.unpriced
  /\ startupRecovered' = ~d.unresolved
  /\ reconciled' = FALSE /\ settled' = FALSE /\ flatPos' = FALSE
  /\ riskBlocked' = Watched
  /\ pending' = FALSE /\ ex' = NoEx /\ due' = FALSE /\ rl' = 0
  /\ drain' = "no" /\ drainConfirmed' = FALSE /\ wake' = FALSE
  /\ emergency' = FALSE /\ cancelled' = FALSE
  /\ watch' = "idle" /\ rd' = 0 /\ retired' = FALSE
Load(d) ==
  /\ pc' = "recL"
  /\ boot' = TRUE
  /\ mode' = "PAUSED"
  /\ led' = d.led
  /\ checkpoint' = d.unresolved
  /\ exit' = d.exit
  /\ clock' = IF d.exit THEN "running" ELSE "off"
  /\ legacy' = d.unpriced
  /\ startupRecovered' = ~d.unresolved
  /\ reconciled' = FALSE /\ settled' = FALSE /\ flatPos' = FALSE
  /\ riskBlocked' = Watched
  /\ pending' = FALSE /\ ex' = NoEx /\ due' = FALSE /\ rl' = 0
  /\ drain' = "no" /\ drainConfirmed' = FALSE /\ wake' = FALSE
  /\ emergency' = FALSE /\ cancelled' = FALSE
  /\ watch' = "idle" /\ rd' = 0 /\ retired' = FALSE

Restart ==
  /\ pc = "down"
  /\ gen < MaxRestarts
  /\ gen' = gen + 1
  /\ stop' = FALSE
  /\ Load(disk)
  /\ UNCHANGED <<venueVars, disk>>

----------------------------------------------------------------------------
(* Reconciliation with the venues: at start-up, and every pass of          *)
(* recoverCheckpoint                                                       *)

ReconcileFailed ==
  /\ pc' = "loop"
  /\ boot' = FALSE
  /\ rl' = 0 /\ due' = FALSE
  /\ clock' = IF boot THEN clock ELSE "off"

ReadLeft ==
  /\ pc = "recL"
  /\ rl' = pos["L"]
  /\ drift' = drift \ {"L"}
  /\ pc' = "recR"
  /\ UNCHANGED <<pos, orders, nExt, disk, procVars, boot, mode, led, checkpoint, exit,
                 reconciled, legacy, pending, ex, clock, due, sharedVars, otherVars>>

ReadFailed ==
  /\ pc \in {"recL", "recR"}
  /\ ReconcileFailed
  /\ UNCHANGED <<venueVars, disk, procVars, mode, led, checkpoint, exit, reconciled,
                 legacy, pending, ex, sharedVars, otherVars>>

\* Positions differ from the ledger: only the belief changes, the atomics keep
\* what they said.
ReadMismatch ==
  /\ pc = "recR"
  /\ <<rl, pos["R"]>> # <<led, -led>>
  /\ drift' = drift \ {"R"}
  /\ ReconcileFailed
  /\ UNCHANGED <<pos, orders, nExt, disk, procVars, mode, led, checkpoint, exit, reconciled,
                 legacy, pending, ex, sharedVars, otherVars>>

\* Positions match. The settled flag is raised even when a checkpoint is open
\* and lowered again a few lines later.
ReadMatch ==
  /\ pc = "recR"
  /\ rl = led /\ pos["R"] = -led
  /\ drift' = drift \ {"R"}
  /\ reconciled' = TRUE
  /\ legacy' = (legacy \/ Unpriced)
  /\ flatPos' = (led = 0)
  /\ settled' = TRUE
  /\ rl' = 0
  /\ pc' = "recS"
  /\ UNCHANGED <<pos, orders, nExt, disk, procVars, boot, mode, led, checkpoint, exit,
                 pending, ex, clock, due, drain, drainConfirmed, wake, emergency,
                 riskBlocked, startupRecovered, cancelled, otherVars>>

Reconciled ==
  /\ pc = "recS"
  /\ ~checkpoint
  /\ mode' = IF legacy THEN "PAUSED" ELSE "WARMUP"
  /\ boot' = FALSE
  /\ pc' = "loop"
  /\ UNCHANGED <<venueVars, disk, procVars, led, checkpoint, exit, reconciled, legacy,
                 pending, ex, clock, due, rl, sharedVars, otherVars>>

\* A matching snapshot proves nothing while an order of a dead process may
\* still land: the clock starts with the first match and the checkpoint goes
\* only when the grace period was over before these reads.
ReconciledTooEarly ==
  /\ pc = "recS"
  /\ checkpoint
  /\ settled' = FALSE
  /\ clock' = IF clock = "off" THEN "running" ELSE clock
  /\ boot' = FALSE /\ due' = FALSE
  /\ IF ~boot /\ clock = "elapsed"
       THEN checkpoint' = FALSE /\ pc' = "saveClear"
       ELSE pc' = "loop" /\ UNCHANGED checkpoint
  /\ UNCHANGED <<venueVars, disk, procVars, mode, led, exit, reconciled, legacy, pending,
                 ex, rl, flatPos, drain, drainConfirmed, wake, emergency, riskBlocked,
                 startupRecovered, cancelled, otherVars>>
ReconciledQuarantined ==
  /\ pc = "recS"
  /\ checkpoint
  /\ settled' = FALSE
  /\ clock' = IF clock = "off" THEN "running" ELSE clock
  /\ boot' = FALSE
  /\ due' = FALSE
  /\ IF ~boot /\ due
       THEN checkpoint' = FALSE /\ pc' = "saveClear"
       ELSE pc' = "loop" /\ UNCHANGED checkpoint
  /\ UNCHANGED <<venueVars, disk, procVars, mode, led, exit, reconciled, legacy, pending,
                 ex, rl, flatPos, drain, drainConfirmed, wake, emergency, riskBlocked,
                 startupRecovered, cancelled, otherVars>>

SaveClear ==
  /\ SaveOK("saveClear", "loop")
  /\ settled' = TRUE
  /\ mode' = IF legacy THEN mode ELSE "WARMUP"
  /\ startupRecovered' = TRUE
  /\ clock' = "off"
  /\ UNCHANGED <<venueVars, procVars, boot, led, checkpoint, exit, reconciled, legacy,
                 pending, ex, due, rl, flatPos, drain, drainConfirmed, wake, emergency,
                 riskBlocked, cancelled, otherVars>>

----------------------------------------------------------------------------
(* decideOnce: the branches, in the order the code tries them              *)

AtLoop == pc = "loop" /\ ~stop
WantsExit == exit \/ emergency \/ Draining

\* resolvePending: resume the execution left unresolved.
ResolveAfterCheckpoint ==
  /\ AtLoop
  /\ pending /\ ~checkpoint
  /\ cancelled' = FALSE
  /\ pc' = "exec"
  /\ UNCHANGED <<venueVars, disk, procVars, actorVars, settled, flatPos, drain,
                 drainConfirmed, wake, emergency, riskBlocked, startupRecovered, otherVars>>
ResolvePending ==
  /\ AtLoop
  /\ pending
  /\ cancelled' = FALSE
  /\ pc' = "exec"
  /\ UNCHANGED <<venueVars, disk, procVars, actorVars, settled, flatPos, drain,
                 drainConfirmed, wake, emergency, riskBlocked, startupRecovered, otherVars>>

RecoverCheckpoint ==
  /\ AtLoop
  /\ ~pending /\ checkpoint /\ ~WantsExit
  /\ due' = (clock = "elapsed")
  /\ mode' = "PAUSED"
  /\ pc' = "recL"
  /\ UNCHANGED <<venueVars, disk, procVars, boot, led, checkpoint, exit, reconciled,
                 legacy, pending, ex, clock, rl, sharedVars, otherVars>>

\* An exit was asked for while orders of a dead process may be live: the
\* intent is made durable first, with a fresh quarantine clock.
RecoverCheckpointExit ==
  /\ AtLoop
  /\ ~pending /\ checkpoint /\ WantsExit
  /\ due' = (exit /\ clock = "elapsed")
  /\ exit' = TRUE
  /\ clock' = IF exit /\ clock # "off" THEN clock ELSE "running"
  /\ settled' = FALSE
  /\ mode' = "PAUSED"
  /\ pc' = IF exit THEN "exL" ELSE "saveMark"
  /\ UNCHANGED <<venueVars, disk, procVars, boot, led, checkpoint, reconciled, legacy,
                 pending, ex, rl, flatPos, drain, drainConfirmed, wake, emergency,
                 riskBlocked, startupRecovered, cancelled, otherVars>>

SaveMark ==
  /\ SaveOK("saveMark", "exL")
  /\ UNCHANGED <<venueVars, procVars, actorVars, sharedVars, otherVars>>

ExitReadLeft ==
  /\ pc = "exL"
  /\ rl' = pos["L"]
  /\ drift' = drift \ {"L"}
  /\ pc' = "exR"
  /\ UNCHANGED <<pos, orders, nExt, disk, procVars, boot, mode, led, checkpoint, exit,
                 reconciled, legacy, pending, ex, clock, due, sharedVars, otherVars>>

ExitReadFailed ==
  /\ pc \in {"exL", "exR"}
  /\ pc' = "loop"
  /\ rl' = 0 /\ due' = FALSE
  /\ UNCHANGED <<venueVars, disk, procVars, boot, mode, led, checkpoint, exit, reconciled,
                 legacy, pending, ex, clock, sharedVars, otherVars>>

\* unwind: everything before EmergencyFlatten is called.
BeginUnwind ==
  /\ mode' = "PAUSED"
  /\ checkpoint' = TRUE
  /\ settled' = FALSE
  /\ ex' = [NoEx EXCEPT !.kind = "unwind"]
  /\ pc' = "saveSend"

\* Both legs read. Anything left is reduced; a flat account is released only
\* after the grace period.
ExitReadRight ==
  /\ pc = "exR"
  /\ flatPos' = (rl = 0 /\ pos["R"] = 0)
  /\ drift' = drift \ {"R"}
  /\ reconciled' = TRUE
  /\ rl' = 0 /\ due' = FALSE
  /\ \/ /\ ~(flatPos' /\ led = 0)
        /\ BeginUnwind
        /\ UNCHANGED exit
     \/ /\ flatPos' /\ led = 0 /\ ~due
        /\ pc' = "loop"
        /\ UNCHANGED <<mode, checkpoint, exit, settled, ex>>
     \/ /\ flatPos' /\ led = 0 /\ due
        /\ exit' = FALSE
        /\ checkpoint' = FALSE
        /\ pc' = "saveRelease"
        /\ UNCHANGED <<mode, settled, ex>>
  /\ UNCHANGED <<pos, orders, nExt, disk, procVars, boot, led, legacy, pending, clock,
                 drain, drainConfirmed, wake, emergency, riskBlocked, startupRecovered,
                 cancelled, otherVars>>

SaveRelease ==
  /\ SaveOK("saveRelease", "loop")
  /\ settled' = TRUE
  /\ startupRecovered' = TRUE
  /\ drainConfirmed' = (drainConfirmed \/ Draining)
  /\ emergency' = FALSE
  /\ clock' = "off"
  /\ UNCHANGED <<venueVars, procVars, boot, mode, led, checkpoint, exit, reconciled,
                 legacy, pending, ex, due, rl, flatPos, drain, wake, riskBlocked, cancelled,
                 otherVars>>

Emergency ==
  /\ AtLoop
  /\ ~pending /\ ~checkpoint
  /\ emergency /\ reconciled
  /\ BeginUnwind
  /\ UNCHANGED <<venueVars, disk, procVars, boot, led, exit, reconciled, legacy, pending,
                 clock, due, rl, flatPos, drain, drainConfirmed, wake, emergency, riskBlocked,
                 startupRecovered, cancelled, otherVars>>

\* drain: an actor that is flat by its own flags confirms; any other unwinds.
DrainUnconfirmed ==
  /\ AtLoop
  /\ ~pending /\ ~checkpoint
  /\ ~(emergency /\ reconciled)
  /\ Draining /\ reconciled
  /\ ~(settled /\ flatPos /\ led = 0)
  /\ BeginUnwind
  /\ UNCHANGED <<venueVars, disk, procVars, boot, led, exit, reconciled, legacy, pending,
                 clock, due, rl, flatPos, drain, drainConfirmed, wake, emergency, riskBlocked,
                 startupRecovered, cancelled, otherVars>>
DrainStep ==
  /\ AtLoop
  /\ ~pending /\ ~checkpoint
  /\ ~(emergency /\ reconciled)
  /\ Draining /\ reconciled
  /\ IF settled /\ flatPos /\ led = 0
       THEN /\ drainConfirmed' = TRUE
            /\ mode' = "PAUSED"
            /\ UNCHANGED <<checkpoint, settled, ex, pc>>
       ELSE /\ BeginUnwind
            /\ UNCHANGED drainConfirmed
  /\ UNCHANGED <<venueVars, disk, procVars, boot, led, exit, reconciled, legacy, pending,
                 clock, due, rl, flatPos, drain, wake, emergency, riskBlocked,
                 startupRecovered, cancelled, otherVars>>

\* Run's handler for drainWake.
DrainWake ==
  /\ AtLoop
  /\ wake
  /\ wake' = FALSE
  /\ mode' = IF reconciled THEN "REDUCE_ONLY" ELSE mode
  /\ UNCHANGED <<venueVars, disk, procVars, pc, boot, led, checkpoint, exit, reconciled,
                 legacy, pending, ex, clock, due, rl, settled, flatPos, drain, drainConfirmed,
                 emergency, riskBlocked, startupRecovered, cancelled, otherVars>>

Trading ==
  /\ AtLoop
  /\ ~pending /\ ~checkpoint
  /\ ~(emergency /\ reconciled)
  /\ ~Draining
  /\ mode # "PAUSED"

\* The mode transitions of decideOnce; ready is meanReady().
NextMode(ready) ==
  CASE riskBlocked -> "REDUCE_ONLY"
    [] ~riskBlocked /\ ready /\ mode \in {"REDUCE_ONLY", "WARMUP"} -> "RUNNING"
    [] OTHER -> mode

\* No action, or one that is blocked before anything is changed.
DecideNone ==
  /\ Trading
  /\ \E ready \in BOOLEAN : mode' = NextMode(ready)
  /\ UNCHANGED <<venueVars, disk, procVars, pc, boot, led, checkpoint, exit, reconciled,
                 legacy, pending, ex, clock, due, rl, sharedVars, otherVars>>

BeginApply(e) ==
  /\ ex' = e
  /\ checkpoint' = TRUE
  /\ settled' = FALSE
  /\ pc' = "saveSend"
  /\ UNCHANGED <<venueVars, disk, procVars, boot, led, exit, reconciled, legacy, pending,
                 clock, due, rl, flatPos, drain, drainConfirmed, wake, emergency, riskBlocked,
                 startupRecovered, cancelled, otherVars>>

\* side is the left leg's order side. Opening needs a ready mean, an unblocked
\* account, no step of the other direction and room for the step.
DecideOpen ==
  /\ Trading
  /\ ~emergency
  /\ mode' = NextMode(TRUE)
  /\ mode' = "RUNNING"
  /\ \E side \in {-1, 1} :
       /\ side * led >= 0
       /\ Abs(led) + StepQty <= MaxUnits
       /\ BeginApply([NoEx EXCEPT !.kind = "open", !.side = side, !.qty = StepQty])

\* Closing is allowed in every mode but PAUSED; qty is the chosen step's.
DecideClose ==
  /\ Trading
  /\ ~emergency
  /\ \E ready \in BOOLEAN : mode' = NextMode(ready)
  /\ \E qty \in 1..Smaller(StepQty, Abs(led)) :
       BeginApply([NoEx EXCEPT !.kind = "close", !.side = -Sgn(led), !.qty = qty])

----------------------------------------------------------------------------
(* Sending: checkpointBeforeSend, executionContext, the recheck            *)

SaveSendLater ==
  /\ pc = "saveSend"
  /\ pc' = "register"
  /\ UNCHANGED <<venueVars, disk, procVars, actorVars, sharedVars, otherVars>>
SaveSend ==
  /\ SaveOK("saveSend", "register")
  /\ UNCHANGED <<venueVars, procVars, actorVars, sharedVars, otherVars>>

\* executionContext publishes the cancel function. Only apply rechecks.
Register ==
  /\ pc = "register"
  /\ cancelled' = FALSE
  /\ pc' = IF ex.kind = "unwind" THEN "exec" ELSE "recheck"
  /\ UNCHANGED <<venueVars, disk, procVars, actorVars, settled, flatPos, drain,
                 drainConfirmed, wake, emergency, riskBlocked, startupRecovered, otherVars>>

\* A drain or risk request that came before the registration found nothing to
\* cancel; it is seen here, before either IOC is sent.
RecheckDrainOnly ==
  /\ pc = "recheck"
  /\ IF Draining
       THEN pc' = "saveDone" /\ checkpoint' = exit
       ELSE pc' = "submit" /\ UNCHANGED checkpoint
  /\ UNCHANGED <<venueVars, disk, procVars, boot, mode, led, exit, reconciled, legacy,
                 pending, ex, clock, due, rl, sharedVars, otherVars>>
Recheck ==
  /\ pc = "recheck"
  /\ IF Draining \/ emergency \/ (ex.kind = "open" /\ riskBlocked)
       THEN pc' = "saveDone" /\ checkpoint' = exit
       ELSE pc' = "submit" /\ UNCHANGED checkpoint
  /\ UNCHANGED <<venueVars, disk, procVars, boot, mode, led, exit, reconciled, legacy,
                 pending, ex, clock, due, rl, sharedVars, otherVars>>

\* ExecuteBounded sends both IOCs; either may be refused or never leave. The
\* opening budget may shrink the quantity.
ExecSubmit ==
  /\ pc = "submit"
  /\ \E sent \in SUBSET Legs, q \in 1..ex.qty :
       /\ CtxDone => sent = {}
       /\ ex.kind = "close" => q = ex.qty
       /\ orders' = [orders EXCEPT ![gen] = [leg \in Legs |->
            IF leg \in sent
              THEN [q |-> IF leg = "L" THEN ex.side * q ELSE -ex.side * q,
                    ro |-> ex.kind = "close"]
              ELSE NoOrder]]
  /\ pc' = "exec"
  /\ UNCHANGED <<pos, nExt, drift, disk, procVars, actorVars, sharedVars, otherVars>>

\* ErrNotionalBudget: nothing was sent.
ExecDecline ==
  /\ pc = "submit"
  /\ ex.kind = "open"
  /\ checkpoint' = exit
  /\ pc' = "saveDone"
  /\ UNCHANGED <<venueVars, disk, procVars, boot, mode, led, exit, reconciled, legacy,
                 pending, ex, clock, due, rl, sharedVars, otherVars>>

----------------------------------------------------------------------------
(* The executor's work between two returns to the actor                    *)

\* flatten: a reduce-only batch on the legs away from their targets, only when
\* every earlier order of this process has ended.
ExecRescue ==
  /\ pc = "exec"
  /\ ex.stage # "terminals"
  /\ ~CtxDone
  /\ Idle(gen)
  /\ \E sent \in (SUBSET {leg \in Legs : pos[leg] # Target[leg]}) \ {{}} :
       orders' = [orders EXCEPT ![gen] = [leg \in Legs |->
         IF leg \in sent THEN [q |-> Target[leg] - pos[leg], ro |-> TRUE] ELSE NoOrder]]
  /\ drift' = {}
  /\ UNCHANGED <<pos, nExt, disk, procVars, pc, actorVars, sharedVars, otherVars>>

\* accountExecution accepts positions p for this execution: an equal hedge on
\* the expected side of the ledger, closing no more than the chosen step.
Accountable(p) ==
  /\ p["R"] = -p["L"]
  /\ CASE Flattening -> p = Flatness
       [] ~Flattening /\ ex.kind = "open" -> ex.side * (p["L"] - led) >= 0
       [] ~Flattening /\ ex.kind = "close" ->
            /\ ex.side * (p["L"] - led) \in 0..ex.qty
            /\ ex.side * p["L"] <= 0
       [] OTHER -> FALSE

AtTarget ==
  /\ pc = "exec"
  /\ ex.stage # "terminals"
  /\ ~CtxDone
  /\ Idle(gen)
  /\ pos = Target

\* The ledger follows the confirmed positions, not the order sizes or the fills.
BookedAsRequested == IF ex.kind = "open" THEN led + ex.side * ex.qty ELSE pos["L"]
Booked == pos["L"]

\* Settled and accounted: apply, unwind, resolvePending or the intervention
\* go on to the completing save. Recovery re-enters warm-up by itself unless an
\* exit was asked for; a zeroed ledger stays paused.
ReturnSettled ==
  /\ AtTarget
  /\ Accountable(pos)
  /\ led' = Booked
  /\ flatPos' = (pos = Flatness)
  /\ drift' = {}
  /\ pending' = FALSE
  /\ checkpoint' = exit
  /\ mode' = IF pending /\ ex.stage = "settle" /\ ~Draining /\ ~emergency /\ ~legacy
               THEN "WARMUP"
               ELSE IF Flattening THEN "PAUSED" ELSE mode
  /\ pc' = "saveDone"
  /\ UNCHANGED <<pos, orders, nExt, disk, procVars, boot, exit, reconciled, legacy, ex, clock,
                 due, rl, settled, drain, drainConfirmed, wake, emergency, riskBlocked,
                 startupRecovered, cancelled, otherVars>>

\* failSettlement: the actor keeps the execution as pending.
FailUnmarked ==
  /\ pending' = TRUE
  /\ checkpoint' = exit
  /\ settled' = FALSE
  /\ mode' = "PAUSED"
  /\ pc' = "saveFail"
  /\ UNCHANGED <<ex, led, cancelled>>
FailSettlement ==
  /\ pending' = TRUE
  /\ checkpoint' = TRUE
  /\ settled' = FALSE
  /\ mode' = "PAUSED"
  /\ pc' = "saveFail"
  /\ UNCHANGED <<ex, led, cancelled>>

\* resolvePending returns to the loop, or, after too many stalls in a row, goes
\* straight on to recoverExternalIntervention, in a context of its own.
Stalled(n, m) ==
  /\ IF n >= StallLimit
       THEN /\ ex' = [ex EXCEPT !.stage = "terminals", !.stalls = n]
            /\ mode' = "PAUSED"
            /\ cancelled' = FALSE
            /\ pc' = "exec"
       ELSE /\ ex' = [ex EXCEPT !.stalls = n]
            /\ mode' = m
            /\ pc' = "loop"
            /\ UNCHANGED cancelled
  /\ UNCHANGED <<led, pending, checkpoint, settled>>

\* An intervention that is not finished is tried again from the loop.
Retried ==
  /\ pc' = "loop"
  /\ UNCHANGED <<ex, mode, led, pending, checkpoint, settled, cancelled>>

\* Settled, but accounting refuses: the positions do not add up to the ledger,
\* or a fill has no usable price.
ReturnMisaccounted ==
  /\ AtTarget
  /\ drift' = {}
  /\ IF pending /\ ex.stage = "settle"
       THEN Stalled(ex.stalls + 1, "PAUSED") /\ UNCHANGED flatPos
       ELSE /\ IF pending THEN Retried ELSE FailSettlement
            /\ flatPos' = (pos = Flatness)
  /\ UNCHANGED <<pos, orders, nExt, disk, procVars, boot, exit, reconciled, legacy, clock, due,
                 rl, drain, drainConfirmed, wake, emergency, riskBlocked, startupRecovered,
                 otherVars>>

\* Time-outs, failed reads, cancellation, positions that contradict the fills
\* (unexpected), or incomplete rescue. The two positions it may report were read
\* one after the other.
ReturnUnresolved ==
  /\ pc = "exec"
  /\ \/ UNCHANGED <<flatPos, drift>>
     \/ ex.stage # "terminals" /\ drift' = {} /\ flatPos' \in BOOLEAN
  /\ \/ ~pending /\ FailSettlement
     \/ pending /\ ex.stage # "settle" /\ Retried
     \/ pending /\ ex.stage = "settle" /\ \E n \in {0, ex.stalls + 1} : Stalled(n, mode)
  /\ UNCHANGED <<pos, orders, nExt, disk, procVars, boot, exit, reconciled, legacy, clock, due,
                 rl, drain, drainConfirmed, wake, emergency, riskBlocked, startupRecovered,
                 otherVars>>

\* ResolveTerminals: every retained order has a terminal report, so a fresh
\* flatten to zero may begin.
TerminalsConfirmed ==
  /\ pc = "exec"
  /\ ex.stage = "terminals"
  /\ Idle(gen)
  /\ ex' = [ex EXCEPT !.stage = "flatten"]
  /\ UNCHANGED <<venueVars, disk, procVars, pc, boot, mode, led, checkpoint, exit,
                 reconciled, legacy, pending, clock, due, rl, sharedVars, otherVars>>

SaveFail ==
  /\ SaveOK("saveFail", "loop")
  /\ UNCHANGED <<venueVars, procVars, actorVars, sharedVars, otherVars>>

\* The save after a completed or abandoned execution, and the flags that follow.
SaveDoneCertifies ==
  /\ SaveOK("saveDone", "loop")
  /\ settled' = TRUE
  /\ drainConfirmed' = (drainConfirmed \/ (Flattening /\ Draining))
  /\ emergency' = (emergency /\ ~Flattening)
  /\ ex' = NoEx
  /\ UNCHANGED <<venueVars, procVars, boot, mode, led, checkpoint, exit, reconciled,
                 legacy, pending, clock, due, rl, flatPos, drain, wake, riskBlocked,
                 startupRecovered, cancelled, otherVars>>
SaveDoneStillEmergency ==
  /\ SaveOK("saveDone", "loop")
  /\ settled' = ~checkpoint
  /\ drainConfirmed' = (drainConfirmed \/ (Flattening /\ Draining /\ ~checkpoint))
  /\ ex' = NoEx
  /\ UNCHANGED <<venueVars, procVars, boot, mode, led, checkpoint, exit, reconciled,
                 legacy, pending, clock, due, rl, flatPos, drain, wake, emergency, riskBlocked,
                 startupRecovered, cancelled, otherVars>>
SaveDone ==
  /\ SaveOK("saveDone", "loop")
  /\ settled' = ~checkpoint
  /\ drainConfirmed' = (drainConfirmed \/ (Flattening /\ Draining /\ ~checkpoint))
  /\ emergency' = (emergency /\ ~Flattening)
  /\ ex' = NoEx
  /\ UNCHANGED <<venueVars, procVars, boot, mode, led, checkpoint, exit, reconciled,
                 legacy, pending, clock, due, rl, flatPos, drain, wake, riskBlocked,
                 startupRecovered, cancelled, otherVars>>

----------------------------------------------------------------------------
(* The venues and the outside world *)

\* How far an order may fill: a reduce-only order never past zero.
Fillable(leg, o) ==
  IF ~o.ro THEN Abs(o.q)
  ELSE IF o.q * pos[leg] < 0 THEN Smaller(Abs(o.q), Abs(pos[leg])) ELSE 0

\* An IOC order of any process, dead or alive, ends: matched in part, in full
\* or not at all.
VenueTerminate ==
  \E g \in Gens, leg \in Legs :
    LET o == orders[g][leg] IN
    /\ o.q # 0
    /\ \E k \in 0..Fillable(leg, o) : pos' = [pos EXCEPT ![leg] = @ + Sgn(o.q) * k]
    /\ orders' = [orders EXCEPT ![g][leg] = NoOrder]
    /\ UNCHANGED <<nExt, drift, disk, procVars, pc, actorVars, sharedVars, otherVars>>

\* Somebody trades the account by hand.
External ==
  /\ nExt < MaxExternal
  /\ nExt' = nExt + 1
  /\ \E leg \in Legs, d \in {-1, 1} :
       /\ pos' = [pos EXCEPT ![leg] = @ + d]
       /\ drift' = drift \cup {leg}
  /\ UNCHANGED <<orders, disk, procVars, pc, actorVars, sharedVars, otherVars>>

\* The grace period is chosen longer than a signed order can stay executable:
\* when it is over, no order of an earlier process is live.
GraceElapses ==
  /\ clock = "running"
  /\ OldIdle
  /\ clock' = "elapsed"
  /\ UNCHANGED <<venueVars, disk, procVars, pc, boot, mode, led, checkpoint, exit,
                 reconciled, legacy, pending, ex, due, rl, sharedVars, otherVars>>

----------------------------------------------------------------------------
(* The picker: Drain(), Drained() read one atomic at a time, cancel *)

DrainSet ==
  /\ Up
  /\ drain = "no"
  /\ drain' = "set"
  /\ UNCHANGED <<venueVars, disk, procVars, pc, actorVars, settled, flatPos, drainConfirmed,
                 wake, emergency, riskBlocked, startupRecovered, cancelled, otherVars>>

DrainCancel ==
  /\ Up
  /\ drain = "set"
  /\ drain' = "done"
  /\ cancelled' = (cancelled \/ Registered)
  /\ wake' = TRUE
  /\ UNCHANGED <<venueVars, disk, procVars, pc, actorVars, settled, flatPos, drainConfirmed,
                 emergency, riskBlocked, startupRecovered, otherVars>>

\* What the evaluation of Drained() reads next.
DrainedRead ==
  <<Draining /\ drainConfirmed, ~Busy, settled, flatPos, led = 0>>

PickerPoll ==
  /\ Up
  /\ drain = "done"
  /\ ~retired
  /\ IF DrainedRead[rd + 1]
       THEN IF rd = 4 THEN retired' = TRUE /\ rd' = 0 ELSE rd' = rd + 1 /\ UNCHANGED retired
       ELSE rd' = 0 /\ UNCHANGED retired
  /\ UNCHANGED <<venueVars, disk, procVars, pc, actorVars, sharedVars, watch>>

\* ar.cancel() of a drained actor, or the shutdown of the whole program.
Stop ==
  /\ Up
  /\ ~stop
  /\ stop' = TRUE
  /\ UNCHANGED <<venueVars, disk, gen, pc, actorVars, sharedVars, otherVars>>

Exit ==
  /\ pc = "loop"
  /\ stop
  /\ pc' = "saveFinal"
  /\ UNCHANGED <<venueVars, disk, procVars, actorVars, sharedVars, otherVars>>

----------------------------------------------------------------------------
(* watchRisk *)

RiskAssess ==
  /\ Up /\ Watched
  /\ watch = "idle"
  /\ riskBlocked' \in BOOLEAN
  /\ UNCHANGED <<venueVars, disk, procVars, pc, actorVars, settled, flatPos, drain,
                 drainConfirmed, wake, emergency, startupRecovered, cancelled, otherVars>>

RiskTrigger ==
  /\ Up /\ Watched
  /\ watch = "idle"
  /\ ~emergency
  /\ riskBlocked' = TRUE
  /\ emergency' = TRUE
  /\ watch' = "set"
  /\ UNCHANGED <<venueVars, disk, procVars, pc, actorVars, settled, flatPos, drain,
                 drainConfirmed, wake, startupRecovered, cancelled, rd, retired>>

RiskCancel ==
  /\ Up
  /\ watch = "set"
  /\ watch' = "idle"
  /\ cancelled' = (cancelled \/ Registered)
  /\ UNCHANGED <<venueVars, disk, procVars, pc, actorVars, settled, flatPos, drain,
                 drainConfirmed, wake, emergency, riskBlocked, startupRecovered, rd, retired>>

----------------------------------------------------------------------------
(* The specification *)

Init ==
  /\ \E n \in {0, StepQty} :
       \E unpriced \in BOOLEAN :
         /\ n <= MaxUnits
         /\ unpriced => n # 0
         /\ pos = Hedge(n)
         /\ disk = [led |-> n, unresolved |-> FALSE, exit |-> FALSE, unpriced |-> unpriced]
         /\ led = n
         /\ legacy = unpriced
  /\ orders = [g \in Gens |-> [leg \in Legs |-> NoOrder]]
  /\ nExt = 0 /\ drift = {}
  /\ gen = 0 /\ stop = FALSE
  /\ pc = "recL" /\ boot = TRUE /\ mode = "PAUSED"
  /\ checkpoint = FALSE /\ exit = FALSE /\ clock = "off" /\ startupRecovered = TRUE
  /\ reconciled = FALSE /\ settled = FALSE /\ flatPos = FALSE /\ riskBlocked = Watched
  /\ pending = FALSE /\ ex = NoEx /\ due = FALSE /\ rl = 0
  /\ drain = "no" /\ drainConfirmed = FALSE /\ wake = FALSE
  /\ emergency = FALSE /\ cancelled = FALSE
  /\ watch = "idle" /\ rd = 0 /\ retired = FALSE

Actor ==
  \/ ReadLeft \/ ReadFailed \/ ReadMismatch \/ ReadMatch
  \/ Reconciled \/ ReconciledQuarantined
  \/ ResolvePending \/ RecoverCheckpoint \/ RecoverCheckpointExit
  \/ ExitReadLeft \/ ExitReadFailed \/ ExitReadRight
  \/ Emergency \/ DrainStep \/ DrainWake
  \/ DecideNone \/ DecideOpen \/ DecideClose
  \/ Register \/ Recheck
  \/ ExecSubmit \/ ExecDecline \/ ExecRescue
  \/ ReturnSettled \/ ReturnMisaccounted \/ ReturnUnresolved \/ TerminalsConfirmed
  \/ SaveSend \/ SaveDone \/ SaveFail \/ SaveClear \/ SaveMark \/ SaveRelease
  \/ SaveErr \/ SaveFinal \/ Exit

Environment ==
  \/ VenueTerminate \/ External \/ GraceElapses
  \/ DrainSet \/ DrainCancel \/ PickerPoll \/ Stop
  \/ RiskAssess \/ RiskTrigger \/ RiskCancel
  \/ Crash \/ Restart

Next == Actor \/ Environment

Spec == Init /\ [][Next]_vars

\* An order matched as far as it can be.
FillInFull ==
  \E g \in Gens, leg \in Legs :
    LET o == orders[g][leg] IN
    /\ VenueTerminate
    /\ o.q # 0
    /\ orders'[g][leg] = NoOrder
    /\ pos'[leg] = pos[leg] + Sgn(o.q) * Fillable(leg, o)

\* What the executor or the account reads retry until it succeeds.
Answered == ExecRescue \/ ReturnSettled \/ TerminalsConfirmed \/ ExitReadLeft

\* What the code and the venues keep doing. The actor's goroutine and the
\* picker's 2 s loop are scheduled, and the grace period passes. Of what is tried
\* for ever not every try fails: some order is matched in full, some rescue is
\* sent, some settlement or read comes back. Assuming it of the disjunction of
\* the retried steps is enough: each of them stops being enabled once done.
Fairness ==
  /\ WF_vars(Actor) /\ WF_vars(PickerPoll) /\ WF_vars(GraceElapses)
  /\ SF_vars(FillInFull) /\ SF_vars(Answered) /\ SF_vars(ExitReadRight)

FairSpec == Spec /\ Fairness

----------------------------------------------------------------------------
(* Properties *)

Orders == [q : Int, ro : BOOLEAN]
Executions == [kind : Kinds, side : {-1, 0, 1}, qty : Nat, stage : Stages, stalls : Nat]
Modes == {"WARMUP", "RUNNING", "REDUCE_ONLY", "PAUSED"}

VenueTypes ==
  /\ pos \in [Legs -> Int]
  /\ orders \in [Gens -> [Legs -> Orders]]
  /\ nExt \in 0..MaxExternal /\ drift \subseteq Legs
  /\ disk \in [led : Int, unresolved : BOOLEAN, exit : BOOLEAN, unpriced : BOOLEAN]
  /\ gen \in Gens

PointTypes ==
  /\ pc \in Points
  /\ mode \in Modes
  /\ led \in Int /\ rl \in Int
  /\ ex \in Executions
  /\ clock \in {"off", "running", "elapsed"}
  /\ drain \in {"no", "set", "done"}
  /\ watch \in {"idle", "set"}
  /\ rd \in 0..4

ActorFlags ==
  /\ stop \in BOOLEAN /\ boot \in BOOLEAN /\ checkpoint \in BOOLEAN /\ exit \in BOOLEAN
  /\ reconciled \in BOOLEAN /\ legacy \in BOOLEAN /\ pending \in BOOLEAN /\ due \in BOOLEAN

SharedFlags ==
  /\ settled \in BOOLEAN /\ flatPos \in BOOLEAN /\ drainConfirmed \in BOOLEAN
  /\ wake \in BOOLEAN /\ emergency \in BOOLEAN /\ riskBlocked \in BOOLEAN
  /\ startupRecovered \in BOOLEAN /\ cancelled \in BOOLEAN /\ retired \in BOOLEAN

\* Every variable keeps the type its declaration in the code gives it.
TypeOK == VenueTypes /\ PointTypes /\ ActorFlags /\ SharedFlags

\* As long as any order, of this process or of a dead one, can still change a
\* position, the state file says the execution is unresolved: whenever the
\* process dies, the next one starts in quarantine.
LiveOrderIsCheckpointed == ~NothingLive => disk.unresolved

\* A state file without the mark describes the account exactly: whenever the
\* process dies, either the next one finds the positions it recorded, or it knows
\* that it may not trust them.
FileMatchesAccount ==
  (~disk.unresolved /\ nExt = 0) => (NothingLive /\ pos = Hedge(disk.led))

\* The two flags the rest of the engine trusts: an idle, settled actor holds
\* exactly its ledger on the venues, hedged, with no order that could change it.
SettledMeansHedged ==
  (Up /\ settled /\ ~Busy /\ drift = {}) => (NothingLive /\ pos = Hedge(led))

\* An order that can increase exposure is sent only by a process whose start-up
\* recovery is over, into an account where no order of an earlier process lives.
OpeningNeedsCleanAccount ==
  \A leg \in Legs :
    (Up /\ orders[gen][leg].q # 0 /\ ~orders[gen][leg].ro) => (startupRecovered /\ OldIdle)

\* A slot given back to the picker is flat and free of orders: Drained() read
\* one atomic at a time never certifies an actor in the middle of something.
ReleasedIsFlat ==
  (retired /\ nExt = 0) => (pos = Flatness /\ NothingLive)

\* An exit that was asked for in quarantine, once it is on disk, is carried through
\* by whichever process finds it: it leaves the file only in a flat account with
\* nothing live, and until then no order is sent that could increase exposure.
ExitSurvives ==
  [][disk.exit =>
       /\ ~disk'.exit /\ nExt = 0 => pos = Flatness /\ NothingLive
       /\ \A g \in Gens, leg \in Legs :
            orders[g][leg].q = 0 /\ orders'[g][leg].q # 0 => orders'[g][leg].ro]_vars

\* Once Drain() has returned, or watchRisk has published an emergency and
\* cancelled, no decision made before it can still send its IOC pair.
StopRequestsBind ==
  [][(pc = "submit" /\ (drain = "done" \/ (emergency /\ watch = "idle")))
       => orders' = orders \/ pc' = "submit"]_vars

\* Drain() ends: an actor that has reconciled, or that quarantines a checkpoint,
\* becomes Drained() for the picker, unless it is stopped, dies or has an
\* emergency to attend to first.
DrainReleases ==
  (drain = "done" /\ (reconciled \/ checkpoint)) ~> (retired \/ emergency \/ stop \/ ~Up)

\* An emergency exit that can be attempted at all is completed.
EmergencyEnds == (emergency /\ reconciled) ~> (~emergency \/ stop \/ ~Up)

\* An execution left unresolved is settled in the end, if need be by flattening
\* the account, as long as nobody else trades it.
PendingSettles == pending ~> (~pending \/ stop)

----------------------------------------------------------------------------
(* The inductive invariant behind LiveOrderIsCheckpointed: every place the *)
(* mark may be missing from is a place where no order can be live.         *)

\* In memory the mark is down only when nothing is live.
MemoryMarked == (Up /\ ~checkpoint) => NothingLive

\* Both copies of the mark are up wherever an order may be sent, and the one in
\* memory wherever a save is about to raise the other.
SendMarked ==
  /\ pc \in {"register", "recheck", "submit", "exec"} => checkpoint /\ disk.unresolved
  /\ pc \in {"saveSend", "saveFail"} => checkpoint

\* An execution left unresolved is found again from the loop only.
PendingMarked ==
  pending => /\ pc \in {"loop", "exec", "saveFail", "saveFinal"}
             /\ checkpoint
             /\ pc = "loop" => disk.unresolved

\* An order of this process is live only while its execution is in hand.
OwnOrders == (Up /\ ~Idle(gen)) => (pending \/ pc \in {"exec", "saveFinal"})

\* With an order of an earlier process live this one observes, unless an exit was
\* asked for: it has not begun any execution.
OldOrders ==
  (Up /\ ~OldIdle) => (exit \/ (pc \in {"recL", "recR", "recS", "loop", "saveFinal"} /\ ~pending))

\* The end of the grace period is a fact about the venues, and stays one.
ClockSound == (due \/ clock = "elapsed") => OldIdle

\* A process that has not started has sent nothing.
FutureIdle == \A g \in Gens : g > gen => Idle(g)

CheckpointInv ==
  /\ LiveOrderIsCheckpointed
  /\ MemoryMarked /\ SendMarked /\ PendingMarked
  /\ OwnOrders /\ OldOrders /\ ClockSound /\ FutureIdle

----------------------------------------------------------------------------
(* The inductive invariant behind the other safety properties: what the    *)
(* actor's memory, its file and the account have to do with each other.    *)

\* An order without quantity is no order, and no account is read as changed that nobody changed.
OrdersProper == \A g \in Gens, leg \in Legs : orders[g][leg].q = 0 => orders[g][leg] = NoOrder
Undisturbed == nExt = 0 => drift = {}

\* Before the first match an actor has nothing in hand and certifies nothing.
Unread ==
  (Up /\ ~reconciled) =>
    /\ pc \in {"recL", "recR", "exL", "exR", "loop", "saveMark", "saveFinal"}
    /\ ~pending /\ mode = "PAUSED"

\* Settled goes with a ledger that was matched and no mark, but for a moment in reconcile.
SettledUnmarked == settled => Up /\ reconciled /\ (~checkpoint \/ pc = "recS")

\* Positions are read under the mark, or by a start that certifies nothing.
ReadsMarked ==
  /\ pc \in {"recL", "recR"} => checkpoint \/ ~reconciled
  /\ pc \in {"exL", "exR", "saveMark"} => checkpoint /\ exit

\* A reading on which a decision may rest, with nothing live, is still so unless somebody else traded.
ReadsSound ==
  /\ pc = "recR" /\ (due \/ ~checkpoint) /\ "L" \notin drift => pos["L"] = rl
  /\ pc = "exR" /\ due /\ "L" \notin drift => pos["L"] = rl
  /\ pc = "recS" /\ (due \/ ~checkpoint) /\ drift = {} => pos = Hedge(led)

\* A decision that was taken and not yet sent is a fresh execution ...
Chosen ==
  /\ pc \in {"saveSend", "register", "recheck", "submit"} =>
       /\ ex.kind # "none" /\ ex.stage = "settle"
       /\ ex.kind # "unwind" => ex.side # 0
  /\ pc \in {"recheck", "submit"} => ex.kind # "unwind"

\* ... and one to open or close finds the account as it was when it was taken.
Untouched ==
  pc \in {"saveSend", "register", "recheck", "submit"} /\ ex.kind # "unwind" =>
    NothingLive /\ (drift = {} => pos = Hedge(led))

\* Without the mark the ledger is what the account holds: after a match unless it was traded since, and
\* from the start where nobody else trades it.
LedgerHeld ==
  /\ Up /\ ~checkpoint /\ reconciled /\ drift = {} => pos = Hedge(led)
  /\ Up /\ ~checkpoint /\ nExt = 0 => pos = Hedge(led)

\* The saves that end an execution, a quarantine or an exit.
SavesSound ==
  /\ pc \in {"saveClear", "saveRelease"} => ~checkpoint
  /\ pc = "saveRelease" => led = 0
  /\ pc = "saveDone" /\ Flattening => led = 0

\* A confirmed drain stays confirmed, sends nothing and leaves the account flat.
DrainSound ==
  /\ Up /\ drainConfirmed =>
       /\ Draining /\ pc # "submit"
       /\ nExt = 0 => pos = Flatness /\ NothingLive
  /\ rd > 0 => drainConfirmed
  /\ Up /\ retired => drainConfirmed

\* Until its start-up recovery is over, an actor keeps the mark and decides nothing but an exit.
RecoveredFirst ==
  /\ (Up /\ ~startupRecovered) =>
       /\ checkpoint \/ pc \in {"saveClear", "saveRelease", "saveFinal"}
       /\ \/ exit
          \/ ~pending /\ pc \in {"recL", "recR", "recS", "loop", "saveClear", "saveRelease", "saveFinal"}
  /\ pc \in {"saveSend", "register", "recheck", "submit"} /\ ex.kind = "open" => startupRecovered

\* A request that was made after the last look at it has cancelled the execution.
StopSeen ==
  pc = "submit" => (drain = "done" \/ (emergency /\ watch = "idle") => cancelled)

AccountInv ==
  /\ OrdersProper /\ Undisturbed
  /\ Unread /\ SettledUnmarked /\ ReadsMarked /\ ReadsSound /\ Chosen /\ Untouched
  /\ LedgerHeld /\ SavesSound /\ FileMatchesAccount
  /\ DrainSound /\ ReleasedIsFlat
  /\ RecoveredFirst /\ OpeningNeedsCleanAccount
  /\ StopSeen

----------------------------------------------------------------------------
(* What ExitSurvives rests on besides: where the exit is in the file but   *)
(* not in memory, it is being released.                                    *)

ExitInv ==
  /\ disk.exit => disk.unresolved
  /\ Up /\ exit => checkpoint
  /\ Up /\ disk.exit /\ ~exit => pc \in {"saveRelease", "saveFinal"} /\ ~checkpoint /\ led = 0
  /\ pc \in {"recL", "recR", "recS"} /\ exit => boot
  /\ pc \in {"saveSend", "register", "recheck", "submit"} /\ ex.kind # "unwind" => ~exit

=============================================================================

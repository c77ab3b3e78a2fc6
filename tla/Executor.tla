------------------------------ MODULE Executor ------------------------------
(***************************************************************************)
(* One two-leg execution (internal/execution/executor.go) from its first   *)
(* call to its settlement: ExecuteBounded or EmergencyFlatten, and the     *)
(* calls that resume its retained Result, ResolveOutstanding and, when the *)
(* account was changed by somebody else, ResolveTerminals followed by      *)
(* FlattenToZero. Batch 0 is the IOC pair, batches 1, 2, ... are the       *)
(* reduce-only rescue batches of flatten.                                  *)
(*                                                                         *)
(* Orders end at the venue at their own pace; the executor learns it from  *)
(* a report or a query, or never, and infers a full fill from positions.   *)
(* A position read may lag behind the matching engine by SettleDelay.      *)
(* Quantities are integers in the common lot of both markets.              *)
(***************************************************************************)
EXTENDS FiniteSets, Sums

CONSTANTS
  MaxQty,      \* largest quantity of one leg of an IOC pair
  Hedges,      \* left positions an execution may start from
  Lagging,     \* position reads may lag behind the matching engine
  MaxBatches,  \* bound: rescue batches of one execution
  MaxExternal  \* bound: position changes made outside this program

ASSUME ExecutorAssumption ==
  /\ MaxQty \in Nat \ {0}
  /\ Hedges \subseteq Int
  /\ Lagging \in BOOLEAN
  /\ MaxBatches \in Nat
  /\ MaxExternal \in Nat

Legs == {"L", "R"}
Batches == 0..MaxBatches

VARIABLES
  \* the venues
  pos,       \* position of each leg's market
  shown,     \* what a position read returns
  ord,       \* ord[leg][b]: the order of batch b on a leg
  ext,       \* external changes of each leg so far
  \* the call in progress
  pc, cancelled,
  todo,      \* legs whose order of the current batch is not handed over yet
  got,       \* legs whose position this attempt has read
  reads,     \* what it read
  verdict,   \* the outcome of the last comparison of fills and positions
  \* the retained Result
  stage,     \* what is unconfirmed: the first pair, a rescue batch of this call, one
             \* of an earlier call (retried), or nothing
  zero,      \* res.emergency: only a flat account is left as target
  urgent,    \* res.rescue.Immediate
  n,         \* the current batch
  rep,       \* rep[leg][b]: what is known of an order
  at,        \* res.PosL, res.PosR
  before,    \* positions before the current batch
  target,    \* res.targetL, res.targetR
  counted,   \* accountedQty per rescue order
  rescued,   \* RescueFilled per leg
  intervention \* no, asked, begun

venueVars  == <<pos, shown, ord, ext>>
callVars   == <<cancelled, todo, got, reads, verdict>>
resultVars == <<stage, zero, urgent, n, rep, at, before, target, counted, rescued, intervention>>
vars == <<venueVars, pc, callVars, resultVars>>

----------------------------------------------------------------------------
(* Values *)

Abs(m) == IF m < 0 THEN -m ELSE m
Sgn(m) == IF m > 0 THEN 1 ELSE IF m < 0 THEN -1 ELSE 0
Smaller(a, b) == IF a < b THEN a ELSE b
Hedge(m) == [leg \in Legs |-> IF leg = "L" THEN m ELSE -m]
Flatness == Hedge(0)

hedgeTargetsLeft(p) == IF p["L"] * p["R"] >= 0 THEN Flatness ELSE Hedge(p["L"])
hedgeTargets(p) ==
  IF p["L"] * p["R"] >= 0 THEN Flatness
  ELSE Hedge(Sgn(p["L"]) * Smaller(Abs(p["L"]), Abs(p["R"])))

\* An order is ready once its client id is drawn, live from the hand-over to its
\* end at the venue, and lost when the transaction never reached the venue.
OrderStates == {"none", "ready", "live", "lost", "ended"}
NoOrder  == [q |-> 0, ro |-> FALSE, filled |-> 0, st |-> "none"]
NoReport == [filled |-> 0, resolved |-> TRUE]
Ready(q, ro) == [q |-> q, ro |-> ro, filled |-> 0, st |-> "ready"]
Credited(k) == [filled |-> k, resolved |-> FALSE]
Unknown == Credited(0)
Advanced(o, st, k) == [q |-> o.q, ro |-> o.ro, filled |-> k, st |-> st]

Outcomes == {"fresh", "returned", "settled", "declined"}
Calling == {"send", "collect", "confirm", "flatten", "checked", "terminals", "reread"}

\* Every retained order has an explicit terminal report.
OrdersTerminal(r) == \A leg \in Legs, b \in 0..n : r[leg][b].resolved

----------------------------------------------------------------------------
(* The calls *)

\* A pair on an existing hedge: an opening adds to it, a close is reduce-only.
Execute ==
  /\ pc = "fresh" /\ ~zero
  /\ ~cancelled
  /\ \E q \in 1..MaxQty, side \in {-1, 1} :
       LET close == side * at["L"] < 0 IN
       /\ close => q <= Abs(at["L"])
       /\ ord' = [leg \in Legs |->
            [ord[leg] EXCEPT ![0] = Ready(Hedge(side * q)[leg], close)]]
  /\ rep' = [leg \in Legs |-> [rep[leg] EXCEPT ![0] = Unknown]]
  /\ todo' = Legs
  /\ pc' = "send"
  /\ UNCHANGED <<pos, shown, ext, cancelled, got, reads, verdict, stage, zero, urgent,
                 n, at, before, target, counted, rescued, intervention>>

\* ErrNotionalBudget: nothing is sent.
Decline ==
  /\ pc = "fresh" /\ ~zero
  /\ pc' = "declined"
  /\ UNCHANGED <<venueVars, callVars, resultVars>>

EmergencyFlatten ==
  /\ pc = "fresh" /\ zero
  /\ pc' = "reread"
  /\ UNCHANGED <<venueVars, callVars, resultVars>>

\* Back to the caller, which keeps the Result and pauses its actor.
Return ==
  /\ pc' = "returned"
  /\ got' = {} /\ reads' = Flatness
  /\ UNCHANGED <<cancelled, todo>>

\* resolvePending calls again with a live context. What was sent stays sent: the
\* known orders are queried, never submitted again.
ResumeFlatten == zero \/ intervention = "asked"
Resume ==
  /\ pc = "returned"
  /\ cancelled' = FALSE
  /\ urgent' \in {urgent, TRUE}
  /\ verdict' = "none"
  /\ pc' = IF ResumeFlatten THEN "terminals"
           ELSE IF stage = "reduce" THEN "flatten" ELSE "collect"
  /\ stage' = IF stage = "batch" THEN "retried" ELSE stage
  /\ UNCHANGED <<venueVars, todo, got, reads, zero, n, rep, at, before, target,
                 counted, rescued, intervention>>

\* The positions contradicted the fills, three resolutions in a row, each after its
\* own SettleDelay.
Intervene ==
  /\ pc = "returned"
  /\ verdict = "unexpected"
  /\ intervention = "no"
  /\ intervention' = "asked"
  /\ cancelled' = FALSE
  /\ shown' = pos
  /\ pc' = "terminals"
  /\ UNCHANGED <<pos, ord, ext, todo, got, reads, verdict, stage, zero, urgent, n, rep, at,
                 before, target, counted, rescued>>

----------------------------------------------------------------------------
(* Sending and waiting: one goroutine per leg *)

SubmitLeg(leg) ==
  /\ pc = "send"
  /\ leg \in todo
  /\ \/ ~cancelled
        /\ \E st \in {"live", "lost"} : ord' = [ord EXCEPT ![leg][n] = Advanced(@, st, 0)]
        /\ UNCHANGED rep
     \/ \* refused, or cancelled before the submission: definitely not sent
        /\ ord' = [ord EXCEPT ![leg][n] = Advanced(@, "ended", 0)]
        /\ rep' = [rep EXCEPT ![leg][n] = NoReport]
  /\ todo' = todo \ {leg}
  /\ pc' = IF todo' = {} THEN "collect" ELSE "send"
  /\ UNCHANGED <<pos, shown, ext, cancelled, got, reads, verdict, stage, zero,
                 urgent, n, at, before, target, counted, rescued, intervention>>

Learnt(leg, b) == [filled |-> ord[leg][b].filled, resolved |-> TRUE]
Ended(leg, b)  == ord[leg][b].st = "ended" /\ ~rep[leg][b].resolved

CollectAtOnce ==
  /\ pc = "collect"
  /\ \E told \in SUBSET {leg \in Legs : Ended(leg, n)} :
       rep' = [leg \in Legs |->
                IF leg \in told THEN [rep[leg] EXCEPT ![n] = Learnt(leg, n)] ELSE rep[leg]]
  /\ pc' = "confirm"
  /\ UNCHANGED <<venueVars, callVars, stage, zero, urgent, n, at, before, target,
                 counted, rescued, intervention>>

\* awaitOrder, queryExisting: a terminal report arrived for some of the legs.
\* SettleDelay passes before the positions are read: they are current by then.
Collect ==
  /\ pc = "collect"
  /\ \E told \in SUBSET {leg \in Legs : Ended(leg, n)} :
       rep' = [leg \in Legs |->
                IF leg \in told THEN [rep[leg] EXCEPT ![n] = Learnt(leg, n)] ELSE rep[leg]]
  /\ shown' = pos
  /\ pc' = "confirm"
  /\ UNCHANGED <<pos, ord, ext, callVars, stage, zero, urgent, n, at, before, target,
                 counted, rescued, intervention>>

----------------------------------------------------------------------------
(* confirmPositions *)

\* The two markets are read by two goroutines.
ReadPosition(leg) ==
  /\ pc \in {"confirm", "reread"}
  /\ leg \notin got
  /\ ~cancelled
  /\ got' = got \cup {leg}
  /\ reads' = [reads EXCEPT ![leg] = shown[leg]]
  /\ UNCHANGED <<pos, shown, ord, ext, pc, cancelled, todo, verdict, resultVars>>

\* How far a leg moved in the direction of its order.
Delta(leg) ==
  IF ord[leg][n].q < 0 THEN before[leg] - reads[leg] ELSE reads[leg] - before[leg]

\* verifyDelta
Unexpected(leg) ==
  \/ Delta(leg) \notin rep[leg][n].filled .. Abs(ord[leg][n].q)
  \/ rep[leg][n].resolved /\ Delta(leg) # rep[leg][n].filled
UnresolvedPartial(leg) == ~rep[leg][n].resolved /\ Delta(leg) \notin {0, Abs(ord[leg][n].q)}
Unresolved(leg) == ~rep[leg][n].resolved /\ Delta(leg) # Abs(ord[leg][n].q)

\* inferLeg: an unknown order is credited with what the position shows.
InferredBlind == [leg \in Legs |->
  IF rep[leg][n].resolved THEN rep[leg]
  ELSE [rep[leg] EXCEPT ![n] = Credited(Delta(leg))]]
Inferred == [leg \in Legs |->
  IF rep[leg][n].resolved \/ Unexpected(leg) THEN rep[leg]
  ELSE [rep[leg] EXCEPT ![n] = Credited(Delta(leg))]]

\* accountRescue: a batch's earlier contribution is replaced, not added to.
Contribution(r) ==
  [leg \in Legs |-> [b \in Batches |-> IF b \in 1..n THEN r[leg][b].filled ELSE 0]]
AccountRescueAgain(r) ==
  /\ rescued' = [leg \in Legs |->
       rescued[leg] + SumOf(Contribution(r)[leg], Batches)]
  /\ counted' = Contribution(r)
AccountRescue(r) ==
  /\ rescued' = [leg \in Legs |-> rescued[leg] +
       SumOf([b \in Batches |-> Contribution(r)[leg][b] - counted[leg][b]], Batches)]
  /\ counted' = Contribution(r)

\* Fills and positions agree: what was unconfirmed is settled.
Confirmed ==
  /\ pc = "confirm"
  /\ got = Legs
  /\ \A leg \in Legs : ~Unexpected(leg) /\ ~Unresolved(leg)
  /\ rep' = Inferred
  /\ AccountRescue(Inferred)
  /\ at' = reads
  /\ target' = IF stage = "first" THEN hedgeTargets(reads) ELSE target
  /\ pc' = IF stage = "batch" /\ urgent THEN "checked" ELSE "flatten"
  /\ stage' = "reduce"
  /\ got' = {} /\ reads' = Flatness /\ verdict' = "none"
  /\ UNCHANGED <<venueVars, cancelled, todo, zero, urgent, n, before, intervention>>

\* They do not: read again, after QueryInterval.
Disagree ==
  /\ pc = "confirm"
  /\ got = Legs
  /\ \E leg \in Legs : Unexpected(leg) \/ Unresolved(leg)
  /\ rep' = Inferred
  /\ at' = reads
  /\ verdict' = IF \E leg \in Legs : Unexpected(leg) THEN "unexpected" ELSE "unresolved"
  /\ got' = {} /\ reads' = Flatness
  /\ UNCHANGED <<venueVars, pc, cancelled, todo, stage, zero, urgent, n, before, target,
                 counted, rescued, intervention>>

\* The context ended, or the retries did; a failed read hides the last verdict.
GiveUp ==
  /\ pc \in {"confirm", "reread"}
  /\ got # Legs
  /\ Return
  /\ verdict' \in {verdict, "none"}
  /\ AccountRescue(rep)
  /\ UNCHANGED <<venueVars, stage, zero, urgent, n, rep, at, before, target, intervention>>

----------------------------------------------------------------------------
(* flatten *)

Away == {leg \in Legs : at[leg] # target[leg]}
ReachedLeft == "L" \notin Away
Reached == Away = {}

\* requireTerminalFlatten: a settlement at a flat account needs the terminal report
\* of every order.
ReportedAny == TRUE
Reported == ~zero \/ OrdersTerminal(rep)

FlattenDone ==
  /\ pc \in {"flatten", "checked"}
  /\ pc = "flatten" => ~cancelled
  /\ Reached
  /\ pc' = IF Reported THEN "settled" ELSE "returned"
  /\ UNCHANGED <<venueVars, callVars, resultVars>>

\* An urgent call returns after the batch it sent; any call stops at its context's end or when
\* there is no price to send at.
FlattenStops ==
  /\ \/ pc = "checked" /\ ~Reached
     \/ pc = "flatten" /\ (cancelled \/ ~Reached)
  /\ Return
  /\ UNCHANGED <<venueVars, verdict, resultVars>>

\* Urgent orders reduce whichever leg has a price; otherwise all legs wait for
\* the books of all.
SendBatch ==
  /\ pc = "flatten"
  /\ ~cancelled
  /\ n < MaxBatches
  /\ \A leg \in Away : (at[leg] - target[leg]) * at[leg] > 0
  /\ \E sent \in (SUBSET Away) \ {{}} :
       /\ sent # Away => urgent
       /\ ord' = [leg \in Legs |-> [ord[leg] EXCEPT ![n + 1] =
            IF leg \in sent THEN Ready(target[leg] - at[leg], TRUE) ELSE NoOrder]]
       /\ rep' = [leg \in Legs |-> [rep[leg] EXCEPT ![n + 1] =
            IF leg \in sent THEN Unknown ELSE NoReport]]
       /\ todo' = sent
  /\ n' = n + 1
  /\ before' = at
  /\ stage' = "batch"
  /\ pc' = "send"
  /\ UNCHANGED <<pos, shown, ext, cancelled, got, reads, verdict, zero, urgent, at,
                 target, counted, rescued, intervention>>

----------------------------------------------------------------------------
(* ResolveTerminals, and the flatten to zero that follows it *)

QueryTerminals ==
  /\ pc = "terminals"
  /\ \E told \in SUBSET {o \in Legs \X (0..n) : Ended(o[1], o[2])} :
       /\ rep' = [leg \in Legs |-> [b \in Batches |->
                    IF <<leg, b>> \in told THEN Learnt(leg, b) ELSE rep[leg][b]]]
       /\ AccountRescue(rep')
  /\ pc' = "reread"
  /\ UNCHANGED <<venueVars, callVars, stage, zero, urgent, n, at, before, target, intervention>>

\* Every order ended: whatever the positions are now is reduced to zero, in an
\* intervention by a fresh Result with a price ladder of its own.
Reread ==
  /\ pc = "reread"
  /\ got = Legs
  /\ OrdersTerminal(rep)
  /\ at' = reads
  /\ zero' = TRUE
  /\ target' = Flatness
  /\ stage' = "reduce"
  /\ urgent' \in IF intervention = "asked" THEN BOOLEAN ELSE {urgent}
  /\ intervention' = IF intervention = "asked" THEN "begun" ELSE intervention
  /\ got' = {} /\ reads' = Flatness
  /\ pc' = "flatten"
  /\ UNCHANGED <<venueVars, cancelled, todo, verdict, n, rep, before, counted, rescued>>

\* Positions are kept, but the call ends unresolved.
RereadUnresolved ==
  /\ pc = "reread"
  /\ got = Legs
  /\ ~OrdersTerminal(rep)
  /\ at' = reads
  /\ Return
  /\ UNCHANGED <<venueVars, verdict, stage, zero, urgent, n, rep, before, target, counted,
                 rescued, intervention>>

----------------------------------------------------------------------------
(* The venues and the outside world *)

Publish(p, leg) == IF Lagging THEN shown ELSE [shown EXCEPT ![leg] = p[leg]]

Fillable(leg, o) ==
  IF ~o.ro THEN Abs(o.q)
  ELSE IF o.q * pos[leg] < 0 THEN Smaller(Abs(o.q), Abs(pos[leg])) ELSE 0

VenueTerminate ==
  \E leg \in Legs, b \in Batches :
    /\ ord[leg][b].st = "live"
    /\ \E k \in 0..Fillable(leg, ord[leg][b]) :
         /\ pos' = [pos EXCEPT ![leg] = @ + Sgn(ord[leg][b].q) * k]
         /\ ord' = [ord EXCEPT ![leg][b] = Advanced(@, "ended", k)]
         /\ shown' = Publish(pos', leg)
    /\ UNCHANGED <<ext, pc, callVars, resultVars>>

VenueShows ==
  /\ \E leg \in Legs :
       /\ shown[leg] # pos[leg]
       /\ shown' = [shown EXCEPT ![leg] = pos[leg]]
  /\ UNCHANGED <<pos, ord, ext, pc, callVars, resultVars>>

External ==
  /\ ext["L"] + ext["R"] < MaxExternal
  /\ \E leg \in Legs, d \in {-1, 1} :
       /\ pos' = [pos EXCEPT ![leg] = @ + d]
       /\ shown' = Publish(pos', leg)
       /\ ext' = [ext EXCEPT ![leg] = @ + 1]
  /\ UNCHANGED <<ord, pc, callVars, resultVars>>

\* Drain, an emergency or the program's shutdown cancels the call's context.
Cancel ==
  /\ pc \in Calling
  /\ ~cancelled
  /\ cancelled' = TRUE
  /\ UNCHANGED <<venueVars, pc, todo, got, reads, verdict, resultVars>>

----------------------------------------------------------------------------
(* The specification *)

Init ==
  /\ \E m \in Hedges : pos = Hedge(m)
  /\ shown = pos /\ at = pos /\ before = pos
  /\ ord = [leg \in Legs |-> [b \in Batches |-> NoOrder]]
  /\ ext = Flatness
  /\ pc = "fresh" /\ cancelled = FALSE
  /\ todo = {} /\ got = {} /\ reads = Flatness /\ verdict = "none"
  /\ zero \in BOOLEAN
  /\ urgent = zero
  /\ stage = IF zero THEN "reduce" ELSE "first"
  /\ n = 0
  /\ rep = [leg \in Legs |-> [b \in Batches |-> NoReport]]
  /\ target = Flatness
  /\ counted = [leg \in Legs |-> [b \in Batches |-> 0]]
  /\ rescued = [leg \in Legs |-> 0]
  /\ intervention = "no"

Next ==
  \/ Execute \/ Decline \/ EmergencyFlatten \/ Resume \/ Intervene
  \/ \E leg \in Legs : SubmitLeg(leg) \/ ReadPosition(leg)
  \/ Collect \/ Confirmed \/ Disagree \/ GiveUp
  \/ FlattenDone \/ FlattenStops \/ SendBatch
  \/ QueryTerminals \/ Reread \/ RereadUnresolved
  \/ VenueTerminate \/ VenueShows \/ External \/ Cancel

Spec == Init /\ [][Next]_vars

----------------------------------------------------------------------------
(* Properties *)

ReportTypes == [filled : Nat, resolved : BOOLEAN]
OrderTypes == [q : Int, ro : BOOLEAN, filled : Nat, st : OrderStates]

\* Every variable keeps the type its declaration in the code gives it.
TypeOK ==
  /\ pos \in [Legs -> Int] /\ shown \in [Legs -> Int] /\ reads \in [Legs -> Int]
  /\ at \in [Legs -> Int] /\ before \in [Legs -> Int] /\ target \in [Legs -> Int]
  /\ ord \in [Legs -> [Batches -> OrderTypes]]
  /\ rep \in [Legs -> [Batches -> ReportTypes]]
  /\ counted \in [Legs -> [Batches -> Nat]] /\ rescued \in [Legs -> Int]
  /\ ext \in [Legs -> Nat]
  /\ todo \subseteq Legs /\ got \subseteq Legs
  /\ pc \in Outcomes \cup Calling
  /\ cancelled \in BOOLEAN /\ zero \in BOOLEAN /\ urgent \in BOOLEAN
  /\ stage \in {"first", "batch", "retried", "reduce"}
  /\ n \in Batches
  /\ verdict \in {"none", "unresolved", "unexpected"}
  /\ intervention \in {"no", "asked", "begun"}

Undisturbed == ext = Flatness
Over(leg, b) == ord[leg][b].st \in {"none", "lost", "ended"}
AllOver == \A leg \in Legs, b \in Batches : Over(leg, b)

\* A batch is sent only when no order of an earlier batch can execute any more,
\* although most of what the executor knows of them it knows late or by inference:
\* each has ended, or is reduce-only on a position that is gone.
OneBatchAtATime ==
  Undisturbed => \A leg \in Legs, b \in Batches :
    b < n => Over(leg, b) \/ Fillable(leg, ord[leg][b]) = 0

\* A settlement is true: every order has ended and both positions are at their
\* targets.
SettledAtTarget == (pc = "settled" /\ Undisturbed) => (AllOver /\ pos = target)

\* An exit is settled only when every order it ever sent has ended, also when
\* somebody else's trades brought the positions to zero before the orders did.
ExitWaitsForReports == (pc = "settled" /\ zero) => AllOver

\* An exit that settles leaves a flat position on every market that nobody else
\* traded.
ExitIsFlat ==
  (pc = "settled" /\ zero) => \A leg \in Legs : ext[leg] = 0 => pos[leg] = 0

Fills(leg) == SumOf([b \in Batches |-> ord[leg][b].filled], Batches)

\* The quantities handed to the ledger are the quantities traded: no fill is
\* missed, counted again by a recovery, or credited to an order that never had it.
FillsCountedOnce ==
  (pc = "settled" /\ (zero \/ Undisturbed)) =>
    \A leg \in Legs : rep[leg][0].filled + rescued[leg] = Fills(leg)

\* Whatever the fills, the target can be reached from the positions by reduce-only
\* orders: a rescue never ends in the error that it cannot.
RescueReducible ==
  pc = "flatten" => \A leg \in Away : (at[leg] - target[leg]) * at[leg] > 0

\* Late reports and lagging reads of an undisturbed account are never taken for
\* somebody else's trade, so they never cost the hedge.
NoFalseAlarm == (Undisturbed /\ ~zero) => verdict # "unexpected"

----------------------------------------------------------------------------
(* The inductive invariant behind the safety properties and the contract *)

Between(t, m) == (0 <= t /\ t <= m) \/ (m <= t /\ t <= 0)

\* What is known of an order for certain is so, and no order runs ahead of its batch.
OrderSound(leg, b) ==
  LET o == ord[leg][b]
      r == rep[leg][b]
  IN
  /\ r.resolved => o.st \in {"none", "ended"} /\ r.filled = o.filled
  /\ o.st # "ended" => o.filled = 0
  /\ o.st = "none" <=> o.q = 0
  /\ o.st = "none" => r.resolved
  /\ o.st = "ready" <=> (leg \in todo /\ b = n)
  /\ o.st = "ready" => r = Unknown
  /\ b > n => o.st = "none"
  /\ o.filled <= Abs(o.q)
OrdersSound == \A leg \in Legs, b \in Batches : OrderSound(leg, b)

\* The point a call has reached and what its Result holds go together.
CallSound ==
  /\ pc = "send" <=> todo # {}
  /\ got # {} => pc \in {"confirm", "reread"}
  /\ pc \in {"send", "collect", "confirm"} => stage # "reduce" /\ intervention # "asked"
  /\ pc \in {"flatten", "checked", "settled"} => stage = "reduce" /\ intervention # "asked"
  /\ pc \in {"terminals", "reread"} => zero \/ intervention = "asked"
  /\ pc \in {"fresh", "declined"} =>
       /\ n = 0 /\ intervention = "no" /\ (zero <=> stage = "reduce")
       /\ \A leg \in Legs, b \in Batches : ord[leg][b].st = "none"
  /\ stage = "first" => n = 0 /\ ~zero
  /\ stage \in {"batch", "retried"} => n > 0
  /\ pc = "settled" => at = target /\ (zero => OrdersTerminal(rep))

\* Rescue orders reduce, and reduce to the target.
TargetsSound ==
  /\ zero => target = Flatness
  /\ stage \in {"batch", "retried"} => \A leg \in Legs :
       /\ Between(target[leg], before[leg])
       /\ ord[leg][n].q \in {0, target[leg] - before[leg]}
  /\ stage = "reduce" /\ intervention # "asked" =>
       \A leg \in Legs : Between(target[leg], at[leg])

\* The last batch is unconfirmed: a read shows a leg before or after its order.
InFlight(leg) ==
  /\ pos[leg] = before[leg] + Sgn(ord[leg][n].q) * ord[leg][n].filled
  /\ shown[leg] \in {before[leg], pos[leg]}
  /\ leg \in got => reads[leg] \in {before[leg], shown[leg]}
  /\ rep[leg][n].filled \in {0, ord[leg][n].filled}
  /\ rep[leg][n].resolved \/ rep[leg][n].filled # 0 =>
       shown[leg] = pos[leg] /\ (leg \in got => reads[leg] = pos[leg])

\* Everything sent is confirmed.
Confident(leg) ==
  /\ at[leg] = pos[leg] /\ shown[leg] = pos[leg]
  /\ leg \in got => reads[leg] = pos[leg]

Accounted(leg, b) == Over(leg, b) /\ rep[leg][b].filled = ord[leg][b].filled

Current == ~Lagging => shown = pos

\* The executor's picture of an account nobody else trades, unless it may read a
\* lagging position right after a terminal report: then Fading is all it has.
Tracked ==
  Undisturbed /\ (Lagging => ~zero) =>
    /\ \A leg \in Legs : IF stage = "reduce" THEN Confident(leg) ELSE InFlight(leg)
    /\ \A leg \in Legs, b \in 0..n : b < n \/ stage = "reduce" => Accounted(leg, b)
    /\ ~zero => verdict # "unexpected" /\ intervention = "no"
    /\ ~zero /\ stage # "first" => target = hedgeTargets(pos)

\* An exit only ever reduces: what it sees, however old, is no less than what there
\* is, and an order it believes full has nothing left to reduce.
Fading ==
  Undisturbed /\ zero => \A leg \in Legs :
    /\ Between(pos[leg], shown[leg]) /\ Between(pos[leg], at[leg])
    /\ leg \in got => Between(pos[leg], reads[leg])
    /\ \A b \in 0..n :
         /\ ord[leg][b].q # 0 => ord[leg][b].ro
         /\ b < n \/ stage = "reduce" => Over(leg, b) \/ pos[leg] = 0

\* The rescue account is the sum of what is known of the batches.
Counted ==
  /\ \A leg \in Legs : rescued[leg] = SumOf(counted[leg], Batches)
  /\ pc = "reread" \/ stage = "reduce" => counted = Contribution(rep)

IInv ==
  /\ TypeOK /\ OrdersSound /\ CallSound /\ TargetsSound
  /\ Current /\ Tracked /\ Fading /\ Counted

----------------------------------------------------------------------------
(* The contract *)

\* For the actor an order is live from the moment its batch is decided.
LiveQty(leg) == IF ord[leg][n].st \in {"ready", "live"} THEN ord[leg][n].q ELSE 0

Contract == INSTANCE ExecContract WITH
  live  <- [leg \in Legs |-> LiveQty(leg)],
  phase <- IF pc \in Outcomes THEN pc ELSE "calling"

\* The executor keeps the contract the actor relies on.
KeepsContract == Contract!Spec

=============================================================================

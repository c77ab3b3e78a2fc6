---------------------------- MODULE AutoPicker ----------------------------
(***************************************************************************)
(* The picker goroutine of auto mode (internal/engine/auto.go and          *)
(* admission.go): it restores the pairs a previous process left open,      *)
(* polls the candidates every two seconds, promotes and drains actors, and *)
(* keeps the account within max_total_notional.                            *)
(*                                                                         *)
(* An actor appears by what PairActor shows to hold for it: the state file *)
(* equals the steps it holds, or carries the unresolved mark (written      *)
(* before any order); the mark goes when no order of a dead process can    *)
(* land any more and the positions match, or after a drain made them flat. *)
(* Closing orders only reduce and are single steps here. The one order     *)
(* kept apart is the opening one, as it is what consumes the account.      *)
(*                                                                         *)
(* Pairs are numbered in the order of their keys. Notionals are integers.  *)
(***************************************************************************)
EXTENDS Integers, FiniteSets, Sequences, SequencesExt, Sums

CONSTANTS
  N,            \* number of candidates (matched pairs)
  Left, Right,  \* market of each leg of a pair
  excluded,     \* pairs outside the whitelist
  TopY,         \* auto.top_y
  MaxSteps,     \* auto.max_steps
  PerStep,      \* auto.notional_per_leg
  Cap,          \* auto.max_total_notional, 0 for none
  Dwell,        \* auto.dwell in polls
  Margin,       \* auto.promote_margin in percent
  MinScore,     \* auto.min_churn_score
  Scores,       \* health scores of a candidate, 0 for one that is not ready
  Prices,       \* entry prices of new steps
  Histories,    \* step ledgers a state file may hold at first
  Fails,        \* a failure rate may exceed auto.max_fail_rate
  CalmsDown,    \* the market may settle for good
  MaxStarts,    \* bound: starts of the process
  MaxExternal   \* bound: position changes made while it is down

Pairs == 1..N
Markets == {Left[p] : p \in Pairs} \cup {Right[p] : p \in Pairs}

\* A step bought qty on both legs at these prices. 0: an old file without prices.
Step == [qty : Nat \ {0}, openL : Nat, openR : Nat]

ASSUME PickerAssumption ==
  /\ N \in Nat \ {0}
  /\ \A p \in Pairs : Left[p] # Right[p]
  /\ excluded \subseteq Pairs
  /\ {TopY, MaxSteps, PerStep} \subseteq Nat \ {0}
  /\ {Cap, Dwell, Margin, MinScore, MaxStarts, MaxExternal} \subseteq Nat
  /\ Scores \subseteq Nat
  /\ Prices \subseteq Nat \ {0}
  /\ Histories \subseteq Seq(Step)
  /\ {Fails, CalmsDown} \subseteq BOOLEAN

VARIABLES
  \* the state files; an actor's memory agrees with its own
  steps,      \* steps[p]: the ledger of a pair
  unresolved, \* pairs whose file carries the unresolved mark
  \* the venues
  extra,      \* extra[m]: notional held on a market that no ledger accounts for
  late,       \* late[m]: notional of a dead process's order that may still land
  \* the picker
  up,
  active,     \* active[p]: out, trading, draining or stopping
  budget,     \* notional reserved for an active pair
  waiting,    \* rt.recovering actors that have not recovered
  failRate,   \* candidates whose remembered failure rate is too high
  promoteAge, demoteAge, \* polls since promoteSince, demoteSince; 0 for no entry
  \* the actors
  reconciled, \* the start-up check of the actor has passed
  opening,    \* opening[p]: the step an order in flight would add
  confirmed,  \* drainConfirmed: the actor found itself flat after Drain
  failing,    \* the rate of the pair's last actor is too high
  ended,      \* done[p]: no, ok or err
  \* the environment
  calm,       \* the scores the market has settled on
  starts, nExt

fileVars   == <<steps, unresolved>>
venueVars  == <<extra, late>>
pickerVars == <<up, active, budget, waiting, failRate, promoteAge, demoteAge>>
actorVars  == <<reconciled, opening, confirmed, failing, ended>>
envVars    == <<calm, starts, nExt>>
vars == <<fileVars, venueVars, pickerVars, actorVars, envVars>>

----------------------------------------------------------------------------
(* Notionals *)

Larger(a, b) == IF a < b THEN b ELSE a
Legs(p) == {Left[p], Right[p]}
candidatesOverlap(p, q) == Legs(p) \cap Legs(q) # {}

NoStep == [qty |-> 0, openL |-> 0, openR |-> 0]
Opening(p) == opening[p] # NoStep
OnLeft(s)  == s.qty * s.openL
OnRight(s) == s.qty * s.openR
Notional(s) == Larger(OnLeft(s), OnRight(s))
Total(f(_), ledger) == SumOf([i \in DOMAIN ledger |-> f(ledger[i])], DOMAIN ledger)

\* Notional of the step s of pair p on market m.
On(m, p, s) == IF m = Left[p] THEN OnLeft(s) ELSE OnRight(s)

Trading(m) == {p \in Pairs : m \in Legs(p)}

\* What a pair's ledger has on a market, and what a position read of it shows, at entry prices.
Booked(m, p) == Total(LAMBDA s : On(m, p, s), steps[p])
Held(m) == extra[m] + SumOf([p \in Pairs |-> Booked(m, p)], Trading(m))
Actual(p) == Larger(Held(Left[p]), Held(Right[p]))

Saved(p) == steps[p] # <<>> \/ p \in unresolved
Priced(p) == \A i \in DOMAIN steps[p] : steps[p][i].openL > 0 /\ steps[p][i].openR > 0

----------------------------------------------------------------------------
(* Restoring what a previous process left: restorePairs                    *)

\* Exposure of a ledger, and the reservation that also lets each of its steps be
\* replaced by a new one.
LedgerUsed(p) == Larger(Total(OnLeft, steps[p]), Total(OnRight, steps[p]))
ReservedSpareOnly(p) == LedgerUsed(p) + Larger(MaxSteps - Len(steps[p]), 0) * PerStep
Reserved(p) ==
  Total(LAMBDA s : Larger(PerStep, Notional(s)), steps[p])
    + Larger(MaxSteps - Len(steps[p]), 0) * PerStep

\* A ledger without prices occupies the whole account.
UsedLedgerOnly(p) == IF Priced(p) \/ Cap = 0 THEN LedgerUsed(p) ELSE Larger(LedgerUsed(p), Cap)
Used(p) ==
  LET seen == Larger(LedgerUsed(p), Actual(p))
  IN IF Priced(p) \/ Cap = 0 THEN seen ELSE Larger(seen, Cap)
FullBudget(p) ==
  LET seen == Reserved(p) + Larger(LedgerUsed(p), Actual(p)) - LedgerUsed(p)
  IN IF Priced(p) \/ Cap = 0 THEN seen ELSE Larger(seen, Used(p))

OverCap(n) == Cap > 0 /\ n > Cap

\* In the order of the keys, a pair trades on if a slot and the account have room for it besides
\* what every restored pair already holds: what is reserved then if T are the pairs that do.
SavedPairs == {p \in Pairs : Saved(p)}
Planned(T, p) ==
  SumOf([q \in Pairs |-> IF q = p \/ (q \in T /\ q < p) THEN FullBudget(q) ELSE Used(q)], SavedPairs)
Plan(T) ==
  \A p \in SavedPairs :
    p \in T <=> /\ p \notin excluded /\ Priced(p)
                /\ Cardinality({q \in T : q < p}) < TopY
                /\ ~OverCap(Planned(T, p))

\* What restorePairs insists on.
LedgersApart == \A p, q \in Pairs : Saved(p) /\ Saved(q) /\ p # q => ~candidatesOverlap(p, q)
PositionsCovered == \A m \in Markets : Held(m) # 0 => \E p \in Trading(m) : Saved(p)

Restore ==
  /\ ~up
  /\ starts < MaxStarts
  /\ LedgersApart /\ PositionsCovered
  /\ up' = TRUE
  /\ starts' = starts + 1
  /\ \E T \in SUBSET SavedPairs :
       /\ Plan(T)
       /\ active' = [p \in Pairs |-> IF p \notin SavedPairs THEN "out"
                                     ELSE IF p \in T THEN "trading" ELSE "draining"]
       /\ budget' = [p \in Pairs |-> IF p \notin SavedPairs THEN 0
                                     ELSE IF p \in T THEN FullBudget(p) ELSE Used(p)]
  /\ waiting' = unresolved
  /\ UNCHANGED <<fileVars, venueVars, failRate, promoteAge, demoteAge, actorVars, calm, nExt>>

----------------------------------------------------------------------------
(* One poll of the candidates: selectPairs. An actor changes the flags it  *)
(* shows to the picker on its own, and the picker reads each once, so that *)
(* a poll is one step.                                                     *)

Active == {p \in Pairs : active[p] # "out"}
Gone(p) == active[p] = "stopping" /\ ended[p] = "ok"
Present(p) == active[p] # "out" /\ ~Gone(p)

\* The rate is taken from the actors, those that have just ended included.
FailedLate(p) == IF Present(p) THEN p \in failing ELSE p \in failRate
Failed(p) == IF active[p] # "out" THEN p \in failing ELSE p \in failRate

Before(score, p, q) == score[p] > score[q] \/ (score[p] = score[q] /\ p < q)
Entries(score) ==
  [k \in Pairs |-> CHOOSE p \in Pairs : Cardinality({q \in Pairs : Before(score, q, p)}) = k - 1]
Eligible(score, p) ==
  p \notin excluded /\ ~Failed(p) /\ score[p] > 0 /\ score[p] >= MinScore

\* The trading actors that stay, without the weakest of more than TopY.
Incumbents(score) ==
  LET keep == {p \in Pairs : active[p] = "trading" /\ p \notin excluded /\ ~Failed(p)}
  IN {p \in keep : Cardinality({q \in keep : Before(score, q, p)}) < TopY}

Weakest(score, S) ==
  CHOOSE p \in S : \A q \in S : score[p] < score[q] \/ (score[p] = score[q] /\ p <= q)
BeatsEqual(score, p, q) == 100 * score[p] >= (100 + Margin) * score[q]
Beats(score, p, q) == 100 * score[p] > (100 + Margin) * score[q]

Consider(score, desired, p) ==
  LET fits(S) == \A q \in S : ~candidatesOverlap(p, q)
      rivals  == {q \in desired : fits(desired \ {q})}
      weak    == Weakest(score, rivals)
  IN IF ~Eligible(score, p) \/ p \in desired \/ Present(p) THEN desired
     ELSE IF Cardinality(desired) < TopY /\ fits(desired) THEN desired \cup {p}
     ELSE IF rivals # {} /\ Beats(score, p, weak) THEN (desired \ {weak}) \cup {p}
     ELSE desired

Desired(score) ==
  LET entries == Entries(score)
      considered[k \in 0..N] ==
        IF k = 0 THEN Incumbents(score) ELSE Consider(score, considered[k - 1], entries[k])
  IN considered[N]

\* An entry made at an earlier poll that is a dwell old.
Elapsed(age) == age # 0 /\ age >= Dwell
Renewed(age) == 1
Older(age) == IF Elapsed(age) THEN age ELSE age + 1

Lagging(desired) == {p \in Pairs : active[p] = "trading" /\ p \notin desired}
Drain(desired) == {p \in Lagging(desired) : p \in excluded \/ Failed(p) \/ Elapsed(demoteAge[p])}
Drained(p) == active[p] = "draining" /\ confirmed[p]

ReadyBesideDrains == \A p \in waiting : active[p] # "trading"
startupRecoveryReady == waiting = {}

\* promote: every actor still present counts, whatever it is doing.
Room(S) ==
  ~OverCap(PerStep * MaxSteps
           + SumOf([q \in Pairs |-> IF Present(q) THEN budget[q] ELSE PerStep * MaxSteps], S))
MayPromoteTrading(S, p, sized) ==
  /\ startupRecoveryReady
  /\ \A q \in S : active[q] # "draining" => ~candidatesOverlap(p, q)
  /\ Room(S)
  /\ p \in sized
MayPromote(S, p, sized) ==
  /\ startupRecoveryReady
  /\ \A q \in S : ~candidatesOverlap(p, q)
  /\ Room(S)
  /\ p \in sized

\* The pairs whose dwell is over take their turns in the order of their scores, as
\* long as a slot is free; they come after the actors present and those promoted
\* before them.
Ahead(score, promoted, p) ==
  {q \in Pairs : Present(q) \/ (q \in promoted /\ Before(score, q, p))}
SlotFree(score, promoted, p) == Cardinality(Ahead(score, promoted, p)) < TopY
Promotions(score, ripe, sized, promoted) ==
  \A p \in ripe : p \in promoted <=> /\ SlotFree(score, promoted, p)
                                     /\ MayPromote(Ahead(score, promoted, p), p, sized)

Moving == <<>>
Views == IF calm = Moving THEN [Pairs -> Scores] ELSE {calm}
\* Candidates whose size may turn out unavailable or whose books stale.
Doubtful == IF calm = Moving THEN {p \in Pairs \ Active : Elapsed(promoteAge[p])} ELSE {}

selectPairs(score, desired, promoted) ==
  LET wanted == {p \in desired : ~Present(p)}
      drains == Drain(desired)
  IN /\ active' = [p \in Pairs |->
           IF p \in promoted THEN "trading"
           ELSE IF Gone(p) THEN "out"
           ELSE IF p \in drains THEN "draining"
           ELSE IF Drained(p) THEN "stopping"
           ELSE active[p]]
     /\ budget' = [p \in Pairs |-> IF p \in promoted THEN PerStep * MaxSteps
                                   ELSE IF Gone(p) THEN 0 ELSE budget[p]]
     /\ failRate' = {p \in Pairs : Failed(p)}
     /\ promoteAge' = [p \in Pairs |->
           IF p \notin wanted \/ p \in promoted THEN 0
           \* a promotion that was refused waits for another dwell
           ELSE IF Elapsed(promoteAge[p]) /\ SlotFree(score, promoted, p) THEN 1
           ELSE Older(promoteAge[p])]
     /\ demoteAge' = [p \in Pairs |->
           IF Gone(p) \/ (p \in desired /\ active[p] = "trading") THEN 0
           ELSE IF p \in Lagging(desired) \ drains THEN Older(demoteAge[p])
           ELSE demoteAge[p]]
     \* an actor that starts afresh
     /\ reconciled' = {p \in reconciled : ~Gone(p)}
     /\ confirmed' = [p \in Pairs |-> confirmed[p] /\ ~Gone(p)]
     /\ failing' = failing \ promoted
     /\ ended' = [p \in Pairs |-> IF Gone(p) THEN "no" ELSE ended[p]]

Poll ==
  /\ up
  /\ \A p \in Active : ended[p] # "err"
  /\ \E score \in Views, unsized \in SUBSET Doubtful :
       \E desired \in {Desired(score)} :
         LET ripe == {p \in Pairs : p \in desired /\ ~Present(p) /\ Elapsed(promoteAge[p])}
         IN \E promoted \in SUBSET ripe :
              /\ Promotions(score, ripe, Pairs \ unsized, promoted)
              /\ selectPairs(score, desired, promoted)
  /\ UNCHANGED <<fileVars, venueVars, up, waiting, opening, envVars>>

----------------------------------------------------------------------------
(* The end of a process. What its orders still do becomes late.            *)

InFlight(m) == {p \in Trading(m) : Opening(p)}
Orphaned(m) == SumOf([p \in Pairs |-> On(m, p, opening[p])], InFlight(m))

Down ==
  /\ up' = FALSE
  /\ late' = [m \in Markets |-> IF InFlight(m) = {} THEN late[m] ELSE late[m] + Orphaned(m)]
  /\ active' = [p \in Pairs |-> "out"]
  /\ budget' = [p \in Pairs |-> 0]
  /\ waiting' = {} /\ failRate' = {} /\ failing' = {} /\ reconciled' = {}
  /\ promoteAge' = [p \in Pairs |-> 0] /\ demoteAge' = [p \in Pairs |-> 0]
  /\ opening' = [p \in Pairs |-> NoStep]
  /\ confirmed' = [p \in Pairs |-> FALSE]
  /\ ended' = [p \in Pairs |-> "no"]
  /\ UNCHANGED <<fileVars, extra, envVars>>

\* The actor of an unexpected end stops the engine with its error.
PickerFails ==
  /\ up
  /\ \E p \in Active : ended[p] = "err"
  /\ Down

\* A crash, a signal, or a collector that fails.
Stop == up /\ Down

----------------------------------------------------------------------------
(* The actors, by what PairActor shows                                     *)

Alive(p) == p \in Active /\ ended[p] = "no"
Quiet(p) == \A m \in Legs(p) : late[m] = 0

Recovered(p) ==
  /\ unresolved' = unresolved \ {p}
  /\ waiting' = waiting \ {p}
  /\ reconciled' = reconciled \cup {p}
  /\ UNCHANGED <<up, active, budget, failRate, promoteAge, demoteAge>>

\* Positions match the ledger; with a mark, after the quarantine.
Reconcile(p) ==
  /\ Alive(p)
  /\ p \notin reconciled
  /\ \A m \in Legs(p) : extra[m] = 0
  /\ p \in unresolved => Quiet(p) /\ active[p] = "trading"
  /\ Recovered(p)
  /\ UNCHANGED <<steps, venueVars, opening, confirmed, failing, ended, envVars>>

\* A draining actor becomes flat: from its ledger, or, with a mark, from whatever
\* the quarantine leaves on its markets.
ClearedByLedger(p) == extra
Cleared(p) == [m \in Markets |-> IF m \in Legs(p) THEN 0 ELSE extra[m]]
Unwind(p) ==
  /\ Alive(p)
  /\ active[p] = "draining" /\ ~confirmed[p]
  /\ ~Opening(p)
  /\ IF p \in unresolved THEN Quiet(p) ELSE p \in reconciled
  /\ steps' = [steps EXCEPT ![p] = <<>>]
  /\ extra' = Cleared(p)
  /\ confirmed' = [confirmed EXCEPT ![p] = TRUE]
  /\ Recovered(p)
  /\ UNCHANGED <<late, opening, failing, ended, envVars>>

Open(p) ==
  /\ Alive(p)
  /\ active[p] = "trading"
  /\ p \in reconciled /\ p \notin unresolved
  /\ startupRecoveryReady
  /\ Len(steps[p]) < MaxSteps
  /\ \E q \in 1..PerStep, l, r \in Prices :
       /\ q * Larger(l, r) <= PerStep
       /\ opening' = [opening EXCEPT ![p] = [qty |-> q, openL |-> l, openR |-> r]]
  /\ unresolved' = unresolved \cup {p}
  /\ UNCHANGED <<steps, venueVars, pickerVars, reconciled, confirmed, failing, ended, envVars>>

Grown(ledger, s) == IF s.qty = 0 THEN ledger ELSE Append(ledger, s)

\* The opening fills in part, in full or not at all.
Fill(p) ==
  /\ Alive(p)
  /\ Opening(p)
  /\ \E q \in 0..opening[p].qty :
       steps' = [steps EXCEPT ![p] = Grown(@, [opening[p] EXCEPT !.qty = q])]
  /\ opening' = [opening EXCEPT ![p] = NoStep]
  /\ unresolved' = unresolved \ {p}
  /\ UNCHANGED <<venueVars, pickerVars, reconciled, confirmed, failing, ended, envVars>>

\* A step is closed in part or in full.
Close(p) ==
  /\ Alive(p)
  /\ active[p] = "trading"
  /\ p \in reconciled /\ p \notin unresolved
  /\ \E i \in DOMAIN steps[p] : \E q \in 0..(steps[p][i].qty - 1) :
       steps' = [steps EXCEPT ![p] = IF q = 0 THEN RemoveAt(@, i) ELSE [@ EXCEPT ![i].qty = q]]
  /\ UNCHANGED <<unresolved, venueVars, pickerVars, actorVars, envVars>>

\* The rolling rate of one-legged executions crosses the limit.
ChangeRate(p) ==
  /\ Fails /\ calm = Moving
  /\ Alive(p) /\ p \in reconciled
  /\ failing' = IF p \in failing THEN failing \ {p} ELSE failing \cup {p}
  /\ UNCHANGED <<fileVars, venueVars, pickerVars, reconciled, opening, confirmed, ended, envVars>>

\* Run returns after its context was cancelled, or with an error at any time; an
\* order in flight is left to the venue.
ActorEnds(p) ==
  /\ Alive(p)
  /\ active[p] = "stopping"
  /\ ended' = [ended EXCEPT ![p] = "ok"]
  /\ UNCHANGED <<fileVars, venueVars, pickerVars, reconciled, opening, confirmed, failing, envVars>>
ActorFails(p) ==
  /\ Alive(p)
  /\ ended' = [ended EXCEPT ![p] = "err"]
  /\ late' = [m \in Markets |->
               IF Opening(p) /\ m \in Legs(p) THEN late[m] + On(m, p, opening[p]) ELSE late[m]]
  /\ opening' = [opening EXCEPT ![p] = NoStep]
  /\ UNCHANGED <<fileVars, extra, pickerVars, reconciled, confirmed, failing, envVars>>

----------------------------------------------------------------------------
(* The environment *)

Land(m) ==
  /\ late[m] > 0
  /\ \E k \in 0..late[m] : extra' = [extra EXCEPT ![m] = @ + k]
  /\ late' = [late EXCEPT ![m] = 0]
  /\ UNCHANGED <<fileVars, pickerVars, actorVars, envVars>>

\* Somebody trades a market of a saved pair; on any other the program will not start.
External ==
  /\ ~up
  /\ nExt < MaxExternal
  /\ nExt' = nExt + 1
  /\ \E p \in Pairs, k \in 1..PerStep : \E m \in Legs(p) :
       Saved(p) /\ extra' = [extra EXCEPT ![m] = @ + k]
  /\ UNCHANGED <<fileVars, late, pickerVars, actorVars, calm, starts>>

CalmDown ==
  /\ CalmsDown /\ calm = Moving
  /\ calm' \in [Pairs -> Scores]
  /\ UNCHANGED <<fileVars, venueVars, pickerVars, actorVars, starts, nExt>>

----------------------------------------------------------------------------

Init ==
  /\ steps \in [Pairs -> Histories]
  /\ unresolved = {}
  /\ extra = [m \in Markets |-> 0] /\ late = [m \in Markets |-> 0]
  /\ LedgersApart
  /\ up = FALSE
  /\ active = [p \in Pairs |-> "out"]
  /\ budget = [p \in Pairs |-> 0]
  /\ waiting = {} /\ failRate = {} /\ failing = {} /\ reconciled = {}
  /\ promoteAge = [p \in Pairs |-> 0] /\ demoteAge = [p \in Pairs |-> 0]
  /\ opening = [p \in Pairs |-> NoStep]
  /\ confirmed = [p \in Pairs |-> FALSE]
  /\ ended = [p \in Pairs |-> "no"]
  /\ calm = Moving
  /\ starts = 0 /\ nExt = 0

Next ==
  \/ Restore \/ Poll \/ PickerFails \/ Stop
  \/ \E p \in Pairs :
       \/ Reconcile(p) \/ Unwind(p) \/ Open(p) \/ Fill(p) \/ Close(p)
       \/ ChangeRate(p) \/ ActorEnds(p) \/ ActorFails(p)
  \/ \E m \in Markets : Land(m)
  \/ External \/ CalmDown

Spec == Init /\ [][Next]_vars

\* The picker's ticker, every actor's own loop, and the venues.
Fairness ==
  /\ WF_vars(Poll \/ PickerFails)
  /\ \A p \in Pairs : /\ WF_vars(Reconcile(p)) /\ WF_vars(Unwind(p))
                      /\ WF_vars(Fill(p)) /\ WF_vars(ActorEnds(p))
  /\ \A m \in Markets : WF_vars(Land(m))
FairSpec == Spec /\ Fairness

----------------------------------------------------------------------------
(* Properties *)

\* Every variable keeps its type.
TypeOK ==
  /\ steps \in [Pairs -> Seq(Step)]
  /\ unresolved \subseteq Pairs
  /\ extra \in [Markets -> Nat] /\ late \in [Markets -> Nat]
  /\ up \in BOOLEAN
  /\ active \in [Pairs -> {"out", "trading", "draining", "stopping"}]
  /\ budget \in [Pairs -> Nat]
  /\ waiting \subseteq Pairs /\ failRate \subseteq Pairs
  /\ {promoteAge, demoteAge} \subseteq [Pairs -> 0..Larger(1, Dwell)]
  /\ reconciled \subseteq Pairs /\ failing \subseteq Pairs
  /\ opening \in [Pairs -> Step \cup {NoStep}]
  /\ confirmed \in [Pairs -> BOOLEAN]
  /\ ended \in [Pairs -> {"no", "ok", "err"}]
  /\ calm \in [Pairs -> Scores] \cup {Moving}
  /\ starts \in 0..MaxStarts /\ nExt \in 0..MaxExternal

\* The notional a pair may come to hold: what its markets show with the order in
\* flight, or more than any cap if its ledger has no prices.
Exposure(p) ==
  IF Priced(p) THEN Larger(Held(Left[p]) + OnLeft(opening[p]), Held(Right[p]) + OnRight(opening[p]))
  ELSE Cap + 1

\* While an opening order is out, everything the account holds, what nobody has a
\* ledger for included, fits max_total_notional with that order filled.
OpensWithinCap ==
  Cap > 0 /\ (\E p \in Pairs : Opening(p))
    => SumOf([p \in Pairs |-> Exposure(p)], SavedPairs) <= Cap

\* No order that opens is out while one of a dead process may still land.
OpensAfterRecovery ==
  (\E p \in Pairs : Opening(p)) /\ up => \A p \in Active : ended[p] # "err" => Quiet(p)

\* The reservation of a recovered actor covers what it holds through every
\* sequence of closed, replaced and partly filled steps.
ReservationCovers ==
  \A p \in Active : p \in reconciled /\ Priced(p) => Exposure(p) <= budget[p]

\* Wherever the process ends, the next one can take over: two actors never own one
\* market, nor do two saved pairs,
MarketsApart ==
  /\ LedgersApart
  /\ \A p, q \in Active : p # q => ~candidatesOverlap(p, q)

\* and every market that holds a position is one of a saved pair.
NoOrphanPosition == PositionsCovered

\* A pair whose last actor failed too often is not promoted again.
FailedStaysOut ==
  [][\A p \in Pairs : p \in failing /\ active[p] = "out" /\ up => active'[p] = "out"]_vars

Unserved(p) ==
  /\ p \notin Active
  /\ Eligible(calm, p)
  /\ Cardinality(Active) < TopY
  /\ \A q \in Active : ~candidatesOverlap(p, q)
  /\ ~OverCap(SumOf(budget, Active) + PerStep * MaxSteps)

\* Once scores and failure rates stay as they are, no slot stays free that an
\* eligible candidate could have,
SlotsFilled ==
  <>(calm # Moving) => <>[](up /\ startupRecoveryReady /\ calm # Moving => \A p \in Pairs : ~Unserved(p))

\* and the picker stops exchanging pairs.
Converges == <>(calm # Moving) => <>[][active' = active]_active
=============================================================================

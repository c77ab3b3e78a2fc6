------------------------- MODULE AutoPickerProofs -------------------------
(* Proofs about AutoPicker for any number of pairs, slots, steps and starts. *)
EXTENDS AutoPicker, SumTheorems, TLAPS

States == {"out", "trading", "draining", "stopping"}
Ends == {"no", "ok", "err"}
IsFunction(f, S) == f = [x \in S |-> f[x]]

Shapes ==
  /\ up \in BOOLEAN
  /\ active \in [Pairs -> States] /\ ended \in [Pairs -> Ends]
  /\ confirmed \in [Pairs -> BOOLEAN]
  /\ IsFunction(steps, Pairs) /\ IsFunction(opening, Pairs) /\ IsFunction(late, Markets)
  /\ unresolved \subseteq Pairs /\ waiting \subseteq Pairs
  /\ calm = Moving \/ calm \in [Pairs -> Scores]

\* A process that is down has no actors.
DownIdle ==
  ~up => /\ \A p \in Pairs : active[p] = "out" /\ ended[p] = "no" /\ ~confirmed[p] /\ ~Opening(p)
         /\ waiting = {}

\* Whatever a state file still holds has an actor.
SavedManaged == up => \A p \in Pairs : Saved(p) => p \in Active

\* An actor is cancelled only when it has nothing left, and stays that way.
ConfirmedEmpty ==
  \A p \in Pairs :
    /\ active[p] = "stopping" => confirmed[p]
    /\ confirmed[p] => ~Saved(p) /\ ~Opening(p) /\ active[p] \in {"draining", "stopping"}

\* An order in flight has a running, reconciled actor and a mark in the state file,
\* and began after recovery was over.
OpeningMarked ==
  \A p \in Pairs : Opening(p) =>
    p \in unresolved /\ Alive(p) /\ p \in reconciled /\ startupRecoveryReady

\* What may still land on a market was left there by a pair that is marked, and has
\* an actor that knows it.
LateMarked ==
  \A m \in Markets : late[m] # 0 =>
    \E p \in unresolved : m \in Legs(p) /\ (up => p \in Active /\ (p \in waiting \/ ended[p] = "err"))

PickerInv ==
  /\ Shapes /\ DownIdle /\ SavedManaged /\ ConfirmedEmpty /\ OpeningMarked /\ LateMarked
  /\ MarketsApart

(* Why: what the account holds, and who answers for it *)

\* What the steps of a ledger have on the left and on the right market, and what is kept for
\* each of them to be replaced by a new one.
Ways == {"left", "right", "reserve"}
Value(w, s) ==
  IF w = "left" THEN OnLeft(s)
  ELSE IF w = "right" THEN OnRight(s)
  ELSE Larger(PerStep, Notional(s))
Ledger(w, t) == SumOf([i \in DOMAIN t |-> Value(w, t[i])], DOMAIN t)

Amounts ==
  /\ steps \in [Pairs -> Seq(Step)] /\ opening \in [Pairs -> Step \cup {NoStep}]
  /\ extra \in [Markets -> Nat] /\ late \in [Markets -> Nat]
  /\ budget \in [Pairs -> Nat]

\* Only an actor has passed its start-up check, and while it runs nothing on its markets
\* is unaccounted for.
ReconciledClean ==
  /\ waiting \subseteq unresolved /\ reconciled \cap waiting = {}
  /\ reconciled \subseteq Active
  /\ \A p \in reconciled : ended[p] # "err" => \A m \in Legs(p) : extra[m] = 0 /\ late[m] = 0

\* What no ledger accounts for is on a market of a saved pair.
ExtraManaged == \A m \in Markets : extra[m] # 0 => \E p \in Trading(m) : Saved(p)

\* An opening has a step left for it and is no larger than a step may be.
OpeningFits(p) ==
  Opening(p) =>
    /\ Priced(p) /\ Len(steps[p]) < MaxSteps
    /\ opening[p].openL > 0 /\ opening[p].openR > 0
    /\ OnLeft(opening[p]) <= PerStep /\ OnRight(opening[p]) <= PerStep

\* Who may open has all the steps reserved it may come to hold;
TradingReserved(p) == active[p] = "trading" => Priced(p) /\ Reserved(p) <= budget[p]

\* what an actor holds, and what may still land on it once it has recovered, is within its
\* reservation;
Unbooked(p, m) == IF p \in waiting THEN 0 ELSE extra[m] + late[m]
Covered(p) ==
  p \in Active /\ Priced(p) => \A m \in Legs(p) :
    Unbooked(p, m) + On(m, p, opening[p]) + Booked(m, p) <= budget[p]

\* and one whose exposure is unknown has all of the account.
UnpricedHolds(p) == p \in Active /\ ~Priced(p) /\ Cap > 0 => budget[p] >= Cap

Fits(p) == OpeningFits(p) /\ TradingReserved(p) /\ Covered(p) /\ UnpricedHolds(p)

\* While any actor may open, all that is reserved fits the account.
WithinCap ==
  Cap > 0 /\ (\E p \in Pairs : active[p] = "trading" \/ Opening(p)) => SumOf(budget, Active) <= Cap

\* The rate of an actor that ended too often with one leg is remembered.
FailedKnown ==
  /\ failing \subseteq Pairs /\ failRate \subseteq Pairs
  /\ ~up => failing = {}
  /\ \A p \in failing : active[p] = "out" => p \in failRate

BudgetInv ==
  /\ Amounts /\ ReconciledClean /\ ExtraManaged /\ FailedKnown
  /\ \A p \in Pairs : Fits(p)
  /\ WithinCap

LEMMA OverlapSymmetric ==
  ASSUME NEW p, NEW q, candidatesOverlap(p, q)
  PROVE  candidatesOverlap(q, p)
BY DEF candidatesOverlap

LEMMA InitInv == Init => PickerInv
BY DEF Init, PickerInv, Shapes, DownIdle, SavedManaged, ConfirmedEmpty, OpeningMarked, LateMarked,
   MarketsApart, LedgersApart, Active, Opening, Alive, Saved, States, Ends, IsFunction

USE DEF Legs, Saved, Active, Opening, Alive, startupRecoveryReady

\* A restored pair has an actor, and the marks it was left with.
LEMMA RestoreInv == ASSUME PickerInv, Restore PROVE PickerInv'
<1> USE DEF PickerInv
<1>1. /\ ~up /\ up' = TRUE /\ LedgersApart
      /\ UNCHANGED <<fileVars, venueVars, actorVars, calm>>
      /\ waiting' = unresolved
      /\ active' \in [Pairs -> States]
      /\ \A p \in Pairs : active'[p] \in {"out", "trading", "draining"}
      /\ \A p \in Pairs : active'[p] # "out" <=> Saved(p)
  <2>1. PICK T : active' = [p \in Pairs |-> IF p \notin SavedPairs THEN "out"
                                           ELSE IF p \in T THEN "trading" ELSE "draining"]
    BY DEF Restore
  <2>2. \A p \in Pairs : p \in SavedPairs <=> Saved(p)
    BY DEF SavedPairs
  <2>3. /\ active' \in [Pairs -> States]
        /\ \A p \in Pairs : active'[p] \in {"out", "trading", "draining"}
        /\ \A p \in Pairs : active'[p] # "out" <=> Saved(p)
    BY <2>1, <2>2 DEF States
  <2> QED BY <2>3 DEF Restore
<1>2. Shapes'
  BY <1>1 DEF Shapes, fileVars, venueVars, actorVars, IsFunction
<1>3. DownIdle' /\ SavedManaged' /\ ConfirmedEmpty' /\ OpeningMarked'
  BY <1>1 DEF DownIdle, SavedManaged, ConfirmedEmpty, OpeningMarked, Shapes, fileVars, actorVars
<1>4. LateMarked'
  BY <1>1 DEF LateMarked, Shapes, fileVars, venueVars
<1>5. MarketsApart'
  BY <1>1 DEF MarketsApart, LedgersApart, candidatesOverlap, fileVars
<1> QED BY <1>2, <1>3, <1>4, <1>5

\* What a poll decided: which candidates are promoted, one after the other.
Polled(score, desired, sized, promoted) ==
  /\ score \in Views /\ promoted \subseteq Pairs
  /\ \A p \in promoted : ~Present(p) /\ MayPromote(Ahead(score, promoted, p), p, sized)
  /\ selectPairs(score, desired, promoted)

LEMMA PollStep ==
  ASSUME Poll
  PROVE  \E score, desired, sized, promoted : Polled(score, desired, sized, promoted)
<1>1. PICK score, unsized, desired, promoted :
        LET ripe == {p \in Pairs : p \in desired /\ ~Present(p) /\ Elapsed(promoteAge[p])}
        IN /\ score \in Views
           /\ promoted \subseteq ripe
           /\ Promotions(score, ripe, Pairs \ unsized, promoted)
           /\ selectPairs(score, desired, promoted)
  BY DEF Poll
<1>2. \A p \in promoted :
        /\ p \in Pairs /\ ~Present(p)
        /\ MayPromote(Ahead(score, promoted, p), p, Pairs \ unsized)
  BY <1>1 DEF Promotions
<1> QED BY <1>1, <1>2 DEF Polled

\* What a poll does to the actors: those promoted overlap neither the ones that stay
\* nor each other.
LEMMA PollInv == ASSUME PickerInv, PickerAssumption, Poll PROVE PickerInv'
<1> USE DEF PickerInv
<1>1. PICK score, desired, sized, promoted :
        /\ score \in Views /\ promoted \subseteq Pairs
        /\ \A p \in promoted : ~Present(p) /\ MayPromote(Ahead(score, promoted, p), p, sized)
        /\ selectPairs(score, desired, promoted)
  BY PollStep DEF Polled
<1>2. /\ up /\ \A p \in Active : ended[p] # "err"
      /\ UNCHANGED <<fileVars, venueVars, up, waiting, opening, envVars>>
  BY DEF Poll
<1>3. /\ active' \in [Pairs -> States] /\ ended' \in [Pairs -> Ends] /\ confirmed' \in [Pairs -> BOOLEAN]
      /\ \A p \in Pairs : active'[p] # "out" <=> p \in promoted \/ Present(p)
      /\ \A p \in Pairs : /\ ended'[p] = IF Gone(p) THEN "no" ELSE ended[p]
                          /\ confirmed'[p] = (confirmed[p] /\ ~Gone(p))
  <2>1. /\ ended' = [p \in Pairs |-> IF Gone(p) THEN "no" ELSE ended[p]]
        /\ confirmed' = [p \in Pairs |-> confirmed[p] /\ ~Gone(p)]
        /\ active' = [p \in Pairs |->
             IF p \in promoted THEN "trading"
             ELSE IF Gone(p) THEN "out"
             ELSE IF p \in Drain(desired) THEN "draining"
             ELSE IF Drained(p) THEN "stopping"
             ELSE active[p]]
    BY <1>1 DEF selectPairs
  <2>2. /\ ended' \in [Pairs -> Ends]
        /\ \A p \in Pairs : ended'[p] = IF Gone(p) THEN "no" ELSE ended[p]
    BY <2>1 DEF Shapes, Ends
  <2>3. /\ confirmed' \in [Pairs -> BOOLEAN]
        /\ \A p \in Pairs : confirmed'[p] = (confirmed[p] /\ ~Gone(p))
    BY <2>1, Zenon
  <2>4. active' \in [Pairs -> States]
    BY <2>1 DEF Shapes, States
  <2>5. ASSUME NEW p \in Pairs PROVE active'[p] # "out" <=> p \in promoted \/ Present(p)
    <3>1. p \in Drain(desired) => Present(p)
      BY DEF Drain, Lagging, Present, Gone
    <3>2. Drained(p) => Present(p)
      BY DEF Drained, Present, Gone
    <3> QED BY <2>1, <3>1, <3>2 DEF Present, Gone
  <2> QED BY <2>2, <2>3, <2>4, <2>5
<1>4. \A p \in Pairs : Saved(p) => ~Gone(p)
  BY DEF ConfirmedEmpty, Gone
<1>5. Shapes'
  BY <1>2, <1>3 DEF Shapes, fileVars, venueVars, envVars, IsFunction
<1>6. DownIdle' /\ SavedManaged'
  BY <1>2, <1>3, <1>4 DEF DownIdle, SavedManaged, Present, fileVars
<1>7. ConfirmedEmpty'
  <2> SUFFICES ASSUME NEW p \in Pairs
               PROVE  /\ active'[p] = "stopping" => confirmed'[p]
                      /\ confirmed'[p] => /\ ~Saved(p) /\ ~Opening(p)
                                          /\ active'[p] \in {"draining", "stopping"}
    BY <1>2 DEF ConfirmedEmpty, fileVars
  <2>1. active'[p] = IF p \in promoted THEN "trading"
                     ELSE IF Gone(p) THEN "out"
                     ELSE IF p \in Drain(desired) THEN "draining"
                     ELSE IF Drained(p) THEN "stopping"
                     ELSE active[p]
    BY <1>1 DEF selectPairs
  <2>2. active'[p] = "stopping" => confirmed'[p]
    BY <2>1, <1>3 DEF ConfirmedEmpty, Drained
  <2>3. ASSUME confirmed'[p]
        PROVE  ~Saved(p) /\ ~Opening(p) /\ active'[p] \in {"draining", "stopping"}
    BY <2>1, <2>3, <1>1, <1>3 DEF ConfirmedEmpty, Present
  <2> QED BY <2>2, <2>3
<1>8. OpeningMarked'
  <2>1. reconciled' = {p \in reconciled : ~Gone(p)}
    BY <1>1 DEF selectPairs
  <2> QED BY <2>1, <1>2, <1>3 DEF OpeningMarked, Present, Gone, fileVars
<1>9. LateMarked'
  BY <1>2, <1>3, <1>4 DEF LateMarked, Shapes, Present, fileVars, venueVars
<1>10. MarketsApart'
  <2>1. LedgersApart'
    BY <1>2 DEF MarketsApart, LedgersApart, candidatesOverlap, fileVars
  <2>2. ASSUME NEW p \in Pairs, NEW q \in Pairs, p \in promoted, p # q, q \in promoted \/ Present(q)
        PROVE  ~candidatesOverlap(p, q)
    <3>1. q \in Ahead(score, promoted, p) => ~candidatesOverlap(p, q)
      BY <1>1, <2>2 DEF MayPromote
    <3>2. CASE Present(q)
      BY <3>1, <3>2 DEF Ahead
    <3>3. CASE q \in promoted
      <4>1. p \in Ahead(score, promoted, q) => ~candidatesOverlap(q, p)
        BY <1>1, <3>3 DEF MayPromote
      <4>2. score[p] \in Nat /\ score[q] \in Nat
        <5>1. score \in [Pairs -> Scores] /\ Scores \subseteq Nat
          BY <1>1 DEF Views, Shapes, PickerAssumption
        <5> QED BY <5>1, <2>2
      <4>3. Before(score, q, p) \/ Before(score, p, q)
        BY <4>2, <2>2, PickerAssumption DEF Before, Pairs, PickerAssumption
      <4> QED BY <3>1, <3>3, <4>1, <4>3, <2>2, OverlapSymmetric DEF Ahead
    <3> QED BY <2>2, <3>2, <3>3
  <2>3. ASSUME NEW p \in Pairs, NEW q \in Pairs, p # q, active'[p] # "out", active'[q] # "out"
        PROVE  ~candidatesOverlap(p, q)
    BY <1>3, <2>2, <2>3, OverlapSymmetric DEF MarketsApart, Present
  <2> QED BY <2>1, <2>3 DEF MarketsApart, candidatesOverlap
<1> QED BY <1>5, <1>6, <1>7, <1>8, <1>9, <1>10

\* The orders of a process that ends stay behind their marks.
LEMMA DownInv == ASSUME PickerInv, up, Down PROVE PickerInv'
<1> USE DEF PickerInv
<1>1. /\ UNCHANGED <<steps, unresolved, calm>>
      /\ up' = FALSE
      /\ active' = [p \in Pairs |-> "out"] /\ ended' = [p \in Pairs |-> "no"]
      /\ confirmed' = [p \in Pairs |-> FALSE] /\ opening' = [p \in Pairs |-> NoStep]
      /\ waiting' = {}
      /\ late' = [m \in Markets |-> IF InFlight(m) = {} THEN late[m] ELSE late[m] + Orphaned(m)]
  BY DEF Down, fileVars, envVars
<1>2. Shapes'
  BY <1>1 DEF Shapes, States, Ends, IsFunction
<1>3. DownIdle' /\ SavedManaged' /\ ConfirmedEmpty' /\ OpeningMarked'
  BY <1>1 DEF DownIdle, SavedManaged, ConfirmedEmpty, OpeningMarked
<1>4. LateMarked'
  <2> SUFFICES ASSUME NEW m \in Markets, late'[m] # 0
               PROVE  \E p \in unresolved : m \in Legs(p)
    BY <1>1 DEF LateMarked
  <2>1. CASE InFlight(m) = {}
    BY <1>1, <2>1 DEF LateMarked
  <2>2. CASE InFlight(m) # {}
    BY <2>2 DEF InFlight, Trading, OpeningMarked
  <2> QED BY <2>1, <2>2
<1>5. MarketsApart'
  BY <1>1 DEF MarketsApart, LedgersApart, candidatesOverlap
<1> QED BY <1>2, <1>3, <1>4, <1>5

\* What the steps of one actor have in common: the actors stay as they are.
Same == UNCHANGED <<up, active, calm>>

\* Recovery ends when nothing of a dead process can land any more.
LEMMA ReconcileInv == ASSUME PickerInv, NEW p \in Pairs, Reconcile(p) PROVE PickerInv'
<1> USE DEF PickerInv
<1>1. /\ Same /\ UNCHANGED <<steps, opening, late, confirmed, ended>>
      /\ unresolved' = unresolved \ {p} /\ waiting' = waiting \ {p}
      /\ reconciled' = reconciled \cup {p}
      /\ ~Opening(p) /\ (p \in unresolved => Quiet(p))
  BY DEF Reconcile, Recovered, Same, venueVars, envVars, OpeningMarked
<1>2. Shapes'
  BY <1>1 DEF Shapes, Same, IsFunction
<1>3. DownIdle' /\ SavedManaged' /\ ConfirmedEmpty' /\ OpeningMarked'
  BY <1>1 DEF DownIdle, SavedManaged, ConfirmedEmpty, OpeningMarked, Same
<1>4. LateMarked'
  BY <1>1 DEF LateMarked, Quiet, Same
<1>5. MarketsApart'
  BY <1>1 DEF MarketsApart, LedgersApart, candidatesOverlap, Same
<1> QED BY <1>2, <1>3, <1>4, <1>5

\* A drain that is confirmed leaves neither steps nor a mark.
LEMMA UnwindInv == ASSUME PickerInv, NEW p \in Pairs, Unwind(p) PROVE PickerInv'
<1> USE DEF PickerInv
<1>1. /\ Same /\ UNCHANGED <<opening, late, ended>> /\ active[p] = "draining"
      /\ steps' = [steps EXCEPT ![p] = <<>>] /\ confirmed' = [confirmed EXCEPT ![p] = TRUE]
      /\ unresolved' = unresolved \ {p} /\ waiting' = waiting \ {p}
      /\ reconciled' = reconciled \cup {p}
      /\ ~Opening(p) /\ (p \in unresolved => Quiet(p))
  BY DEF Unwind, Recovered, Same, envVars
<1>2. Shapes'
  BY <1>1 DEF Shapes, Same, IsFunction
<1>3. \A q \in Pairs : Saved(q)' <=> Saved(q) /\ q # p
  BY <1>1 DEF Shapes, IsFunction
<1>4. DownIdle' /\ SavedManaged' /\ OpeningMarked'
  BY <1>1, <1>3 DEF DownIdle, SavedManaged, OpeningMarked, Same
<1>5. ConfirmedEmpty'
  <2>1. \A q \in Pairs : confirmed'[q] = (q = p \/ confirmed[q])
    BY <1>1 DEF Shapes
  <2> QED BY <2>1, <1>1, <1>3 DEF ConfirmedEmpty, Same
<1>6. LateMarked'
  BY <1>1 DEF LateMarked, Quiet, Same
<1>7. MarketsApart'
  BY <1>1, <1>3 DEF MarketsApart, LedgersApart, candidatesOverlap, Same
<1> QED BY <1>2, <1>4, <1>5, <1>6, <1>7

\* An opening is marked before it is sent.
LEMMA OpenInv == ASSUME PickerInv, NEW p \in Pairs, Open(p) PROVE PickerInv'
<1> USE DEF PickerInv
<1>1. /\ Same /\ UNCHANGED <<steps, late, ended, waiting, reconciled, confirmed>>
      /\ Alive(p) /\ active[p] = "trading" /\ startupRecoveryReady /\ p \in reconciled
      /\ unresolved' = unresolved \cup {p}
  BY DEF Open, Same, pickerVars, venueVars, envVars
<1>2. PICK s : opening' = [opening EXCEPT ![p] = s]
  BY DEF Open
<1>3. /\ IsFunction(opening', Pairs)
      /\ \A q \in Pairs : q # p => opening'[q] = opening[q]
  BY <1>2 DEF Shapes, IsFunction
<1>4. Shapes'
  BY <1>1, <1>3 DEF Shapes, Same, IsFunction
<1>5. DownIdle' /\ SavedManaged' /\ OpeningMarked'
  BY <1>1, <1>3 DEF DownIdle, SavedManaged, OpeningMarked, Same
<1>6. ConfirmedEmpty'
  BY <1>1, <1>3 DEF ConfirmedEmpty, Same
<1>7. LateMarked'
  BY <1>1 DEF LateMarked, Same
<1>8. MarketsApart'
  <2>1. up
    BY <1>1 DEF DownIdle, Shapes
  <2>2. \A q \in Pairs : Saved(q)' => q \in Active
    BY <2>1, <1>1 DEF SavedManaged
  <2> QED BY <2>2, <1>1 DEF MarketsApart, LedgersApart, candidatesOverlap, Same
<1> QED BY <1>4, <1>5, <1>6, <1>7, <1>8

\* Nothing of a dead process can land while an opening is out.
LEMMA FillInv == ASSUME PickerInv, NEW p \in Pairs, Fill(p) PROVE PickerInv'
<1> USE DEF PickerInv
<1>1. /\ Same /\ UNCHANGED <<late, ended, waiting, reconciled, confirmed>>
      /\ Alive(p) /\ Opening(p) /\ startupRecoveryReady
      /\ opening' = [opening EXCEPT ![p] = NoStep]
      /\ unresolved' = unresolved \ {p}
  BY DEF Fill, Same, pickerVars, venueVars, envVars, OpeningMarked
<1>2. PICK ledger : steps' = [steps EXCEPT ![p] = ledger]
  BY DEF Fill
<1>3. /\ IsFunction(steps', Pairs) /\ IsFunction(opening', Pairs)
      /\ \A q \in Pairs : q # p => steps'[q] = steps[q] /\ opening'[q] = opening[q]
      /\ opening'[p] = NoStep
  BY <1>1, <1>2 DEF Shapes, IsFunction
<1>4. Shapes'
  BY <1>1, <1>3 DEF Shapes, Same, IsFunction
<1>5. DownIdle' /\ SavedManaged' /\ OpeningMarked'
  BY <1>1, <1>3 DEF DownIdle, SavedManaged, OpeningMarked, Same
<1>6. ConfirmedEmpty'
  BY <1>1, <1>3 DEF ConfirmedEmpty, Same
<1>7. LateMarked'
  BY <1>1 DEF LateMarked, DownIdle, Shapes, Same
<1>8. MarketsApart'
  <2>1. up
    BY <1>1 DEF DownIdle, Shapes
  <2>2. \A q \in Pairs : Saved(q)' => q \in Active
    BY <2>1, <1>1, <1>3 DEF SavedManaged
  <2> QED BY <2>2, <1>1 DEF MarketsApart, LedgersApart, candidatesOverlap, Same
<1> QED BY <1>4, <1>5, <1>6, <1>7, <1>8

\* A pair that closes steps is not confirmed flat.
LEMMA CloseInv == ASSUME PickerInv, NEW p \in Pairs, Close(p) PROVE PickerInv'
<1> USE DEF PickerInv
<1>1. /\ Same /\ UNCHANGED <<late, ended, waiting, reconciled, confirmed, opening, unresolved>>
      /\ Alive(p) /\ active[p] = "trading"
  BY DEF Close, Same, pickerVars, venueVars, actorVars, envVars
<1>2. PICK ledger : steps' = [steps EXCEPT ![p] = ledger]
  BY DEF Close
<1>3. /\ IsFunction(steps', Pairs)
      /\ \A q \in Pairs : q # p => steps'[q] = steps[q]
  BY <1>2 DEF Shapes, IsFunction
<1>4. Shapes'
  BY <1>1, <1>3 DEF Shapes, Same, IsFunction
<1>5. DownIdle' /\ SavedManaged' /\ OpeningMarked' /\ ConfirmedEmpty' /\ LateMarked'
  BY <1>1, <1>3 DEF DownIdle, SavedManaged, OpeningMarked, ConfirmedEmpty, LateMarked, Same
<1>6. MarketsApart'
  <2>1. up
    BY <1>1 DEF DownIdle, Shapes
  <2>2. \A q \in Pairs : Saved(q)' => q \in Active
    BY <2>1, <1>1, <1>3 DEF SavedManaged
  <2> QED BY <2>2, <1>1 DEF MarketsApart, LedgersApart, candidatesOverlap, Same
<1> QED BY <1>4, <1>5, <1>6

\* An actor that was cancelled had nothing left, and no order out.
LEMMA EndsInv == ASSUME PickerInv, NEW p \in Pairs, ActorEnds(p) PROVE PickerInv'
<1> USE DEF PickerInv
<1>1. /\ Same /\ UNCHANGED <<steps, unresolved, late, waiting, reconciled, confirmed, opening>>
      /\ Alive(p) /\ active[p] = "stopping" /\ ended' = [ended EXCEPT ![p] = "ok"]
  BY DEF ActorEnds, Same, fileVars, pickerVars, venueVars, envVars
<1>2. ended' \in [Pairs -> Ends] /\ \A q \in Pairs : q # p => ended'[q] = ended[q]
  BY <1>1 DEF Shapes, Ends
<1>3. ~Opening(p)
  BY <1>1 DEF ConfirmedEmpty
<1>4. Shapes'
  BY <1>1, <1>2 DEF Shapes, Same, IsFunction
<1>5. DownIdle' /\ SavedManaged' /\ OpeningMarked' /\ ConfirmedEmpty'
  BY <1>1, <1>2, <1>3 DEF DownIdle, SavedManaged, OpeningMarked, ConfirmedEmpty, Same
<1>6. LateMarked'
  BY <1>1, <1>2 DEF LateMarked, Same
<1>7. MarketsApart'
  BY <1>1 DEF MarketsApart, LedgersApart, candidatesOverlap, Same
<1> QED BY <1>4, <1>5, <1>6, <1>7

\* An actor that fails leaves its order behind the mark it wrote.
LEMMA FailsInv == ASSUME PickerInv, NEW p \in Pairs, ActorFails(p) PROVE PickerInv'
<1> USE DEF PickerInv
<1>1. /\ Same /\ UNCHANGED <<steps, unresolved, waiting, reconciled, confirmed>>
      /\ Alive(p) /\ ended' = [ended EXCEPT ![p] = "err"]
      /\ opening' = [opening EXCEPT ![p] = NoStep]
      /\ late' = [m \in Markets |->
           IF Opening(p) /\ m \in Legs(p) THEN late[m] + On(m, p, opening[p]) ELSE late[m]]
  BY DEF ActorFails, Same, fileVars, pickerVars, envVars
<1>2. /\ ended' \in [Pairs -> Ends] /\ ended'[p] = "err"
      /\ \A q \in Pairs : q # p => ended'[q] = ended[q] /\ opening'[q] = opening[q]
      /\ opening'[p] = NoStep /\ IsFunction(opening', Pairs)
  BY <1>1 DEF Shapes, Ends, IsFunction
<1>3. Shapes'
  BY <1>1, <1>2 DEF Shapes, Same, IsFunction
<1>4. DownIdle' /\ SavedManaged' /\ OpeningMarked' /\ ConfirmedEmpty'
  BY <1>1, <1>2 DEF DownIdle, SavedManaged, OpeningMarked, ConfirmedEmpty, Same
<1>5. LateMarked'
  <2> SUFFICES ASSUME NEW m \in Markets, late'[m] # 0
               PROVE  \E q \in unresolved : m \in Legs(q) /\
                        (up => q \in Active /\ (q \in waiting \/ ended'[q] = "err"))
    BY <1>1 DEF LateMarked, Same
  <2>1. CASE Opening(p) /\ m \in Legs(p)
    BY <2>1, <1>1, <1>2 DEF OpeningMarked
  <2>2. CASE ~(Opening(p) /\ m \in Legs(p))
    BY <2>2, <1>1, <1>2 DEF LateMarked, Shapes
  <2> QED BY <2>1, <2>2
<1>6. MarketsApart'
  BY <1>1 DEF MarketsApart, LedgersApart, candidatesOverlap, Same
<1> QED BY <1>3, <1>4, <1>5, <1>6

\* The environment and the failure rate touch nothing the invariant speaks of, but
\* for a late order that lands.
LEMMA OutsideInv ==
  ASSUME PickerInv,
         \/ \E p \in Pairs : ChangeRate(p)
         \/ \E m \in Markets : Land(m)
         \/ External \/ CalmDown \/ UNCHANGED vars
  PROVE  PickerInv'
<1> USE DEF PickerInv
<1>1. /\ UNCHANGED <<up, active, steps, unresolved, ended, waiting, reconciled, confirmed, opening>>
      /\ calm' = calm \/ calm' \in [Pairs -> Scores]
      /\ late' = late \/ \E m \in Markets : late' = [late EXCEPT ![m] = 0]
  BY DEF ChangeRate, Land, External, CalmDown, vars, fileVars, venueVars, pickerVars, actorVars, envVars
<1>2. IsFunction(late', Markets) /\ \A m \in Markets : late'[m] = late[m] \/ late'[m] = 0
  BY <1>1 DEF Shapes, IsFunction
<1>3. Shapes'
  BY <1>1, <1>2 DEF Shapes, IsFunction
<1>4. DownIdle' /\ SavedManaged' /\ OpeningMarked' /\ ConfirmedEmpty'
  BY <1>1 DEF DownIdle, SavedManaged, OpeningMarked, ConfirmedEmpty
<1>5. LateMarked'
  BY <1>1, <1>2 DEF LateMarked
<1>6. MarketsApart'
  BY <1>1 DEF MarketsApart, LedgersApart, candidatesOverlap
<1> QED BY <1>3, <1>4, <1>5, <1>6

LEMMA PickerInvariant == Spec => []PickerInv
<1>1. Init => PickerInv
  BY InitInv
<1>2. ASSUME PickerInv, [Next]_vars PROVE PickerInv'
  <2>1. CASE Restore
    BY <1>2, <2>1, RestoreInv
  <2>2. CASE Poll
    BY <1>2, <2>2, PollInv, PickerAssumption
  <2>3. CASE PickerFails \/ Stop
    BY <1>2, <2>3, DownInv DEF PickerFails, Stop
  <2>4. CASE \E p \in Pairs : Reconcile(p) \/ Unwind(p) \/ Open(p) \/ Fill(p) \/ Close(p)
                                \/ ActorEnds(p) \/ ActorFails(p)
    BY <1>2, <2>4, ReconcileInv, UnwindInv, OpenInv, FillInv, CloseInv, EndsInv, FailsInv
  <2>5. CASE \/ \E p \in Pairs : ChangeRate(p)
             \/ \E m \in Markets : Land(m)
             \/ External \/ CalmDown \/ UNCHANGED vars
    BY <1>2, <2>5, OutsideInv
  <2> QED BY <1>2, <2>1, <2>2, <2>3, <2>4, <2>5 DEF Next
<1> QED BY <1>1, <1>2, PTL DEF Spec

----------------------------------------------------------------------------
(* Sums over ledgers *)

LEMMA AddNat == \A a, b \in Nat : a + b \in Nat /\ a <= b + a /\ a + b <= a + b
OBVIOUS

LEMMA AtMostTransitive == \A a, b, c \in Nat : a <= b /\ b <= c => a <= c
OBVIOUS

LEMMA TimesMonotone ==
  ASSUME NEW a \in Nat, NEW b \in Nat, NEW c \in Nat, a <= b
  PROVE  a * c <= b * c /\ a * c \in Nat
<1>1. PICK d \in Nat : b = a + d
  <2>1. b - a \in Nat /\ b = a + (b - a)
    OBVIOUS
  <2> QED BY <2>1
<1>2. b * c = a * c + d * c /\ a * c \in Nat /\ d * c \in Nat
  BY <1>1
<1> QED BY <1>2

LEMMA StepAmounts ==
  ASSUME PickerAssumption, NEW s \in Step \cup {NoStep}
  PROVE  /\ OnLeft(s) \in Nat /\ OnRight(s) \in Nat
         /\ \A w \in Ways : Value(w, s) \in Nat
         /\ Value("left", s) = OnLeft(s) /\ Value("right", s) = OnRight(s)
         /\ PerStep <= Value("reserve", s)
         /\ OnLeft(s) <= PerStep /\ OnRight(s) <= PerStep => Value("reserve", s) = PerStep
         /\ \A w \in Ways : Value(w, s) <= Value("reserve", s)
         /\ \A p \in Pairs : On(Left[p], p, s) = OnLeft(s) /\ On(Right[p], p, s) = OnRight(s)
<1>1. s.qty \in Nat /\ s.openL \in Nat /\ s.openR \in Nat
  BY DEF Step, NoStep
<1>2. OnLeft(s) \in Nat /\ OnRight(s) \in Nat
  <2>1. \A a, b \in Nat : a * b \in Nat
    OBVIOUS
  <2> QED BY <1>1, <2>1 DEF OnLeft, OnRight
<1>3. PerStep \in Nat /\ \A p \in Pairs : Left[p] # Right[p]
  BY DEF PickerAssumption
<1> QED BY <1>2, <1>3 DEF Value, Ways, Notional, Larger, On

\* A part of a step is on its markets what it is a part of, or less.
LEMMA PartOfStep ==
  ASSUME PickerAssumption, NEW s \in Step, NEW q \in Nat, q <= s.qty
  PROVE  \A w \in Ways : Value(w, [s EXCEPT !.qty = q]) <= Value(w, s)
<1> DEFINE r == [s EXCEPT !.qty = q]
<1>1. r.qty = q /\ r.openL = s.openL /\ r.openR = s.openR
  BY DEF Step
<1>2. s.qty \in Nat /\ s.openL \in Nat /\ s.openR \in Nat
  BY DEF Step
<1>3. OnLeft(r) <= OnLeft(s) /\ OnRight(r) <= OnRight(s) /\ OnLeft(r) \in Nat /\ OnRight(r) \in Nat
  <2> HIDE DEF r
  <2> QED BY <1>1, <1>2, TimesMonotone DEF OnLeft, OnRight
<1>4. OnLeft(s) \in Nat /\ OnRight(s) \in Nat /\ PerStep \in Nat
  BY StepAmounts DEF PickerAssumption
<1> HIDE DEF r
<1>5. \A w \in Ways : Value(w, r) <= Value(w, s)
  BY <1>3, <1>4 DEF Value, Ways, Notional, Larger
<1> QED BY <1>5 DEF r

LEMMA Terms ==
  ASSUME PickerAssumption, NEW t \in Seq(Step), NEW w \in Ways
  PROVE  /\ IsFiniteSet(DOMAIN t) /\ DOMAIN t = 1..Len(t) /\ Len(t) \in Nat
         /\ \A i \in DOMAIN t : [j \in DOMAIN t |-> Value(w, t[j])][i] = Value(w, t[i])
         /\ \A i \in DOMAIN t : t[i] \in Step /\ Value(w, t[i]) \in Nat
<1>1. DOMAIN t = 1..Len(t) /\ Len(t) \in Nat
  OBVIOUS
<1>2. IsFiniteSet(1..Len(t))
  <2>1. PICK n \in Nat : n = Len(t)
    BY <1>1
  <2>2. 1 \in Int /\ n \in Int
    OBVIOUS
  <2>3. IsFiniteSet(1..n)
    BY <2>2, FS_Interval, Zenon
  <2> QED BY <2>1, <2>3
<1>3. \A i \in DOMAIN t : t[i] \in Step
  BY <1>1
<1>4. \A i \in DOMAIN t : Value(w, t[i]) \in Nat
  BY <1>3, StepAmounts
<1> QED BY <1>1, <1>2, <1>3, <1>4

LEMMA LedgerNat ==
  ASSUME PickerAssumption, NEW t \in Seq(Step), NEW w \in Ways
  PROVE  /\ Ledger(w, t) \in Nat
         /\ t = <<>> => Ledger(w, t) = 0
         /\ Ledger(w, t) <= Ledger("reserve", t)
<1> DEFINE f == [j \in DOMAIN t |-> Value(w, t[j])]
           g == [j \in DOMAIN t |-> Value("reserve", t[j])]
<1>1. /\ IsFiniteSet(DOMAIN t) /\ \A i \in DOMAIN t : f[i] \in Nat /\ g[i] \in Nat /\ f[i] <= g[i]
      /\ DOMAIN t \in SUBSET DOMAIN t
  <2>1. "reserve" \in Ways
    BY DEF Ways
  <2>2. \A i \in DOMAIN t : t[i] \in Step
    BY Terms
  <2>3. \A i \in DOMAIN t : Value(w, t[i]) <= Value("reserve", t[i])
    BY <2>2, StepAmounts
  <2> QED BY Terms, <2>1, <2>3
<1>2. Ledger(w, t) = SumOf(f, DOMAIN t) /\ Ledger("reserve", t) = SumOf(g, DOMAIN t)
  BY DEF Ledger
<1>3. t = <<>> => DOMAIN t = {}
  OBVIOUS
<1> HIDE DEF f, g
<1>4. SumOf(f, DOMAIN t) \in Nat /\ (DOMAIN t = {} => SumOf(f, DOMAIN t) = 0)
  BY <1>1, SumNat, SumEquations
<1>5. SumOf(f, DOMAIN t) <= SumOf(g, DOMAIN t)
  BY <1>1, SumMonotone
<1> QED BY <1>2, <1>3, <1>4, <1>5

LEMMA LedgerAppend ==
  ASSUME PickerAssumption, NEW t \in Seq(Step), NEW s \in Step, NEW w \in Ways
  PROVE  Ledger(w, Append(t, s)) = Ledger(w, t) + Value(w, s)
<1> DEFINE u == Append(t, s)
           n == Len(t)
           f == [j \in DOMAIN t |-> Value(w, t[j])]
           g == [j \in DOMAIN u |-> Value(w, u[j])]
<1>1. /\ u \in Seq(Step) /\ n \in Nat /\ DOMAIN t = 1..n /\ DOMAIN u = (1..n) \cup {n + 1}
      /\ n + 1 \notin 1..n /\ u[n + 1] = s
  OBVIOUS
<1>2. \A i \in DOMAIN t : u[i] = t[i]
  OBVIOUS
<1>3. IsFiniteSet(1..n) /\ \A i \in 1..n : f[i] \in Nat
  BY <1>1, Terms
<1>4. \A i \in DOMAIN u : g[i] \in Nat
  <2> HIDE DEF u
  <2> QED BY <1>1, Terms
<1>5. \A i \in 1..n : g[i] = f[i]
  BY <1>1, <1>2
<1>6. g[n + 1] = Value(w, s)
  BY <1>1
<1>7. Ledger(w, u) = SumOf(g, (1..n) \cup {n + 1}) /\ Ledger(w, t) = SumOf(f, 1..n)
  BY <1>1 DEF Ledger
<1> HIDE DEF f, g, u, n
<1>8. SumOf(g, (1..n) \cup {n + 1}) = g[n + 1] + SumOf(g, 1..n)
  <2>1. \A i \in (1..n) \cup {n + 1} : g[i] \in Int
    BY <1>1, <1>4
  <2> QED BY <2>1, <1>1, <1>3, SumAdd
<1>9. SumOf(g, 1..n) = SumOf(f, 1..n)
  <2>1. \A i \in 1..n : f[i] \in Int /\ g[i] = f[i]
    BY <1>3, <1>5
  <2> QED BY <2>1, <1>3, SumCongruent
<1>10. SumOf(f, 1..n) \in Nat /\ Value(w, s) \in Nat
  BY <1>3, SumNat, StepAmounts
<1> QED BY <1>6, <1>7, <1>8, <1>9, <1>10 DEF u

LEMMA LedgerReplace ==
  ASSUME PickerAssumption, NEW t \in Seq(Step), NEW i \in DOMAIN t, NEW s \in Step, NEW w \in Ways
  PROVE  Ledger(w, [t EXCEPT ![i] = s]) = Ledger(w, t) - Value(w, t[i]) + Value(w, s)
<1> DEFINE u == [t EXCEPT ![i] = s]
           D == DOMAIN t
           f == [j \in D |-> Value(w, t[j])]
           g == [j \in D |-> Value(w, u[j])]
<1>1. u \in Seq(Step) /\ DOMAIN u = D /\ u[i] = s /\ \A j \in D \ {i} : u[j] = t[j]
  OBVIOUS
<1>2. IsFiniteSet(D) /\ IsFiniteSet(D \ {i}) /\ i \in D
  BY Terms, FS_RemoveElement
<1>3. \A j \in D : f[j] \in Nat
  BY Terms
<1>4. \A j \in D : g[j] \in Nat
  <2> HIDE DEF u
  <2> QED BY <1>1, Terms
<1>5. \A j \in D \ {i} : g[j] = f[j]
  BY <1>1
<1>6. g[i] = Value(w, s) /\ f[i] = Value(w, t[i])
  BY <1>1
<1>7. Ledger(w, u) = SumOf(g, D) /\ Ledger(w, t) = SumOf(f, D)
  BY <1>1 DEF Ledger
<1> HIDE DEF f, g, u, D
<1>8. SumOf(g, D) = g[i] + SumOf(g, D \ {i}) /\ SumOf(f, D) = f[i] + SumOf(f, D \ {i})
  <2>1. \A j \in D : f[j] \in Int /\ g[j] \in Int
    BY <1>3, <1>4
  <2> QED BY <1>2, <2>1, SumRemove
<1>9. SumOf(g, D \ {i}) = SumOf(f, D \ {i}) /\ SumOf(f, D \ {i}) \in Nat
  BY <1>2, <1>3, <1>5, SumCongruent, SumNat
<1>10. f[i] \in Nat /\ g[i] \in Nat
  BY <1>2, <1>3, <1>4
<1>11. Ledger(w, u) = Ledger(w, t) - Value(w, t[i]) + Value(w, s)
  BY <1>6, <1>7, <1>8, <1>9, <1>10
<1> QED BY <1>11 DEF u

\* Without the step at i.
LEMMA RemovedStep ==
  ASSUME NEW n \in Nat, NEW t \in Seq(Step), Len(t) = n + 1, NEW i \in 1..(n + 1)
  PROVE  /\ RemoveAt(t, i) \in Seq(Step) /\ Len(RemoveAt(t, i)) = n
         /\ \A j \in 1..n : RemoveAt(t, i)[j] = IF j < i THEN t[j] ELSE t[j + 1]
<1>1. PICK x : x = SubSeq(t, 1, i - 1)
  OBVIOUS
<1>2. PICK y : y = SubSeq(t, i + 1, n + 1)
  OBVIOUS
<1>3. RemoveAt(t, i) = x \o y
  BY <1>1, <1>2 DEF RemoveAt
<1>4. x \in Seq(Step) /\ Len(x) = i - 1 /\ \A j \in 1..(i - 1) : x[j] = t[j]
  BY <1>1
<1>5. y \in Seq(Step) /\ Len(y) = n + 1 - i
  BY <1>2
<1>6. \A j \in 1..(n + 1 - i) : y[j] = t[i + j]
  BY <1>2
<1>7. x \o y \in Seq(Step) /\ Len(x \o y) = n
  BY <1>4, <1>5
<1>8. \A j \in 1..n : (x \o y)[j] = IF j <= i - 1 THEN x[j] ELSE y[j - (i - 1)]
  BY <1>4, <1>5
<1>9. ASSUME NEW j \in 1..n PROVE (x \o y)[j] = IF j < i THEN t[j] ELSE t[j + 1]
  <2>1. CASE j < i
    <3>1. j <= i - 1 /\ j \in 1..(i - 1)
      BY <2>1
    <3> QED BY <3>1, <2>1, <1>4, <1>8
  <2>2. CASE ~(j < i)
    <3>1. j - (i - 1) \in 1..(n + 1 - i) /\ i + (j - (i - 1)) = j + 1 /\ ~(j <= i - 1)
      BY <2>2
    <3>2. y[j - (i - 1)] = t[j + 1]
      BY <3>1, <1>6
    <3> QED BY <3>1, <3>2, <2>2, <1>8
  <2> QED BY <2>1, <2>2
<1> QED BY <1>3, <1>7, <1>9

LEMMA LedgerRemove ==
  ASSUME PickerAssumption, NEW t \in Seq(Step), NEW i \in DOMAIN t, NEW w \in Ways
  PROVE  /\ RemoveAt(t, i) \in Seq(Step) /\ Len(RemoveAt(t, i)) = Len(t) - 1
         /\ \A j \in DOMAIN RemoveAt(t, i) : \E k \in DOMAIN t : RemoveAt(t, i)[j] = t[k]
         /\ Ledger(w, RemoveAt(t, i)) = Ledger(w, t) - Value(w, t[i])
<1>1. PICK n \in Nat : Len(t) = n + 1 /\ DOMAIN t = 1..(n + 1)
  <2>1. Len(t) - 1 \in Nat /\ Len(t) = (Len(t) - 1) + 1 /\ DOMAIN t = 1..Len(t)
    OBVIOUS
  <2> QED BY <2>1
<1>2. PICK u : u = RemoveAt(t, i)
  OBVIOUS
<1>3. /\ u \in Seq(Step) /\ Len(u) = n /\ DOMAIN u = 1..n
      /\ \A j \in 1..n : u[j] = IF j < i THEN t[j] ELSE t[j + 1]
  <2>1. i \in 1..(n + 1) /\ Len(t) = n + 1
    BY <1>1
  <2>2. /\ RemoveAt(t, i) \in Seq(Step) /\ Len(RemoveAt(t, i)) = n
        /\ \A j \in 1..n : RemoveAt(t, i)[j] = IF j < i THEN t[j] ELSE t[j + 1]
    BY <2>1, RemovedStep
  <2>3. /\ u \in Seq(Step) /\ Len(u) = n
        /\ \A j \in 1..n : u[j] = IF j < i THEN t[j] ELSE t[j + 1]
    BY <1>2, <2>2, Zenon
  <2>4. DOMAIN u = 1..n
    BY <2>3
  <2> QED BY <2>3, <2>4
<1>4. \A j \in 1..n : \E k \in 1..(n + 1) : u[j] = t[k]
  <2>1. \A j \in 1..n : j \in 1..(n + 1) /\ j + 1 \in 1..(n + 1)
    OBVIOUS
  <2> QED BY <1>3, <2>1
<1> DEFINE f == [j \in DOMAIN t |-> Value(w, t[j])]
           g == [j \in DOMAIN u |-> Value(w, u[j])]
<1>5. \A j \in 1..(n + 1) : f[j] \in Int
  BY <1>1, Terms
<1>6. \A j \in 1..n : g[j] = IF j < i THEN f[j] ELSE f[j + 1]
  <2>1. \A j \in 1..n : j \in 1..(n + 1) /\ j + 1 \in 1..(n + 1)
    OBVIOUS
  <2> QED BY <1>1, <1>3, <2>1
<1>7. /\ Ledger(w, u) = SumOf(g, 1..n) /\ Ledger(w, t) = SumOf(f, 1..(n + 1))
      /\ f[i] = Value(w, t[i])
  BY <1>1, <1>3 DEF Ledger
<1>8. SumOf(f, 1..(n + 1)) = f[i] + SumOf(g, 1..n)
  <2> HIDE DEF f, g
  <2>1. Without(f, g, n, i)
    BY <1>1, <1>5, <1>6 DEF Without
  <2> QED BY <2>1, SumWithout
<1>9. Ledger(w, u) = Ledger(w, t) - Value(w, t[i])
  <2>1. "reserve" \in Ways /\ Ledger(w, u) \in Nat /\ Value(w, t[i]) \in Nat
    BY <1>3, LedgerNat, Terms DEF Ways
  <2> QED BY <2>1, <1>7, <1>8
<1>10. Len(u) = Len(t) - 1
  BY <1>1, <1>3
<1>11. \A j \in DOMAIN u : \E k \in DOMAIN t : u[j] = t[k]
  BY <1>1, <1>3, <1>4
<1> QED BY <1>2, <1>3, <1>9, <1>10, <1>11, Zenon

----------------------------------------------------------------------------
(* What is kept for a ledger *)

\* The side of pair p a market is on.
Way(m, p) == IF m = Left[p] THEN "left" ELSE "right"
Spare(n) == Larger(MaxSteps - n, 0) * PerStep
Kept(t) == Ledger("reserve", t) + Spare(Len(t))

LEMMA Sizes ==
  ASSUME PickerAssumption
  PROVE  /\ MaxSteps \in Nat /\ MaxSteps > 0 /\ PerStep \in Nat /\ PerStep > 0 /\ Cap \in Nat
         /\ "reserve" \in Ways /\ \A m, p : Way(m, p) \in Ways
BY DEF PickerAssumption, Ways, Way

LEMMA SpareProduct ==
  ASSUME NEW S \in Nat, NEW P \in Nat, NEW n \in Nat
  PROVE  /\ Larger(S - n, 0) * P \in Nat
         /\ n < S => Larger(S - n, 0) * P = Larger(S - (n + 1), 0) * P + P
         /\ ~(n < S) => Larger(S - n, 0) * P = 0
         /\ Larger(S - 0, 0) * P = P * S
<1>1. \A k \in Nat : k * P \in Nat /\ (k + 1) * P = k * P + P /\ 0 * P = 0 /\ k * P = P * k
  OBVIOUS
<1>2. Larger(S - n, 0) \in Nat /\ Larger(S - 0, 0) = S
  BY DEF Larger
<1>3. CASE n < S
  <2>1. PICK k \in Nat : S = n + 1 + k
    <3>1. S - (n + 1) \in Nat /\ S = n + 1 + (S - (n + 1))
      BY <1>3
    <3> QED BY <3>1
  <2>2. Larger(S - n, 0) = k + 1 /\ Larger(S - (n + 1), 0) = k
    BY <2>1 DEF Larger
  <2> QED BY <1>1, <1>2, <1>3, <2>2
<1>4. CASE ~(n < S)
  <2>1. Larger(S - n, 0) = 0
    BY <1>4 DEF Larger
  <2> QED BY <1>1, <1>2, <1>4, <2>1
<1> QED BY <1>3, <1>4

LEMMA Spares ==
  ASSUME PickerAssumption, NEW n \in Nat
  PROVE  /\ Spare(n) \in Nat
         /\ n < MaxSteps => Spare(n) = Spare(n + 1) + PerStep
         /\ Spare(n) <= Spare(n + 1) + PerStep
         /\ Spare(0) = PerStep * MaxSteps /\ Spare(0) \in Nat
<1>1. PICK S \in Nat, P \in Nat : S = MaxSteps /\ P = PerStep
  BY Sizes
<1>2. /\ \A k \in Nat : Spare(k) = Larger(S - k, 0) * P
      /\ n + 1 \in Nat /\ 0 \in Nat
  BY <1>1 DEF Spare
<1>3. Spare(n) \in Nat /\ Spare(n + 1) \in Nat /\ Spare(0) \in Nat
  <2>1. \A k \in Nat : Spare(k) \in Nat
    <3> TAKE k \in Nat
    <3>1. Larger(S - k, 0) * P \in Nat
      BY SpareProduct
    <3> QED BY <3>1, <1>2
  <2> QED BY <2>1, <1>2
<1>4. n < S => Spare(n) = Spare(n + 1) + P
  BY <1>2, SpareProduct
<1>5. ~(n < S) => Spare(n) = 0
  BY <1>2, SpareProduct
<1>6. Spare(0) = P * S
  BY <1>2, SpareProduct
<1>7. Spare(n) <= Spare(n + 1) + P
  BY <1>3, <1>4, <1>5
<1> QED BY <1>1, <1>3, <1>4, <1>6, <1>7

LEMMA KeptNat ==
  ASSUME PickerAssumption, NEW t \in Seq(Step)
  PROVE  Kept(t) \in Nat /\ Ledger("reserve", t) \in Nat /\ Spare(Len(t)) \in Nat
<1>1. Len(t) \in Nat
  OBVIOUS
<1>2. Ledger("reserve", t) \in Nat /\ Spare(Len(t)) \in Nat
  BY <1>1, Sizes, LedgerNat, Spares
<1> QED BY <1>2 DEF Kept

LEMMA KeptEmpty ==
  ASSUME PickerAssumption
  PROVE  Kept(<<>>) = PerStep * MaxSteps /\ Kept(<<>>) \in Nat
<1>1. <<>> \in Seq(Step) /\ Len(<<>>) = 0
  OBVIOUS
<1>2. Ledger("reserve", <<>>) = 0
  BY <1>1, Sizes, LedgerNat
<1>3. Spare(0) = PerStep * MaxSteps /\ Spare(0) \in Nat
  BY Spares
<1> QED BY <1>1, <1>2, <1>3 DEF Kept

\* A ledger with room for a step has what it holds and another step kept for it.
LEMMA KeptRoom ==
  ASSUME PickerAssumption, NEW t \in Seq(Step), NEW w \in Ways
  PROVE  /\ Ledger(w, t) <= Kept(t)
         /\ Len(t) < MaxSteps => Ledger(w, t) + PerStep <= Kept(t)
<1>1. Len(t) \in Nat
  OBVIOUS
<1>2. Ledger(w, t) <= Ledger("reserve", t) /\ Ledger(w, t) \in Nat
  BY LedgerNat
<1>3. Ledger("reserve", t) \in Nat /\ Spare(Len(t)) \in Nat /\ Spare(Len(t) + 1) \in Nat /\ PerStep \in Nat
  <2>1. Len(t) + 1 \in Nat
    BY <1>1
  <2>2. Spare(Len(t) + 1) \in Nat
    BY <2>1, Spares
  <2> QED BY <2>2, KeptNat, Sizes
<1>4. Len(t) < MaxSteps => Spare(Len(t)) = Spare(Len(t) + 1) + PerStep
  BY <1>1, Spares
<1>5. PICK l \in Nat, r \in Nat, x \in Nat, y \in Nat, n \in Nat :
        /\ l = Ledger(w, t) /\ r = Ledger("reserve", t) /\ x = Spare(Len(t)) /\ y = Spare(Len(t) + 1)
        /\ n = PerStep
  BY <1>2, <1>3
<1>6. l <= r + x /\ (x = y + n => l + n <= r + x)
  <2>1. l <= r
    BY <1>2, <1>5
  <2> QED BY <2>1
<1>7. Kept(t) = r + x
  BY <1>5 DEF Kept
<1> QED BY <1>4, <1>5, <1>6, <1>7

\* A new step takes no more than what was kept for it.
LEMMA KeptAppend ==
  ASSUME PickerAssumption, NEW t \in Seq(Step), NEW s \in Step,
         Len(t) < MaxSteps, OnLeft(s) <= PerStep, OnRight(s) <= PerStep
  PROVE  Append(t, s) \in Seq(Step) /\ Kept(Append(t, s)) <= Kept(t)
<1>1. PICK n \in Nat : Len(t) = n
  OBVIOUS
<1>2. PICK u : u = Append(t, s)
  OBVIOUS
<1>3. u \in Seq(Step) /\ Len(u) = n + 1
  BY <1>1, <1>2
<1>4. Spare(n) = Spare(n + 1) + PerStep /\ Spare(n + 1) \in Nat /\ PerStep \in Nat
  <2>1. n + 1 \in Nat
    OBVIOUS
  <2> QED BY <1>1, <2>1, Spares, Sizes
<1>5. Ledger("reserve", u) = Ledger("reserve", t) + PerStep /\ Ledger("reserve", t) \in Nat
  <2>1. Value("reserve", s) = PerStep
    BY StepAmounts
  <2> QED BY <1>2, <2>1, Sizes, LedgerAppend, LedgerNat
<1>6. Kept(u) = Ledger("reserve", u) + Spare(n + 1) /\ Kept(t) = Ledger("reserve", t) + Spare(n)
  BY <1>1, <1>3 DEF Kept
<1>7. Kept(u) <= Kept(t)
  BY <1>4, <1>5, <1>6
<1> QED BY <1>2, <1>3, <1>7

\* Neither does a step of which a part remains, nor one that is gone.
PartLeft(t, i, q) == [t EXCEPT ![i] = [t[i] EXCEPT !.qty = q]]

LEMMA KeptReplace ==
  ASSUME PickerAssumption, NEW t \in Seq(Step), NEW i \in DOMAIN t, NEW q \in Nat, q > 0, q <= t[i].qty
  PROVE  /\ PartLeft(t, i, q) \in Seq(Step) /\ Kept(PartLeft(t, i, q)) <= Kept(t)
         /\ \A w \in Ways : Ledger(w, PartLeft(t, i, q)) <= Ledger(w, t)
         /\ DOMAIN PartLeft(t, i, q) = DOMAIN t
         /\ \A j \in DOMAIN t : /\ PartLeft(t, i, q)[j].openL = t[j].openL
                                /\ PartLeft(t, i, q)[j].openR = t[j].openR
<1>1. PICK s : s = t[i]
  OBVIOUS
<1>2. PICK r : r = [s EXCEPT !.qty = q]
  OBVIOUS
<1>3. s \in Step /\ r \in Step /\ r.openL = s.openL /\ r.openR = s.openR
  <2>1. s \in Step /\ q \in Nat \ {0}
    BY <1>1
  <2> QED BY <1>2, <2>1 DEF Step
<1>4. PICK u : u = [t EXCEPT ![i] = r]
  OBVIOUS
<1>5. u \in Seq(Step) /\ Len(u) = Len(t) /\ DOMAIN u = DOMAIN t
  BY <1>3, <1>4
<1>6. \A w \in Ways : Value(w, r) <= Value(w, s) /\ Value(w, r) \in Nat /\ Value(w, s) \in Nat
  BY <1>1, <1>2, <1>3, PartOfStep, StepAmounts
<1>7. \A w \in Ways : Ledger(w, u) = Ledger(w, t) - Value(w, s) + Value(w, r) /\ Ledger(w, t) \in Nat
  <2> TAKE w \in Ways
  <2>1. Ledger(w, u) = Ledger(w, t) - Value(w, t[i]) + Value(w, r)
    BY <1>3, <1>4, LedgerReplace
  <2> QED BY <1>1, <2>1, LedgerNat
<1>8. \A w \in Ways : Ledger(w, u) <= Ledger(w, t)
  <2> TAKE w \in Ways
  <2>1. PICK a, b, c : a = Value(w, r) /\ b = Value(w, s) /\ c = Ledger(w, t)
    OBVIOUS
  <2>2. a \in Nat /\ b \in Nat /\ c \in Nat /\ a <= b /\ Ledger(w, u) = c - b + a
    BY <2>1, <1>6, <1>7
  <2> QED BY <2>1, <2>2
<1>9. Kept(u) <= Kept(t)
  <2>1. Ledger("reserve", u) <= Ledger("reserve", t)
    BY <1>8, Sizes
  <2>2. Ledger("reserve", u) \in Nat /\ Ledger("reserve", t) \in Nat /\ Spare(Len(t)) \in Nat
    BY <1>5, KeptNat
  <2> QED BY <2>1, <2>2, <1>5 DEF Kept
<1>10. \A j \in DOMAIN u : u[j].openL = t[j].openL /\ u[j].openR = t[j].openR
  BY <1>1, <1>3, <1>4, <1>5
<1>11. PartLeft(t, i, q) = u
  BY <1>1, <1>2, <1>4 DEF PartLeft
<1>12. \A j \in DOMAIN t : u[j].openL = t[j].openL /\ u[j].openR = t[j].openR
  BY <1>5, <1>10
<1> QED BY <1>5, <1>8, <1>9, <1>11, <1>12, Zenon

LEMMA KeptRemove ==
  ASSUME PickerAssumption, NEW t \in Seq(Step), NEW i \in DOMAIN t
  PROVE  LET u == RemoveAt(t, i)
         IN  /\ u \in Seq(Step) /\ Kept(u) <= Kept(t)
             /\ \A w \in Ways : Ledger(w, u) <= Ledger(w, t)
             /\ \A j \in DOMAIN u : \E k \in DOMAIN t : u[j] = t[k]
<1>1. PICK u : u = RemoveAt(t, i)
  OBVIOUS
<1>2. PICK n \in Nat : Len(t) = n + 1
  <2>1. Len(t) - 1 \in Nat /\ Len(t) = (Len(t) - 1) + 1
    OBVIOUS
  <2> QED BY <2>1
<1>3. u \in Seq(Step) /\ Len(u) = n /\ \A j \in DOMAIN u : \E k \in DOMAIN t : u[j] = t[k]
  <2>0. /\ RemoveAt(t, i) \in Seq(Step) /\ Len(RemoveAt(t, i)) = Len(t) - 1
        /\ \A j \in DOMAIN RemoveAt(t, i) : \E k \in DOMAIN t : RemoveAt(t, i)[j] = t[k]
    BY Sizes, LedgerRemove
  <2>1. /\ u \in Seq(Step) /\ Len(u) = Len(t) - 1
        /\ \A j \in DOMAIN u : \E k \in DOMAIN t : u[j] = t[k]
    BY <2>0, <1>1, Zenon
  <2> QED BY <1>2, <2>1
<1>4. \A w \in Ways : Ledger(w, u) = Ledger(w, t) - Value(w, t[i])
  BY <1>1, LedgerRemove
<1>5. t[i] \in Step /\ \A w \in Ways : Ledger(w, t) \in Nat /\ Value(w, t[i]) \in Nat /\ Ledger(w, u) \in Nat
  BY <1>3, LedgerNat, Terms, Sizes
<1>6. \A w \in Ways : Ledger(w, u) <= Ledger(w, t)
  BY <1>4, <1>5
<1>7. PerStep <= Value("reserve", t[i]) /\ PerStep \in Nat
  BY <1>5, StepAmounts, Sizes
<1>8. Spare(n) <= Spare(n + 1) + PerStep /\ Spare(n) \in Nat /\ Spare(n + 1) \in Nat
  <2>1. n + 1 \in Nat
    OBVIOUS
  <2> QED BY <2>1, Spares
<1>9. Kept(u) <= Kept(t)
  <2>1. Kept(u) = Ledger("reserve", u) + Spare(n) /\ Kept(t) = Ledger("reserve", t) + Spare(n + 1)
    BY <1>2, <1>3 DEF Kept
  <2>2. /\ Ledger("reserve", u) = Ledger("reserve", t) - Value("reserve", t[i])
        /\ Ledger("reserve", t) \in Nat /\ Value("reserve", t[i]) \in Nat
    BY <1>4, <1>5, Sizes
  <2>3. PICK a \in Nat, y \in Nat, v \in Nat, k \in Nat, l \in Nat, p \in Nat :
          /\ a = Ledger("reserve", u) /\ y = Ledger("reserve", t) /\ v = Value("reserve", t[i])
          /\ k = Spare(n) /\ l = Spare(n + 1) /\ p = PerStep
    BY <1>5, <1>7, <1>8, Sizes
  <2>4. a = y - v /\ p <= v /\ k <= l + p
    BY <2>2, <2>3, <1>7, <1>8
  <2>5. a + k <= y + l
    BY <2>4
  <2> QED BY <2>1, <2>3, <2>5
<1> QED BY <1>1, <1>3, <1>6, <1>9

----------------------------------------------------------------------------
(* What the markets and the reservations show of the ledgers *)

LEMMA OnWay ==
  ASSUME NEW m, NEW p, NEW s
  PROVE  On(m, p, s) = Value(Way(m, p), s)
BY DEF On, Value, Way

LEMMA LedgerViews ==
  ASSUME PickerAssumption, NEW p \in Pairs
  PROVE  /\ \A m : Booked(m, p) = Ledger(Way(m, p), steps[p])
         /\ \A m : Booked(m, p)' = Ledger(Way(m, p), steps'[p])
         /\ Reserved(p) = Kept(steps[p])
         /\ Reserved(p)' = Kept(steps'[p])
         /\ LedgerUsed(p) = Larger(Ledger("left", steps[p]), Ledger("right", steps[p]))
         /\ Way(Left[p], p) = "left" /\ Way(Right[p], p) = "right"
<1>1. ASSUME NEW t, NEW m
      PROVE  SumOf([i \in DOMAIN t |-> On(m, p, t[i])], DOMAIN t) = Ledger(Way(m, p), t)
  <2>1. [i \in DOMAIN t |-> On(m, p, t[i])] = [i \in DOMAIN t |-> Value(Way(m, p), t[i])]
    BY OnWay
  <2> QED BY <2>1 DEF Ledger
<1>2. /\ \A m : Booked(m, p) = Ledger(Way(m, p), steps[p])
      /\ \A m : Booked(m, p)' = Ledger(Way(m, p), steps'[p])
  BY <1>1 DEF Booked, Total
<1>3. \A t : SumOf([i \in DOMAIN t |-> Larger(PerStep, Notional(t[i]))], DOMAIN t) = Ledger("reserve", t)
  BY DEF Ledger, Value
<1>4. Reserved(p) = Kept(steps[p]) /\ Reserved(p)' = Kept(steps'[p])
  BY <1>3 DEF Reserved, Total, Kept, Spare
<1>5. \A t : /\ SumOf([i \in DOMAIN t |-> OnLeft(t[i])], DOMAIN t) = Ledger("left", t)
            /\ SumOf([i \in DOMAIN t |-> OnRight(t[i])], DOMAIN t) = Ledger("right", t)
  BY DEF Ledger, Value
<1>6. LedgerUsed(p) = Larger(Ledger("left", steps[p]), Ledger("right", steps[p]))
  BY <1>5 DEF LedgerUsed, Total
<1>7. Way(Left[p], p) = "left" /\ Way(Right[p], p) = "right"
  BY DEF Way, PickerAssumption
<1> QED BY <1>2, <1>4, <1>6, <1>7

LEMMA PairsFinite ==
  ASSUME PickerAssumption
  PROVE  IsFiniteSet(Pairs) /\ \A S \in SUBSET Pairs : IsFiniteSet(S)
<1>1. IsFiniteSet(Pairs)
  BY FS_Interval DEF Pairs, PickerAssumption
<1> QED BY <1>1, FS_Subset

\* An order in flight adds to its markets what it is worth there.
LEMMA OrderAmounts ==
  ASSUME PickerAssumption, Amounts, NEW p \in Pairs
  PROVE  /\ steps[p] \in Seq(Step) /\ opening[p] \in Step \cup {NoStep} /\ budget[p] \in Nat
         /\ OnLeft(opening[p]) \in Nat /\ OnRight(opening[p]) \in Nat
         /\ \A m : On(m, p, opening[p]) \in Nat /\ Booked(m, p) \in Nat
         /\ ~Opening(p) => \A m : On(m, p, opening[p]) = 0
         /\ steps[p] = <<>> => Priced(p) /\ \A m : Booked(m, p) = 0
<1>1. steps[p] \in Seq(Step) /\ opening[p] \in Step \cup {NoStep} /\ budget[p] \in Nat
  BY DEF Amounts
<1>2. \A m : Way(m, p) \in Ways
  BY Sizes
<1>3. \A m : On(m, p, opening[p]) \in Nat
  BY <1>1, <1>2, StepAmounts, OnWay
<1>4. \A m : Booked(m, p) \in Nat /\ (steps[p] = <<>> => Booked(m, p) = 0)
  BY <1>1, <1>2, LedgerViews, LedgerNat
<1>5. OnLeft(NoStep) = 0 /\ OnRight(NoStep) = 0
  BY DEF OnLeft, OnRight, NoStep
<1>6. ~Opening(p) => \A m : On(m, p, opening[p]) = 0
  BY <1>5 DEF On
<1>7. OnLeft(opening[p]) \in Nat /\ OnRight(opening[p]) \in Nat
  BY <1>1, StepAmounts
<1> QED BY <1>1, <1>3, <1>4, <1>6, <1>7 DEF Priced

\* A pair that shares no market with another ledger is all its markets show.
LEMMA HeldAlone ==
  ASSUME PickerAssumption, Amounts, NEW p \in Pairs, NEW m \in Legs(p),
         \A q \in Pairs : q # p /\ m \in Legs(q) => steps[q] = <<>>
  PROVE  Held(m) = extra[m] + Booked(m, p) /\ Held(m) \in Nat
<1> DEFINE f == [q \in Pairs |-> Booked(m, q)]
           T == Trading(m)
<1>1. IsFiniteSet(T) /\ p \in T /\ T \subseteq Pairs /\ m \in Markets /\ IsFiniteSet(T \ {p})
  BY PairsFinite DEF Trading, Markets
<1>2. \A q \in T : f[q] \in Nat /\ (q # p => f[q] = 0)
  BY <1>1, OrderAmounts DEF Trading
<1>3. Held(m) = extra[m] + SumOf(f, T) /\ f[p] = Booked(m, p) /\ extra[m] \in Nat
  BY <1>1 DEF Held, Amounts
<1> HIDE DEF f, T
<1>4. SumOf(f, T) = f[p] + SumOf(f, T \ {p})
  <2>1. \A q \in T : f[q] \in Int
    BY <1>2
  <2> QED BY <2>1, <1>1, SumRemove
<1>5. SumOf(f, T \ {p}) = 0
  BY <1>1, <1>2, SumZero
<1>6. f[p] \in Nat
  BY <1>1, <1>2
<1> QED BY <1>3, <1>4, <1>5, <1>6

----------------------------------------------------------------------------
(* The reservations through every step *)

\* What keeps a pair within its reservation does not depend on the other pairs.
LEMMA Undisturbed ==
  ASSUME PickerAssumption, BudgetInv, NEW q \in Pairs,
         active'[q] # "out" => active[q] # "out",
         active'[q] = "trading" => active[q] = "trading",
         budget'[q] = budget[q], steps'[q] = steps[q], opening'[q] = opening[q],
         q \in waiting' <=> q \in waiting,
         active[q] # "out" => \A m \in Legs(q) :
           extra'[m] \in Nat /\ late'[m] \in Nat /\ extra'[m] + late'[m] <= extra[m] + late[m]
  PROVE  Fits(q)'
<1>1. Fits(q) /\ Amounts
  BY DEF BudgetInv
<1>2. Priced(q)' <=> Priced(q)
  BY DEF Priced
<1>3. OpeningFits(q)'
  BY <1>1, <1>2 DEF Fits, OpeningFits
<1>4. TradingReserved(q)'
  <2>1. Reserved(q)' = Reserved(q)
    BY LedgerViews
  <2> QED BY <1>1, <1>2, <2>1 DEF Fits, TradingReserved
<1>5. Covered(q)'
  <2> SUFFICES ASSUME active'[q] # "out", Priced(q)', NEW m \in Legs(q)
               PROVE  Unbooked(q, m)' + On(m, q, opening'[q]) + Booked(m, q)' <= budget'[q]
    BY DEF Covered
  <2>1. Unbooked(q, m) + On(m, q, opening[q]) + Booked(m, q) <= budget[q]
    BY <1>1, <1>2 DEF Fits, Covered
  <2>2. Booked(m, q)' = Booked(m, q)
    BY LedgerViews
  <2>3. On(m, q, opening[q]) \in Nat /\ Booked(m, q) \in Nat /\ budget[q] \in Nat
    BY <1>1, OrderAmounts
  <2>4. m \in Markets /\ extra[m] \in Nat /\ late[m] \in Nat
    BY <1>1 DEF Markets, Amounts
  <2>5. extra'[m] \in Nat /\ late'[m] \in Nat /\ extra'[m] + late'[m] <= extra[m] + late[m]
    OBVIOUS
  <2>6. Unbooked(q, m) \in Nat /\ Unbooked(q, m)' \in Nat /\ Unbooked(q, m)' <= Unbooked(q, m)
    <3>1. CASE q \in waiting
      BY <3>1 DEF Unbooked
    <3>2. CASE q \notin waiting
      <4>1. Unbooked(q, m) = extra[m] + late[m] /\ Unbooked(q, m)' = extra'[m] + late'[m]
        BY <3>2 DEF Unbooked
      <4>2. \A a, b \in Nat : a + b \in Nat
        BY AddNat
      <4> QED BY <4>1, <4>2, <2>4, <2>5
    <3> QED BY <3>1, <3>2
  <2>7. \A v, w, x, y, z \in Nat : v + x + y <= z /\ w <= v => w + x + y <= z
    OBVIOUS
  <2>8. Unbooked(q, m)' + On(m, q, opening[q]) + Booked(m, q) <= budget[q]
    BY <2>1, <2>3, <2>6, <2>7
  <2> QED BY <2>2, <2>8
<1>6. UnpricedHolds(q)'
  BY <1>1, <1>2 DEF Fits, UnpricedHolds
<1> QED BY <1>3, <1>4, <1>5, <1>6 DEF Fits

LEMMA Elsewhere ==
  ASSUME PickerAssumption, BudgetInv, NEW q \in Pairs,
         active' = active, budget' = budget, steps'[q] = steps[q], opening'[q] = opening[q],
         q \in waiting' <=> q \in waiting,
         active[q] # "out" => \A m \in Legs(q) : extra'[m] = extra[m] /\ late'[m] = late[m]
  PROVE  Fits(q)'
<1>1. \A m \in Legs(q) : extra[m] \in Nat /\ late[m] \in Nat
  BY DEF BudgetInv, Amounts, Markets
<1>2. \A a, b \in Nat : a + b <= a + b
  BY AddNat
<1> QED BY <1>1, <1>2, Undisturbed

\* Nor does the account, as long as nobody starts to trade.
LEMMA SameReserved ==
  ASSUME WithinCap, active' = active, budget' = budget,
         \A q \in Pairs : Opening(q)' => Opening(q) \/ active[q] = "trading"
  PROVE  WithinCap'
BY DEF WithinCap

\* Nothing can land any more on the markets of an actor that runs and has recovered.
LEMMA NothingLate ==
  ASSUME PickerInv, Amounts, up, NEW p \in Active, ended[p] # "err", p \notin waiting, NEW m \in Legs(p)
  PROVE  late[m] = 0 /\ m \in Markets
<1>1. m \in Markets
  BY DEF Markets
<1>2. ASSUME late[m] # 0 PROVE FALSE
  <2>1. PICK q \in unresolved : m \in Legs(q) /\ q \in Active /\ (q \in waiting \/ ended[q] = "err")
    BY <1>1, <1>2 DEF PickerInv, LateMarked
  <2>2. p = q
    BY <2>1 DEF PickerInv, MarketsApart, candidatesOverlap
  <2> QED BY <2>1, <2>2
<1> QED BY <1>1, <1>2

\* Actors have their markets to themselves.
LEMMA OwnMarkets ==
  ASSUME PickerInv, NEW p \in Active, NEW q \in Active, p # q, NEW m \in Legs(p)
  PROVE  m \notin Legs(q)
BY DEF PickerInv, MarketsApart, candidatesOverlap

LEMMA ReconcileBudget ==
  ASSUME PickerAssumption, PickerInv, BudgetInv, NEW p \in Pairs, Reconcile(p)
  PROVE  BudgetInv'
<1>1. /\ Same /\ UNCHANGED <<steps, opening, extra, late, ended, budget, failing, failRate>>
      /\ unresolved' = unresolved \ {p} /\ waiting' = waiting \ {p}
      /\ reconciled' = reconciled \cup {p} /\ Alive(p)
      /\ \A m \in Legs(p) : extra[m] = 0
      /\ p \in unresolved => Quiet(p)
  BY DEF Reconcile, Recovered, Same, venueVars, envVars
<1>2. /\ up /\ \A m \in Legs(p) : late[m] = 0
  <2>1. up
    BY <1>1 DEF PickerInv, DownIdle, Shapes
  <2>2. CASE p \in unresolved
    BY <1>1, <2>1, <2>2 DEF Quiet
  <2>3. CASE p \notin unresolved
    BY <1>1, <2>1, <2>3, NothingLate DEF BudgetInv, ReconciledClean
  <2> QED BY <2>1, <2>2, <2>3
<1>3. Amounts' /\ FailedKnown'
  BY <1>1 DEF BudgetInv, Amounts, FailedKnown, Same
<1>4. ReconciledClean'
  BY <1>1, <1>2 DEF BudgetInv, ReconciledClean, Same
<1>5. ExtraManaged'
  BY <1>1 DEF BudgetInv, ExtraManaged, Trading
<1>6. ASSUME NEW q \in Pairs PROVE Fits(q)'
  <2>1. CASE q # p
    <3>1. /\ active' = active /\ budget' = budget /\ steps' = steps /\ opening' = opening
          /\ extra' = extra /\ late' = late
      BY <1>1 DEF Same
    <3>2. q \in waiting' <=> q \in waiting
      BY <1>1, <2>1
    <3> QED BY <3>1, <3>2, Elsewhere
  <2>2. CASE q = p
    <3>1. Fits(p) /\ Amounts
      BY DEF BudgetInv
    <3>2. (Priced(p)' <=> Priced(p)) /\ Reserved(p)' = Reserved(p) /\ \A m : Booked(m, p)' = Booked(m, p)
      BY <1>1, LedgerViews DEF Priced
    <3>3. OpeningFits(p)' /\ TradingReserved(p)' /\ UnpricedHolds(p)'
      BY <1>1, <3>1, <3>2 DEF Fits, OpeningFits, TradingReserved, UnpricedHolds, Same, Priced
    <3>4. Covered(p)'
      <4> SUFFICES ASSUME active[p] # "out", Priced(p), NEW m \in Legs(p)
                   PROVE  Unbooked(p, m)' + On(m, p, opening[p]) + Booked(m, p) <= budget[p]
        BY <1>1, <3>2 DEF Covered, Same
      <4>1. Unbooked(p, m) + On(m, p, opening[p]) + Booked(m, p) <= budget[p]
        BY <3>1 DEF Fits, Covered
      <4>2. On(m, p, opening[p]) \in Nat /\ Booked(m, p) \in Nat /\ budget[p] \in Nat
        BY <3>1, OrderAmounts
      <4>3. Unbooked(p, m)' = 0 /\ Unbooked(p, m) = 0
        BY <1>1, <1>2 DEF Unbooked
      <4> QED BY <4>1, <4>2, <4>3
    <3> QED BY <2>2, <3>3, <3>4 DEF Fits
  <2> QED BY <2>1, <2>2
<1>7. WithinCap'
  BY <1>1, SameReserved DEF BudgetInv, Same
<1> QED BY <1>3, <1>4, <1>5, <1>6, <1>7 DEF BudgetInv

LEMMA UnwindBudget ==
  ASSUME PickerAssumption, PickerInv, BudgetInv, NEW p \in Pairs, Unwind(p)
  PROVE  BudgetInv'
<1>1. /\ Same /\ UNCHANGED <<opening, late, ended, budget, failing, failRate>>
      /\ steps' = [steps EXCEPT ![p] = <<>>]
      /\ extra' = [m \in Markets |-> IF m \in Legs(p) THEN 0 ELSE extra[m]]
      /\ unresolved' = unresolved \ {p} /\ waiting' = waiting \ {p}
      /\ reconciled' = reconciled \cup {p}
      /\ Alive(p) /\ active[p] = "draining" /\ ~Opening(p)
      /\ IF p \in unresolved THEN Quiet(p) ELSE p \in reconciled
  BY DEF Unwind, Recovered, Cleared, Same, envVars
<1>2. /\ up
      /\ \A m \in Legs(p) : m \in Markets /\ late[m] = 0
      /\ \A q \in Active \ {p} : \A m \in Legs(q) : m \in Markets /\ m \notin Legs(p)
  <2>1. up
    BY <1>1 DEF PickerInv, DownIdle, Shapes
  <2>2. \A q \in Pairs : \A m \in Legs(q) : m \in Markets
    BY DEF Markets
  <2>3. \A m \in Legs(p) : late[m] = 0
    BY <1>1 DEF BudgetInv, ReconciledClean, Quiet
  <2>4. \A q \in Active \ {p} : \A m \in Legs(q) : m \notin Legs(p)
    BY <1>1, OwnMarkets
  <2> QED BY <2>1, <2>2, <2>3, <2>4
<1>3. Amounts'
  <2>1. Amounts /\ <<>> \in Seq(Step) /\ 0 \in Nat
    BY DEF BudgetInv
  <2> QED BY <1>1, <2>1 DEF Amounts
<1>4. steps'[p] = <<>> /\ \A q \in Pairs \ {p} : steps'[q] = steps[q]
  BY <1>1 DEF BudgetInv, Amounts
<1>5. FailedKnown'
  BY <1>1 DEF BudgetInv, FailedKnown, Same
<1>6. ReconciledClean'
  <2>1. ReconciledClean
    BY DEF BudgetInv
  <2> SUFFICES ASSUME NEW q \in reconciled', ended[q] # "err", NEW m \in Legs(q)
               PROVE  extra'[m] = 0 /\ late[m] = 0
    BY <2>1, <1>1 DEF ReconciledClean, Same
  <2>2. CASE q = p
    BY <2>2, <1>1, <1>2
  <2>3. CASE q # p
    <3>1. q \in reconciled /\ q \in Active
      BY <2>1, <2>3, <1>1 DEF ReconciledClean
    <3> QED BY <3>1, <2>1, <2>3, <1>1, <1>2 DEF ReconciledClean
  <2> QED BY <2>2, <2>3
<1>7. ExtraManaged'
  <2> SUFFICES ASSUME NEW m \in Markets, extra'[m] # 0
               PROVE  \E q \in Trading(m) : Saved(q)'
    BY DEF ExtraManaged, Trading
  <2>1. m \notin Legs(p) /\ extra[m] # 0
    BY <1>1
  <2>2. PICK q \in Trading(m) : Saved(q)
    BY <2>1 DEF BudgetInv, ExtraManaged
  <2> QED BY <2>1, <2>2, <1>1, <1>4 DEF Trading
<1>8. ASSUME NEW q \in Pairs PROVE Fits(q)'
  <2>1. CASE q # p
    <3>1. active' = active /\ budget' = budget /\ opening' = opening /\ late' = late
      BY <1>1 DEF Same
    <3>2. q \in waiting' <=> q \in waiting
      BY <1>1, <2>1
    <3>3. active[q] # "out" => \A m \in Legs(q) : extra'[m] = extra[m]
      BY <1>1, <1>2, <2>1
    <3> QED BY <3>1, <3>2, <3>3, <1>4, <2>1, Elsewhere
  <2>2. CASE q = p
    <3>1. Amounts
      BY DEF BudgetInv
    <3>2. \A m : Booked(m, p)' = 0
      <4>1. <<>> \in Seq(Step)
        OBVIOUS
      <4> QED BY <4>1, <1>4, LedgerViews, LedgerNat, Sizes
    <3>3. \A m : On(m, p, opening[p]) = 0
      BY <3>1, <1>1, OrderAmounts
    <3>4. \A m \in Legs(p) : Unbooked(p, m)' = 0
      BY <1>1, <1>2 DEF Unbooked
    <3>5. budget[p] \in Nat /\ Priced(p)'
      BY <3>1, <1>4, OrderAmounts DEF Priced
    <3>6. OpeningFits(p)' /\ TradingReserved(p)' /\ UnpricedHolds(p)'
      BY <3>5, <1>1 DEF OpeningFits, TradingReserved, UnpricedHolds, Same
    <3>7. Covered(p)'
      <4>1. opening' = opening /\ budget' = budget
        BY <1>1
      <4>2. \A n \in Nat : 0 + 0 + 0 <= n
        OBVIOUS
      <4> QED BY <4>1, <4>2, <3>2, <3>3, <3>4, <3>5 DEF Covered
    <3> QED BY <2>2, <3>6, <3>7 DEF Fits
  <2> QED BY <2>1, <2>2
<1>9. WithinCap'
  BY <1>1, SameReserved DEF BudgetInv, Same
<1> QED BY <1>3, <1>5, <1>6, <1>7, <1>8, <1>9 DEF BudgetInv

LEMMA OpenBudget ==
  ASSUME PickerAssumption, PickerInv, BudgetInv, NEW p \in Pairs, Open(p)
  PROVE  BudgetInv'
<1>1. /\ Same
      /\ UNCHANGED <<steps, late, extra, ended, budget, failing, failRate, waiting, reconciled>>
      /\ Alive(p) /\ active[p] = "trading" /\ waiting = {} /\ p \in reconciled
      /\ Len(steps[p]) < MaxSteps
      /\ unresolved' = unresolved \cup {p}
  BY DEF Open, Same, pickerVars, venueVars, envVars
<1>2. PICK s \in Step :
        /\ s.openL > 0 /\ s.openR > 0
        /\ OnLeft(s) <= PerStep /\ OnRight(s) <= PerStep
        /\ opening' = [opening EXCEPT ![p] = s]
  <2>1. PICK q \in 1..PerStep, l \in Prices, r \in Prices :
          /\ q * Larger(l, r) <= PerStep
          /\ opening' = [opening EXCEPT ![p] = [qty |-> q, openL |-> l, openR |-> r]]
    BY DEF Open
  <2>2. PICK a \in Nat, b \in Nat, n \in Nat, P \in Nat :
          a = l /\ b = r /\ n = q /\ P = PerStep /\ a > 0 /\ b > 0 /\ n > 0
    <3>1. Prices \subseteq Nat \ {0}
      BY DEF PickerAssumption
    <3>2. l \in Nat /\ l > 0 /\ r \in Nat /\ r > 0
      BY <3>1
    <3>3. q \in Nat /\ q > 0
      BY Sizes
    <3> QED BY <3>2, <3>3, Sizes
  <2>3. n * a <= P /\ n * b <= P
    <3>1. n * Larger(a, b) <= P
      BY <2>1, <2>2
    <3>2. a <= Larger(a, b) /\ b <= Larger(a, b) /\ Larger(a, b) \in Nat
      BY DEF Larger
    <3>3. PICK c \in Nat : c = Larger(a, b)
      BY <3>2
    <3>4. a * n <= c * n /\ b * n <= c * n
      BY <3>2, <3>3, TimesMonotone
    <3>5. \A x \in Nat : x * n = n * x /\ n * x \in Nat
      OBVIOUS
    <3>6. n * a <= n * c /\ n * b <= n * c /\ n * a \in Nat /\ n * b \in Nat /\ n * c \in Nat
      BY <3>4, <3>5
    <3>7. n * c <= P
      BY <3>1, <3>3
    <3>8. \A x, y, z \in Nat : x <= y /\ y <= z => x <= z
      BY AtMostTransitive
    <3> QED BY <3>6, <3>7, <3>8
  <2>4. PICK s : s = [qty |-> n, openL |-> a, openR |-> b]
    OBVIOUS
  <2>5. s \in Step /\ s.openL = a /\ s.openR = b /\ s.qty = n
    BY <2>2, <2>4 DEF Step
  <2>6. OnLeft(s) <= PerStep /\ OnRight(s) <= PerStep
    BY <2>2, <2>3, <2>5 DEF OnLeft, OnRight
  <2>7. opening' = [opening EXCEPT ![p] = s]
    BY <2>1, <2>2, <2>4
  <2> QED BY <2>2, <2>5, <2>6, <2>7
<1>3. opening'[p] = s /\ \A q \in Pairs \ {p} : opening'[q] = opening[q]
  BY <1>2 DEF BudgetInv, Amounts
<1>4. Amounts'
  BY <1>1, <1>2 DEF BudgetInv, Amounts
<1>5. FailedKnown' /\ ReconciledClean' /\ ExtraManaged'
  <2>1. FailedKnown'
    BY <1>1 DEF BudgetInv, FailedKnown, Same
  <2>2. ReconciledClean'
    BY <1>1 DEF BudgetInv, ReconciledClean, Same
  <2>3. ExtraManaged'
    BY <1>1 DEF BudgetInv, ExtraManaged, Trading
  <2> QED BY <2>1, <2>2, <2>3
<1>6. ASSUME NEW q \in Pairs PROVE Fits(q)'
  <2>1. CASE q # p
    BY <2>1, <1>1, <1>3, Elsewhere DEF Same
  <2>2. CASE q = p
    <3>1. Fits(p) /\ Amounts
      BY DEF BudgetInv
    <3>2. (Priced(p)' <=> Priced(p)) /\ Reserved(p)' = Reserved(p) /\ \A m : Booked(m, p)' = Booked(m, p)
      BY <1>1, LedgerViews DEF Priced
    <3>3. Priced(p) /\ Reserved(p) <= budget[p]
      BY <3>1, <1>1 DEF Fits, TradingReserved
    <3>4. OpeningFits(p)'
      BY <1>1, <1>2, <1>3, <3>2, <3>3 DEF OpeningFits
    <3>5. TradingReserved(p)' /\ UnpricedHolds(p)'
      BY <1>1, <3>2, <3>3 DEF TradingReserved, UnpricedHolds, Same
    <3>6. Covered(p)'
      <4> SUFFICES ASSUME NEW m \in Legs(p)
                   PROVE  Unbooked(p, m)' + On(m, p, opening'[p]) + Booked(m, p)' <= budget'[p]
        BY DEF Covered
      <4>1. m \in Markets /\ extra[m] = 0 /\ late[m] = 0
        BY <1>1 DEF BudgetInv, ReconciledClean, Markets
      <4>2. Unbooked(p, m)' = 0
        BY <4>1, <1>1 DEF Unbooked
      <4>3. On(m, p, s) <= PerStep /\ On(m, p, s) \in Nat
        BY <1>2, StepAmounts DEF On
      <4>4. Booked(m, p) \in Nat /\ budget[p] \in Nat /\ steps[p] \in Seq(Step)
        BY <3>1, OrderAmounts
      <4>5. Booked(m, p) + PerStep <= Kept(steps[p]) /\ Kept(steps[p]) <= budget[p]
        BY <4>4, <3>3, <1>1, LedgerViews, KeptRoom, Sizes
      <4>6. Kept(steps[p]) \in Nat /\ PerStep \in Nat
        BY <4>4, KeptNat, Sizes
      <4>7. \A x, y, z, b, k \in Nat : x <= y /\ z + y <= k /\ k <= b => 0 + x + z <= b
        OBVIOUS
      <4>8. 0 + On(m, p, s) + Booked(m, p) <= budget[p]
        BY <4>3, <4>4, <4>5, <4>6, <4>7
      <4>9. Unbooked(p, m)' + On(m, p, s) + Booked(m, p) <= budget[p]
        BY <4>2, <4>8
      <4> QED BY <4>9, <3>2, <1>1, <1>3
    <3> QED BY <2>2, <3>4, <3>5, <3>6 DEF Fits
  <2> QED BY <2>1, <2>2
<1>7. WithinCap'
  <2>1. \A q \in Pairs : Opening(q)' => Opening(q) \/ active[q] = "trading"
    BY <1>1, <1>3
  <2> QED BY <2>1, <1>1, SameReserved DEF BudgetInv, Same
<1> QED BY <1>4, <1>5, <1>6, <1>7 DEF BudgetInv

\* What a fill leaves of a ledger that had room for it.
LEMMA Filled ==
  ASSUME PickerAssumption, NEW t \in Seq(Step), NEW o \in Step, NEW q \in 0..o.qty,
         Len(t) < MaxSteps, OnLeft(o) <= PerStep, OnRight(o) <= PerStep,
         o.openL > 0, o.openR > 0,
         \A i \in DOMAIN t : t[i].openL > 0 /\ t[i].openR > 0
  PROVE  LET u == Grown(t, [o EXCEPT !.qty = q])
         IN  /\ u \in Seq(Step) /\ Kept(u) <= Kept(t)
             /\ \A i \in DOMAIN u : u[i].openL > 0 /\ u[i].openR > 0
             /\ \A w \in Ways : Ledger(w, u) <= Value(w, o) + Ledger(w, t)
<1>1. PICK s : s = [o EXCEPT !.qty = q]
  OBVIOUS
<1>2. s.qty = q /\ s.openL = o.openL /\ s.openR = o.openR
  BY <1>1 DEF Step
<1>3. q \in Nat /\ q <= o.qty
  BY DEF Step
<1>4. \A w \in Ways : /\ Value(w, s) <= Value(w, o) /\ Value(w, o) \in Nat
                     /\ Ledger(w, t) \in Nat
  BY <1>1, <1>3, PartOfStep, StepAmounts, LedgerNat
<1>5. CASE q = 0
  <2>1. Grown(t, s) = t
    BY <1>2, <1>5 DEF Grown
  <2>2. \A w \in Ways : Ledger(w, t) <= Value(w, o) + Ledger(w, t)
    <3> TAKE w \in Ways
    <3>1. \A a, b \in Nat : a <= b + a
      BY AddNat
    <3> QED BY <3>1, <1>4
  <2>3. Kept(t) <= Kept(t)
    BY KeptNat
  <2> QED BY <1>1, <2>1, <2>2, <2>3
<1>6. CASE q # 0
  <2>1. Grown(t, s) = Append(t, s)
    BY <1>2, <1>6 DEF Grown
  <2>2. s \in Step
    BY <1>1, <1>3, <1>6 DEF Step
  <2>3. OnLeft(s) <= OnLeft(o) /\ OnRight(s) <= OnRight(o)
    BY <1>4, <2>2, StepAmounts DEF Ways
  <2>4. OnLeft(s) <= PerStep /\ OnRight(s) <= PerStep
    <3>1. \A a, b, c \in Nat : a <= b /\ b <= c => a <= c
      BY AtMostTransitive
    <3> QED BY <3>1, <2>2, <2>3, StepAmounts, Sizes
  <2>5. Append(t, s) \in Seq(Step) /\ Kept(Append(t, s)) <= Kept(t)
    BY <2>2, <2>4, KeptAppend
  <2>6. \A w \in Ways : Ledger(w, Append(t, s)) <= Value(w, o) + Ledger(w, t)
    <3> TAKE w \in Ways
    <3>1. Ledger(w, Append(t, s)) = Ledger(w, t) + Value(w, s) /\ Value(w, s) \in Nat
      BY <2>2, LedgerAppend, StepAmounts
    <3>2. \A a, b, c \in Nat : b <= c => a + b <= c + a
      OBVIOUS
    <3> QED BY <3>1, <3>2, <1>4
  <2>7. \A i \in DOMAIN Append(t, s) : Append(t, s)[i].openL > 0 /\ Append(t, s)[i].openR > 0
    <3> TAKE i \in DOMAIN Append(t, s)
    <3>1. Append(t, s)[i] = s \/ (i \in DOMAIN t /\ Append(t, s)[i] = t[i])
      OBVIOUS
    <3> QED BY <3>1, <1>2
  <2> QED BY <1>1, <2>1, <2>5, <2>6, <2>7
<1> QED BY <1>5, <1>6

LEMMA FillBudget ==
  ASSUME PickerAssumption, PickerInv, BudgetInv, NEW p \in Pairs, Fill(p)
  PROVE  BudgetInv'
<1>1. /\ Same
      /\ UNCHANGED <<late, extra, ended, budget, failing, failRate, waiting, reconciled>>
      /\ Alive(p) /\ Opening(p) /\ p \in reconciled
      /\ unresolved' = unresolved \ {p}
      /\ opening' = [opening EXCEPT ![p] = NoStep]
  BY DEF Fill, Same, pickerVars, venueVars, envVars, PickerInv, OpeningMarked
<1>2. Fits(p) /\ Amounts /\ ReconciledClean
  BY DEF BudgetInv
<1>3. PICK t \in Seq(Step), o \in Step : t = steps[p] /\ o = opening[p]
  BY <1>1, <1>2, OrderAmounts
<1>4. PICK q \in 0..o.qty : steps' = [steps EXCEPT ![p] = Grown(@, [o EXCEPT !.qty = q])]
  BY <1>3 DEF Fill
<1>5. PICK u : u = Grown(t, [o EXCEPT !.qty = q])
  OBVIOUS
<1>6. /\ u \in Seq(Step) /\ Kept(u) <= Kept(t)
      /\ \A i \in DOMAIN u : u[i].openL > 0 /\ u[i].openR > 0
      /\ \A w \in Ways : Ledger(w, u) <= Value(w, o) + Ledger(w, t)
  <2>1. /\ Len(t) < MaxSteps /\ OnLeft(o) <= PerStep /\ OnRight(o) <= PerStep
        /\ o.openL > 0 /\ o.openR > 0
        /\ \A i \in DOMAIN t : t[i].openL > 0 /\ t[i].openR > 0
    BY <1>1, <1>2, <1>3 DEF Fits, OpeningFits, Priced
  <2> QED BY <1>5, <2>1, Filled
<1>7. steps' = [steps EXCEPT ![p] = u]
  BY <1>3, <1>4, <1>5
<1>8. /\ steps'[p] = u /\ opening'[p] = NoStep
      /\ \A q_1 \in Pairs \ {p} : steps'[q_1] = steps[q_1] /\ opening'[q_1] = opening[q_1]
  BY <1>1, <1>2, <1>7 DEF Amounts
<1>9. Amounts'
  BY <1>1, <1>2, <1>6, <1>7 DEF Amounts
<1>10. FailedKnown'
  BY <1>1 DEF BudgetInv, FailedKnown, Same
<1>11. ReconciledClean'
  BY <1>1, <1>2 DEF ReconciledClean, Same, PickerInv, OpeningMarked
<1>12. ExtraManaged'
  <2> SUFFICES ASSUME NEW m \in Markets, extra[m] # 0
               PROVE  \E r \in Trading(m) : Saved(r)'
    BY <1>1 DEF ExtraManaged, Trading
  <2>1. PICK r \in Trading(m) : Saved(r)
    BY DEF BudgetInv, ExtraManaged
  <2>2. r # p
    BY <2>1, <1>1, <1>2 DEF ReconciledClean, Trading
  <2> QED BY <2>1, <2>2, <1>1, <1>8 DEF Trading
<1>13. ASSUME NEW r \in Pairs PROVE Fits(r)'
  <2>1. CASE r # p
    BY <2>1, <1>1, <1>8, Elsewhere DEF Same
  <2>2. CASE r = p
    <3>1. Priced(p) /\ Priced(p)'
      BY <1>1, <1>2, <1>6, <1>8 DEF Fits, OpeningFits, Priced
    <3>2. OpeningFits(p)' /\ UnpricedHolds(p)'
      BY <3>1, <1>8 DEF OpeningFits, UnpricedHolds
    <3>3. TradingReserved(p)'
      <4> SUFFICES ASSUME active[p] = "trading" PROVE Reserved(p)' <= budget[p]
        BY <3>1, <1>1 DEF TradingReserved, Same
      <4>1. Kept(t) <= budget[p]
        BY <1>2, <1>3, LedgerViews DEF Fits, TradingReserved
      <4>2. Kept(u) \in Nat /\ Kept(t) \in Nat /\ budget[p] \in Nat
        BY <1>2, <1>6, KeptNat, OrderAmounts
      <4>3. \A a, b, c \in Nat : a <= b /\ b <= c => a <= c
        BY AtMostTransitive
      <4>4. Kept(u) <= budget[p]
        BY <4>1, <4>2, <4>3, <1>6
      <4> QED BY <4>4, <1>8, LedgerViews
    <3>4. Covered(p)'
      <4> SUFFICES ASSUME NEW m \in Legs(p)
                   PROVE  Unbooked(p, m)' + On(m, p, opening'[p]) + Booked(m, p)' <= budget'[p]
        BY DEF Covered
      <4>1. PICK w \in Ways : w = Way(m, p)
        BY Sizes
      <4>2. m \in Markets /\ extra[m] = 0 /\ late[m] = 0 /\ p \notin waiting
        BY <1>1, <1>2 DEF ReconciledClean, Markets
      <4>3. Unbooked(p, m) = 0 /\ Unbooked(p, m)' = 0
        BY <4>2, <1>1 DEF Unbooked
      <4>4. Unbooked(p, m) + On(m, p, opening[p]) + Booked(m, p) <= budget[p]
        BY <1>1, <1>2, <3>1 DEF Fits, Covered
      <4>5. On(m, p, opening[p]) = Value(w, o) /\ Booked(m, p) = Ledger(w, t) /\ Booked(m, p)' = Ledger(w, u)
        BY <4>1, <1>3, <1>8, OnWay, LedgerViews
      <4>6. On(m, p, NoStep) = 0
        BY DEF On, OnLeft, OnRight, NoStep
      <4>7. Value(w, o) \in Nat /\ Ledger(w, t) \in Nat /\ Ledger(w, u) \in Nat /\ budget[p] \in Nat
        BY <1>2, <1>6, LedgerNat, StepAmounts, OrderAmounts
      <4>8. \A v, x, y, b \in Nat : y <= v + x /\ 0 + v + x <= b => 0 + 0 + y <= b
        OBVIOUS
      <4>9. 0 + 0 + Ledger(w, u) <= budget[p]
        BY <4>3, <4>4, <4>5, <4>7, <4>8, <1>6
      <4> QED BY <4>3, <4>5, <4>6, <4>9, <1>1, <1>8
    <3> QED BY <2>2, <3>2, <3>3, <3>4 DEF Fits
  <2> QED BY <2>1, <2>2
<1>14. WithinCap'
  <2>1. \A r \in Pairs : Opening(r)' => Opening(r) \/ active[r] = "trading"
    BY <1>8
  <2> QED BY <2>1, <1>1, SameReserved DEF BudgetInv, Same
<1> QED BY <1>9, <1>10, <1>11, <1>12, <1>13, <1>14 DEF BudgetInv

LEMMA CloseBudget ==
  ASSUME PickerAssumption, PickerInv, BudgetInv, NEW p \in Pairs, Close(p)
  PROVE  BudgetInv'
<1>1. /\ Same
      /\ UNCHANGED <<late, extra, ended, budget, failing, failRate, waiting, reconciled, opening, unresolved>>
      /\ Alive(p) /\ active[p] = "trading" /\ p \in reconciled /\ p \notin unresolved
  BY DEF Close, Same, pickerVars, venueVars, actorVars, envVars
<1>2. Fits(p) /\ Amounts /\ ReconciledClean
  BY DEF BudgetInv
<1>3. PICK t \in Seq(Step) : t = steps[p]
  BY <1>2, OrderAmounts
<1>4. PICK u \in Seq(Step) :
        /\ steps' = [steps EXCEPT ![p] = u]
        /\ Kept(u) <= Kept(t) /\ \A w \in Ways : Ledger(w, u) <= Ledger(w, t)
        /\ \A j \in DOMAIN u : u[j].openL > 0 /\ u[j].openR > 0
  <2>1. PICK i \in DOMAIN t : \E q \in 0..(t[i].qty - 1) :
          steps' = [steps EXCEPT ![p] = IF q = 0 THEN RemoveAt(t, i) ELSE [t EXCEPT ![i].qty = q]]
    BY <1>3 DEF Close
  <2>2. PICK q \in 0..(t[i].qty - 1) :
          steps' = [steps EXCEPT ![p] = IF q = 0 THEN RemoveAt(t, i) ELSE [t EXCEPT ![i].qty = q]]
    BY <2>1
  <2>3. t[i] \in Step /\ t[i].qty \in Nat
    <3>1. t[i] \in Step
      OBVIOUS
    <3> QED BY <3>1 DEF Step
  <2>4. \A j \in DOMAIN t : t[j].openL > 0 /\ t[j].openR > 0
    BY <1>1, <1>2, <1>3 DEF Fits, TradingReserved, Priced
  <2>5. CASE q = 0
    <3>1. PICK u : u = RemoveAt(t, i)
      OBVIOUS
    <3>2. /\ u \in Seq(Step) /\ Kept(u) <= Kept(t)
          /\ \A w \in Ways : Ledger(w, u) <= Ledger(w, t)
          /\ \A j \in DOMAIN u : \E k \in DOMAIN t : u[j] = t[k]
      BY <3>1, KeptRemove
    <3>3. \A j \in DOMAIN u : u[j].openL > 0 /\ u[j].openR > 0
      BY <3>2, <2>4
    <3> QED BY <3>1, <3>2, <3>3, <2>2, <2>5
  <2>6. CASE q # 0
    <3>1. PICK u : u = [t EXCEPT ![i] = [t[i] EXCEPT !.qty = q]]
      OBVIOUS
    <3>2. PICK n \in Nat : n = q
      BY <2>3
    <3>3. n > 0 /\ n <= t[i].qty
      BY <3>2, <2>2, <2>3, <2>6
    <3>4. PICK v : v = PartLeft(t, i, n)
      OBVIOUS
    <3>6. /\ v \in Seq(Step) /\ Kept(v) <= Kept(t)
          /\ \A w \in Ways : Ledger(w, v) <= Ledger(w, t)
          /\ DOMAIN v = DOMAIN t
          /\ \A j \in DOMAIN t : v[j].openL = t[j].openL /\ v[j].openR = t[j].openR
      BY <3>3, <3>4, KeptReplace
    <3>8. \A j \in DOMAIN v : v[j].openL > 0 /\ v[j].openR > 0
      BY <3>6, <2>4, Zenon
    <3>9. u = v
      BY <3>1, <3>2, <3>4 DEF PartLeft
    <3>5. steps' = [steps EXCEPT ![p] = u]
      BY <3>1, <2>2, <2>6
    <3> QED BY <3>5, <3>6, <3>8, <3>9, Zenon
  <2> QED BY <2>5, <2>6
<1>5. /\ steps'[p] = u /\ \A q \in Pairs \ {p} : steps'[q] = steps[q]
  BY <1>2, <1>4 DEF Amounts
<1>6. Amounts'
  BY <1>1, <1>2, <1>4 DEF Amounts
<1>7. FailedKnown'
  BY <1>1 DEF BudgetInv, FailedKnown, Same
<1>8. ReconciledClean'
  BY <1>1, <1>2 DEF ReconciledClean, Same
<1>9. ExtraManaged'
  <2> SUFFICES ASSUME NEW m \in Markets, extra[m] # 0
               PROVE  \E r \in Trading(m) : Saved(r)'
    BY <1>1 DEF ExtraManaged, Trading
  <2>1. PICK r \in Trading(m) : Saved(r)
    BY DEF BudgetInv, ExtraManaged
  <2>2. r # p
    BY <2>1, <1>1, <1>2 DEF ReconciledClean, Trading
  <2> QED BY <2>1, <2>2, <1>1, <1>5 DEF Trading
<1>10. ASSUME NEW r \in Pairs PROVE Fits(r)'
  <2>1. CASE r # p
    BY <2>1, <1>1, <1>5, Elsewhere DEF Same
  <2>2. CASE r = p
    <3>1. Priced(p) /\ Priced(p)'
      BY <1>1, <1>2, <1>4, <1>5 DEF Fits, TradingReserved, Priced
    <3>2. UnpricedHolds(p)'
      BY <3>1 DEF UnpricedHolds
    <3>3. ~Opening(p) /\ OpeningFits(p)'
      BY <1>1 DEF OpeningFits, PickerInv, OpeningMarked
    <3>4. TradingReserved(p)'
      <4>1. Kept(t) <= budget[p]
        BY <1>1, <1>2, <1>3, LedgerViews DEF Fits, TradingReserved
      <4>2. Kept(u) \in Nat /\ Kept(t) \in Nat /\ budget[p] \in Nat
        BY <1>2, KeptNat, OrderAmounts
      <4>3. \A a, b, c \in Nat : a <= b /\ b <= c => a <= c
        BY AtMostTransitive
      <4>4. Kept(u) <= budget[p]
        BY <4>1, <4>2, <4>3, <1>4
      <4>5. Reserved(p)' = Kept(u)
        BY <1>5, LedgerViews
      <4> QED BY <4>4, <4>5, <3>1, <1>1 DEF TradingReserved
    <3>5. Covered(p)'
      <4> SUFFICES ASSUME NEW m \in Legs(p)
                   PROVE  Unbooked(p, m)' + On(m, p, opening'[p]) + Booked(m, p)' <= budget'[p]
        BY DEF Covered
      <4>1. PICK w \in Ways : w = Way(m, p)
        BY Sizes
      <4>2. Unbooked(p, m)' = Unbooked(p, m) /\ opening' = opening /\ budget' = budget
        BY <1>1 DEF Unbooked
      <4>3. Unbooked(p, m) + On(m, p, opening[p]) + Booked(m, p) <= budget[p]
        BY <1>1, <1>2, <3>1 DEF Fits, Covered
      <4>4. Booked(m, p) = Ledger(w, t) /\ Booked(m, p)' = Ledger(w, u)
        BY <4>1, <1>3, <1>5, LedgerViews
      <4>5. /\ On(m, p, opening[p]) \in Nat /\ Ledger(w, t) \in Nat /\ Ledger(w, u) \in Nat /\ budget[p] \in Nat
            /\ Ledger(w, u) <= Ledger(w, t)
        BY <1>2, <1>4, LedgerNat, OrderAmounts
      <4>6. Unbooked(p, m) \in Nat
        <5>1. \A a, b \in Nat : a + b \in Nat
          BY AddNat
        <5> QED BY <5>1, <1>2 DEF Unbooked, Amounts, Markets
      <4>7. \A v, o, x, y, b \in Nat : y <= x /\ v + o + x <= b => v + o + y <= b
        OBVIOUS
      <4>8. Unbooked(p, m) + On(m, p, opening[p]) + Ledger(w, u) <= budget[p]
        BY <4>3, <4>4, <4>5, <4>6, <4>7
      <4> QED BY <4>2, <4>4, <4>8
    <3> QED BY <2>2, <3>2, <3>3, <3>4, <3>5 DEF Fits
  <2> QED BY <2>1, <2>2
<1>11. WithinCap'
  BY <1>1, SameReserved DEF BudgetInv, Same
<1> QED BY <1>6, <1>7, <1>8, <1>9, <1>10, <1>11 DEF BudgetInv

LEMMA FailsBudget ==
  ASSUME PickerAssumption, PickerInv, BudgetInv, NEW p \in Pairs, ActorFails(p)
  PROVE  BudgetInv'
<1>1. /\ Same
      /\ UNCHANGED <<steps, extra, budget, failing, failRate, waiting, reconciled, unresolved>>
      /\ Alive(p) /\ ended' = [ended EXCEPT ![p] = "err"]
      /\ opening' = [opening EXCEPT ![p] = NoStep]
      /\ late' = [m \in Markets |->
           IF Opening(p) /\ m \in Legs(p) THEN late[m] + On(m, p, opening[p]) ELSE late[m]]
  BY DEF ActorFails, Same, fileVars, pickerVars, envVars
<1>2. Fits(p) /\ Amounts /\ ReconciledClean /\ \A m : On(m, p, opening[p]) \in Nat
  BY OrderAmounts DEF BudgetInv
<1>3. /\ opening'[p] = NoStep /\ \A q \in Pairs \ {p} : opening'[q] = opening[q] /\ ended'[q] = ended[q]
      /\ ended'[p] = "err"
  BY <1>1, <1>2 DEF Amounts, PickerInv, Shapes
<1>4. /\ \A q \in Pairs : \A m \in Legs(q) : m \in Markets
      /\ \A q \in Active \ {p} : \A m \in Legs(q) : m \notin Legs(p)
  <2>1. \A q \in Pairs : \A m \in Legs(q) : m \in Markets
    BY DEF Markets
  <2> QED BY <2>1, <1>1, OwnMarkets
<1>5. late' \in [Markets -> Nat]
  <2>1. \A a, b \in Nat : a + b \in Nat
    BY AddNat
  <2> QED BY <2>1, <1>1, <1>2 DEF Amounts
<1>6. Amounts'
  <2>1. opening' \in [Pairs -> Step \cup {NoStep}]
    BY <1>1, <1>2 DEF Amounts
  <2> QED BY <2>1, <1>1, <1>2, <1>5 DEF Amounts
<1>7. FailedKnown'
  BY <1>1 DEF BudgetInv, FailedKnown, Same
<1>8. ReconciledClean'
  <2> SUFFICES ASSUME NEW q \in reconciled, ended'[q] # "err", NEW m \in Legs(q)
               PROVE  extra[m] = 0 /\ late'[m] = 0
    BY <1>1, <1>2 DEF ReconciledClean, Same
  <2>1. q # p /\ q \in Active /\ ended[q] # "err"
    BY <1>2, <1>3 DEF ReconciledClean
  <2>2. m \in Markets /\ m \notin Legs(p)
    BY <2>1, <1>4
  <2> QED BY <2>1, <2>2, <1>1, <1>2 DEF ReconciledClean
<1>9. ExtraManaged'
  BY <1>1 DEF BudgetInv, ExtraManaged, Trading
<1>10. ASSUME NEW q \in Pairs PROVE Fits(q)'
  <2>1. CASE q # p
    <3>1. active[q] # "out" => \A m \in Legs(q) : late'[m] = late[m]
      BY <2>1, <1>1, <1>4
    <3> QED BY <2>1, <3>1, <1>1, <1>3, Elsewhere DEF Same
  <2>2. CASE q = p
    <3>1. (Priced(p)' <=> Priced(p)) /\ Reserved(p)' = Reserved(p) /\ \A m : Booked(m, p)' = Booked(m, p)
      BY <1>1, LedgerViews DEF Priced
    <3>2. OpeningFits(p)'
      BY <1>3 DEF OpeningFits
    <3>3. TradingReserved(p)' /\ UnpricedHolds(p)'
      BY <1>1, <1>2, <3>1 DEF Fits, TradingReserved, UnpricedHolds, Same
    <3>4. Covered(p)'
      <4> SUFFICES ASSUME active[p] # "out", Priced(p), NEW m \in Legs(p)
                   PROVE  Unbooked(p, m)' + On(m, p, opening'[p]) + Booked(m, p)' <= budget'[p]
        BY <3>1, <1>1 DEF Covered, Same
      <4>1. Unbooked(p, m) + On(m, p, opening[p]) + Booked(m, p) <= budget[p]
        BY <1>2 DEF Fits, Covered
      <4>2. PICK o \in Nat, b \in Nat, n \in Nat, e \in Nat, l \in Nat :
              /\ o = On(m, p, opening[p]) /\ b = Booked(m, p) /\ n = budget[p]
              /\ e = extra[m] /\ l = late[m]
        BY <1>2, <1>4, OrderAmounts DEF Amounts
      <4>3. On(m, p, NoStep) = 0
        BY DEF On, OnLeft, OnRight, NoStep
      <4>4. ~Opening(p) => o = 0
        BY <4>2, <4>3
      <4>5. late'[m] = IF Opening(p) THEN l + o ELSE l
        BY <4>2, <1>1, <1>4
      <4>6. late'[m] = l + o
        BY <4>4, <4>5
      <4>7. CASE p \in waiting
        <5>1. Unbooked(p, m)' = 0 /\ Unbooked(p, m) = 0
          BY <4>7, <1>1 DEF Unbooked
        <5>2. 0 + 0 + b <= n
          BY <5>1, <4>1, <4>2
        <5> QED BY <5>1, <5>2, <4>2, <4>3, <3>1, <1>1, <1>3
      <4>8. CASE p \notin waiting
        <5>1. Unbooked(p, m)' = e + (l + o) /\ Unbooked(p, m) = e + l
          BY <4>8, <4>2, <4>6, <1>1 DEF Unbooked
        <5>2. (e + (l + o)) + 0 + b <= n
          BY <5>1, <4>1, <4>2
        <5> QED BY <5>1, <5>2, <4>2, <4>3, <3>1, <1>1, <1>3
      <4> QED BY <4>7, <4>8
    <3> QED BY <2>2, <3>2, <3>3, <3>4 DEF Fits
  <2> QED BY <2>1, <2>2
<1>11. WithinCap'
  <2>1. \A q \in Pairs : Opening(q)' => Opening(q)
    BY <1>3
  <2> QED BY <2>1, <1>1, SameReserved DEF BudgetInv, Same
<1> QED BY <1>6, <1>7, <1>8, <1>9, <1>10, <1>11 DEF BudgetInv

LEMMA EndsBudget ==
  ASSUME PickerAssumption, PickerInv, BudgetInv, NEW p \in Pairs,
         ActorEnds(p) \/ ChangeRate(p)
  PROVE  BudgetInv'
<1>1. /\ Same
      /\ UNCHANGED <<steps, extra, late, budget, failRate, waiting, reconciled, unresolved, opening>>
      /\ Alive(p)
      /\ \/ failing' = failing /\ ended' = [ended EXCEPT ![p] = "ok"]
         \/ failing' \subseteq failing \cup {p} /\ ended' = ended
  BY DEF ActorEnds, ChangeRate, Same, fileVars, venueVars, pickerVars, envVars
<1>2. Amounts' /\ ExtraManaged'
  BY <1>1 DEF BudgetInv, Amounts, ExtraManaged, Trading
<1>3. FailedKnown'
  <2>1. up
    BY <1>1 DEF PickerInv, DownIdle, Shapes
  <2> QED BY <2>1, <1>1 DEF BudgetInv, FailedKnown, Same
<1>4. ReconciledClean'
  <2>1. \A q \in Pairs : ended'[q] # "err" => ended[q] # "err"
    BY <1>1 DEF PickerInv, Shapes
  <2> QED BY <2>1, <1>1 DEF BudgetInv, ReconciledClean, Same
<1>5. ASSUME NEW q \in Pairs PROVE Fits(q)'
  BY <1>1, Elsewhere DEF Same
<1>6. WithinCap'
  BY <1>1, SameReserved DEF BudgetInv, Same
<1> QED BY <1>2, <1>3, <1>4, <1>5, <1>6 DEF BudgetInv

\* An order that lands moves what it may be from one side of the account to the other.
LEMMA LandBudget ==
  ASSUME PickerAssumption, PickerInv, BudgetInv, NEW m \in Markets, Land(m)
  PROVE  BudgetInv'
<1>1. /\ Same
      /\ UNCHANGED <<steps, budget, failRate, failing, ended, waiting, reconciled, unresolved, opening>>
      /\ late[m] > 0 /\ late' = [late EXCEPT ![m] = 0]
  BY DEF Land, Same, fileVars, pickerVars, actorVars, envVars
<1>2. PICK k \in 0..late[m] : extra' = [extra EXCEPT ![m] = @ + k]
  BY DEF Land
<1>3. Amounts
  BY DEF BudgetInv
<1>4. /\ k \in Nat /\ k <= late[m] /\ late[m] \in Nat /\ extra[m] \in Nat /\ extra[m] + k \in Nat
      /\ extra'[m] = extra[m] + k /\ late'[m] = 0
      /\ \A n \in Markets \ {m} : extra'[n] = extra[n] /\ late'[n] = late[n]
  <2>1. late[m] \in Nat /\ extra[m] \in Nat
    BY <1>3 DEF Amounts
  <2>2. k \in Nat /\ k <= late[m] /\ extra[m] + k \in Nat
    BY <2>1, <1>2
  <2> QED BY <2>1, <2>2, <1>1, <1>2, <1>3 DEF Amounts
<1>5. Amounts'
  <2>1. extra' \in [Markets -> Nat] /\ late' \in [Markets -> Nat]
    BY <1>1, <1>2, <1>3, <1>4 DEF Amounts
  <2> QED BY <2>1, <1>1, <1>3 DEF Amounts
<1>6. FailedKnown'
  BY <1>1 DEF BudgetInv, FailedKnown, Same
<1>7. ReconciledClean'
  <2> SUFFICES ASSUME NEW q \in reconciled, ended[q] # "err", NEW n \in Legs(q)
               PROVE  extra'[n] = 0 /\ late'[n] = 0
    BY <1>1 DEF BudgetInv, ReconciledClean, Same
  <2>1. extra[n] = 0 /\ late[n] = 0 /\ q \in Pairs
    BY DEF BudgetInv, ReconciledClean
  <2>2. n \in Markets /\ n # m
    BY <2>1, <1>1 DEF Markets
  <2> QED BY <2>1, <2>2, <1>4
<1>8. ExtraManaged'
  <2> SUFFICES ASSUME NEW n \in Markets, extra'[n] # 0
               PROVE  \E q \in Trading(n) : Saved(q)
    BY <1>1 DEF ExtraManaged, Trading
  <2>1. CASE n = m
    <3>1. late[m] # 0
      BY <1>1, <1>4
    <3> QED BY <3>1, <2>1 DEF PickerInv, LateMarked, Trading, Shapes
  <2>2. CASE n # m
    BY <2>2, <1>4 DEF BudgetInv, ExtraManaged
  <2> QED BY <2>1, <2>2
<1>9. ASSUME NEW q \in Pairs PROVE Fits(q)'
  <2>1. ASSUME NEW n \in Legs(q)
        PROVE  extra'[n] \in Nat /\ late'[n] \in Nat /\ extra'[n] + late'[n] <= extra[n] + late[n]
    <3>1. n \in Markets /\ extra[n] \in Nat /\ late[n] \in Nat
      BY <1>3 DEF Markets, Amounts
    <3>2. CASE n = m
      <4>1. \A e, j, l \in Nat : j <= l => (e + j) + 0 <= e + l
        OBVIOUS
      <4> QED BY <3>2, <4>1, <1>4
    <3>3. CASE n # m
      <4>1. \A e, l \in Nat : e + l <= e + l
        BY AddNat
      <4> QED BY <3>1, <3>3, <4>1, <1>4
    <3> QED BY <3>2, <3>3
  <2> QED BY <2>1, <1>1, Undisturbed DEF Same
<1>10. WithinCap'
  BY <1>1, SameReserved DEF BudgetInv, Same
<1> QED BY <1>5, <1>6, <1>7, <1>8, <1>9, <1>10 DEF BudgetInv

\* Nobody is out there to answer for what is traded while the process is down.
LEMMA ExternalBudget ==
  ASSUME PickerAssumption, PickerInv, BudgetInv, External
  PROVE  BudgetInv'
<1>1. /\ ~up /\ Same
      /\ UNCHANGED <<steps, late, budget, failRate, failing, ended, waiting, reconciled, unresolved, opening>>
  BY DEF External, Same, fileVars, pickerVars, actorVars
<1>0. PICK p \in Pairs, k \in 1..PerStep :
        \E m \in Legs(p) : Saved(p) /\ extra' = [extra EXCEPT ![m] = @ + k]
  BY DEF External
<1>2. PICK m \in Legs(p) : Saved(p) /\ extra' = [extra EXCEPT ![m] = @ + k]
  BY <1>0
<1>3. m \in Markets /\ \A q \in Pairs : active[q] = "out"
  BY <1>1 DEF Markets, PickerInv, DownIdle
<1>4. Amounts
  BY DEF BudgetInv
<1>5. Amounts'
  <2>1. extra[m] \in Nat /\ k \in Nat
    BY <1>2, <1>3, <1>4, Sizes DEF Amounts
  <2>2. extra[m] + k \in Nat
    BY <2>1
  <2>3. extra' \in [Markets -> Nat]
    BY <2>2, <1>2, <1>4 DEF Amounts
  <2> QED BY <2>3, <1>1, <1>4 DEF Amounts
<1>6. FailedKnown' /\ ReconciledClean'
  <2>1. FailedKnown'
    BY <1>1 DEF BudgetInv, FailedKnown, Same
  <2>2. reconciled = {}
    BY <1>3 DEF BudgetInv, ReconciledClean
  <2> QED BY <2>1, <2>2, <1>1 DEF BudgetInv, ReconciledClean, Same
<1>7. ExtraManaged'
  <2> SUFFICES ASSUME NEW n \in Markets, extra'[n] # 0
               PROVE  \E q \in Trading(n) : Saved(q)
    BY <1>1 DEF ExtraManaged, Trading
  <2>1. CASE n = m
    BY <2>1, <1>2 DEF Trading
  <2>2. CASE n # m
    BY <2>2, <1>2, <1>4 DEF BudgetInv, ExtraManaged, Amounts
  <2> QED BY <2>1, <2>2
<1>8. ASSUME NEW q \in Pairs PROVE Fits(q)'
  BY <1>1, <1>3, Elsewhere DEF Same
<1>9. WithinCap'
  BY <1>1, SameReserved DEF BudgetInv, Same
<1> QED BY <1>5, <1>6, <1>7, <1>8, <1>9 DEF BudgetInv

LEMMA StutterBudget ==
  ASSUME PickerAssumption, PickerInv, BudgetInv, CalmDown \/ UNCHANGED vars
  PROVE  BudgetInv'
<1>1. /\ UNCHANGED <<up, active, steps, late, extra, budget, failRate, failing, ended>>
      /\ UNCHANGED <<waiting, reconciled, unresolved, opening>>
  BY DEF CalmDown, vars, fileVars, venueVars, pickerVars, actorVars, envVars
<1>2. Amounts' /\ FailedKnown' /\ ReconciledClean' /\ ExtraManaged'
  BY <1>1 DEF BudgetInv, Amounts, FailedKnown, ReconciledClean, ExtraManaged, Trading
<1>3. ASSUME NEW q \in Pairs PROVE Fits(q)'
  BY <1>1, Elsewhere
<1>4. WithinCap'
  BY <1>1, SameReserved DEF BudgetInv
<1> QED BY <1>2, <1>3, <1>4 DEF BudgetInv

\* A process that ends has no reservations to keep.
LEMMA DownBudget ==
  ASSUME PickerAssumption, PickerInv, BudgetInv, Down
  PROVE  BudgetInv'
<1>1. /\ UNCHANGED <<steps, unresolved, extra>> /\ up' = FALSE
      /\ late' = [m \in Markets |-> IF InFlight(m) = {} THEN late[m] ELSE late[m] + Orphaned(m)]
      /\ active' = [p \in Pairs |-> "out"] /\ budget' = [p \in Pairs |-> 0]
      /\ opening' = [p \in Pairs |-> NoStep]
      /\ waiting' = {} /\ reconciled' = {} /\ failing' = {} /\ failRate' = {}
  BY DEF Down, fileVars, envVars
<1>2. Amounts
  BY DEF BudgetInv
<1>3. \A m \in Markets : Orphaned(m) \in Nat
  <2> TAKE m \in Markets
  <2> DEFINE f == [p \in Pairs |-> On(m, p, opening[p])]
  <2>1. IsFiniteSet(InFlight(m)) /\ \A p \in InFlight(m) : f[p] \in Nat
    BY <1>2, PairsFinite, OrderAmounts DEF InFlight, Trading
  <2>2. Orphaned(m) = SumOf(f, InFlight(m))
    BY DEF Orphaned
  <2> HIDE DEF f
  <2> QED BY <2>1, <2>2, SumNat
<1>4. Amounts'
  <2>1. late' \in [Markets -> Nat]
    <3>1. \A a, b \in Nat : a + b \in Nat
      BY AddNat
    <3> QED BY <3>1, <1>1, <1>2, <1>3 DEF Amounts
  <2>2. 0 \in Nat
    OBVIOUS
  <2> QED BY <2>1, <2>2, <1>1, <1>2 DEF Amounts
<1>5. FailedKnown' /\ ReconciledClean'
  BY <1>1 DEF FailedKnown, ReconciledClean
<1>6. ExtraManaged'
  BY <1>1 DEF BudgetInv, ExtraManaged, Trading
<1>7. ASSUME NEW q \in Pairs PROVE Fits(q)'
  BY <1>1 DEF Fits, OpeningFits, TradingReserved, Covered, UnpricedHolds
<1>8. WithinCap'
  BY <1>1 DEF WithinCap
<1> QED BY <1>4, <1>5, <1>6, <1>7, <1>8 DEF BudgetInv

LEMMA InitBudget ==
  ASSUME PickerAssumption, Init
  PROVE  BudgetInv
<1>1. Amounts
  <2>1. steps \in [Pairs -> Seq(Step)] /\ 0 \in Nat
    BY DEF Init, PickerAssumption
  <2>2. /\ opening = [p \in Pairs |-> NoStep] /\ extra = [m \in Markets |-> 0]
        /\ late = [m \in Markets |-> 0] /\ budget = [p \in Pairs |-> 0]
    BY DEF Init
  <2> QED BY <2>1, <2>2 DEF Amounts
<1>2. /\ \A p \in Pairs : active[p] = "out" /\ ~Opening(p)
      /\ reconciled = {} /\ waiting = {} /\ failing = {} /\ failRate = {}
      /\ \A m \in Markets : extra[m] = 0
  BY DEF Init
<1>3. FailedKnown /\ ReconciledClean /\ ExtraManaged
  BY <1>2 DEF FailedKnown, ReconciledClean, ExtraManaged
<1>4. ASSUME NEW p \in Pairs PROVE Fits(p)
  BY <1>2 DEF Fits, OpeningFits, TradingReserved, Covered, UnpricedHolds
<1>5. WithinCap
  BY <1>2 DEF WithinCap
<1> QED BY <1>1, <1>3, <1>4, <1>5 DEF BudgetInv

\* What a saved pair is given at a restart covers what its markets hold, and, if it is
\* to trade on, all its steps.
LEMMA RestoreAmounts ==
  ASSUME PickerAssumption, Amounts, LedgersApart, NEW p \in Pairs, Saved(p)
  PROVE  /\ Used(p) \in Nat /\ FullBudget(p) \in Nat
         /\ Priced(p) => Reserved(p) <= FullBudget(p)
         /\ ~Priced(p) /\ Cap > 0 => Used(p) >= Cap
         /\ \A m \in Legs(p) : extra[m] + Booked(m, p) <= Used(p)
         /\ Priced(p) => \A m \in Legs(p) : extra[m] + Booked(m, p) <= FullBudget(p)
<1>0. \A i, j, k \in Nat : i <= j /\ j <= k => i <= k
  BY AtMostTransitive
<1>1. PICK t \in Seq(Step) : t = steps[p]
  BY OrderAmounts
<1>2. PICK a \in Nat, b \in Nat, r \in Nat :
        /\ a = Ledger("left", t) /\ b = Ledger("right", t) /\ r = Kept(t) /\ a <= r /\ b <= r
  <2>1. "left" \in Ways /\ "right" \in Ways
    BY DEF Ways
  <2> QED BY <2>1, LedgerNat, KeptRoom, KeptNat
<1>3. LedgerUsed(p) = Larger(a, b) /\ Reserved(p) = r
  BY <1>1, <1>2, LedgerViews
<1>4. PICK l \in Nat : l = LedgerUsed(p) /\ l <= r
  <2>1. Larger(a, b) \in Nat /\ Larger(a, b) <= r
    BY <1>2 DEF Larger
  <2> QED BY <2>1, <1>3
<1>5. \A m \in Legs(p) : Held(m) = extra[m] + Booked(m, p) /\ Held(m) \in Nat
  <2> TAKE m \in Legs(p)
  <2>1. \A q \in Pairs : q # p /\ m \in Legs(q) => steps[q] = <<>>
    BY DEF LedgersApart, candidatesOverlap
  <2> QED BY <2>1, HeldAlone
<1>6. PICK h \in Nat : h = Actual(p) /\ \A m \in Legs(p) : Held(m) <= h
  <2>1. PICK x \in Nat, y \in Nat : x = Held(Left[p]) /\ y = Held(Right[p])
    BY <1>5
  <2>2. Larger(x, y) \in Nat /\ x <= Larger(x, y) /\ y <= Larger(x, y)
    BY DEF Larger
  <2>3. Actual(p) = Larger(x, y) /\ \A m \in Legs(p) : Held(m) = x \/ Held(m) = y
    BY <2>1 DEF Actual
  <2> QED BY <2>2, <2>3
<1>7. PICK s \in Nat : s = Larger(l, h) /\ l <= s /\ h <= s
  <2>1. Larger(l, h) \in Nat /\ l <= Larger(l, h) /\ h <= Larger(l, h)
    BY DEF Larger
  <2> QED BY <2>1
<1>8. PICK u \in Nat : u = Used(p) /\ s <= u /\ (~Priced(p) /\ Cap > 0 => u >= Cap)
  <2>1. Used(p) = IF Priced(p) \/ Cap = 0 THEN s ELSE Larger(s, Cap)
    BY <1>4, <1>6, <1>7 DEF Used
  <2>2. Larger(s, Cap) \in Nat /\ s <= Larger(s, Cap) /\ Cap <= Larger(s, Cap) /\ s <= s /\ Cap \in Nat
    BY Sizes DEF Larger
  <2> QED BY <2>1, <2>2
<1>9. PICK f \in Nat : f = FullBudget(p) /\ (Priced(p) => r <= f /\ s <= f)
  <2>1. PICK n \in Nat : n = r + s - l /\ r <= n /\ s <= n
    <3>1. r + s - l \in Nat /\ r <= r + s - l /\ s <= r + s - l
      BY <1>4, <1>7
    <3> QED BY <3>1
  <2>2. FullBudget(p) = IF Priced(p) \/ Cap = 0 THEN n ELSE Larger(n, u)
    BY <2>1, <1>3, <1>4, <1>6, <1>7, <1>8 DEF FullBudget
  <2>3. Larger(n, u) \in Nat
    BY DEF Larger
  <2> QED BY <2>1, <2>2, <2>3
<1>10. ASSUME NEW m \in Legs(p)
       PROVE  /\ extra[m] + Booked(m, p) <= u
              /\ Priced(p) => extra[m] + Booked(m, p) <= f
  <2>1. PICK x \in Nat : x = extra[m] + Booked(m, p) /\ x <= h
    BY <1>5, <1>6
  <2>2. x <= u /\ (Priced(p) => x <= f)
    <3>2. x <= s
      BY <1>0, <2>1, <1>7
    <3>3. x <= u
      BY <1>0, <3>2, <1>8
    <3>4. ASSUME Priced(p) PROVE x <= f
      BY <1>0, <3>2, <3>4, <1>9
    <3> QED BY <3>3, <3>4
  <2> QED BY <2>1, <2>2
<1> QED BY <1>3, <1>8, <1>9, <1>10

LEMMA RestoreBudget ==
  ASSUME PickerAssumption, PickerInv, BudgetInv, Restore
  PROVE  BudgetInv'
<1>1. /\ ~up /\ LedgersApart
      /\ UNCHANGED <<steps, unresolved, extra, late, opening, ended, reconciled, failing, failRate>>
      /\ waiting' = unresolved
  BY DEF Restore, fileVars, venueVars, actorVars
<1>2. PICK T \in SUBSET SavedPairs :
        /\ Plan(T)
        /\ active' = [p \in Pairs |-> IF p \notin SavedPairs THEN "out"
                                      ELSE IF p \in T THEN "trading" ELSE "draining"]
        /\ budget' = [p \in Pairs |-> IF p \notin SavedPairs THEN 0
                                      ELSE IF p \in T THEN FullBudget(p) ELSE Used(p)]
  BY DEF Restore
<1>3. Amounts /\ \A p \in Pairs : p \in SavedPairs <=> Saved(p)
  BY DEF BudgetInv, SavedPairs
<1>4. /\ \A p \in Pairs : ~Opening(p) /\ active[p] = "out"
      /\ reconciled = {} /\ failing = {}
  <2>1. \A p \in Pairs : ~Opening(p) /\ active[p] = "out"
    BY <1>1 DEF PickerInv, DownIdle
  <2> QED BY <2>1, <1>1 DEF BudgetInv, ReconciledClean, FailedKnown
<1>5. \A p \in SavedPairs : Used(p) \in Nat /\ FullBudget(p) \in Nat
  BY <1>1, <1>3, RestoreAmounts DEF SavedPairs
<1>6. \A p \in T : p \in SavedPairs /\ Priced(p)
  BY <1>2 DEF Plan
<1>7. Amounts'
  <2>1. budget' \in [Pairs -> Nat]
    BY <1>2, <1>5
  <2> QED BY <2>1, <1>1, <1>3 DEF Amounts
<1>8. FailedKnown' /\ ReconciledClean' /\ ExtraManaged'
  BY <1>1, <1>4 DEF BudgetInv, FailedKnown, ReconciledClean, ExtraManaged, Trading
<1>9. ASSUME NEW p \in Pairs PROVE Fits(p)'
  <2>1. CASE p \notin SavedPairs
    <3>1. active'[p] = "out" /\ ~Opening(p)'
      BY <2>1, <1>1, <1>2, <1>4
    <3> QED BY <3>1 DEF Fits, OpeningFits, TradingReserved, Covered, UnpricedHolds
  <2>2. CASE p \in SavedPairs
    <3>1. (Priced(p)' <=> Priced(p)) /\ Reserved(p)' = Reserved(p) /\ \A m : Booked(m, p)' = Booked(m, p)
      BY <1>1, LedgerViews DEF Priced
    <3>2. /\ Priced(p) => Reserved(p) <= FullBudget(p)
          /\ ~Priced(p) /\ Cap > 0 => Used(p) >= Cap
          /\ \A m \in Legs(p) : extra[m] + Booked(m, p) <= Used(p)
          /\ Priced(p) => \A m \in Legs(p) : extra[m] + Booked(m, p) <= FullBudget(p)
      BY <2>2, <1>1, <1>3, RestoreAmounts
    <3>3. /\ budget'[p] = IF p \in T THEN FullBudget(p) ELSE Used(p)
          /\ active'[p] = "trading" => p \in T
      BY <2>2, <1>2
    <3>4. OpeningFits(p)'
      BY <1>1, <1>4 DEF OpeningFits
    <3>5. TradingReserved(p)'
      BY <3>1, <3>2, <3>3, <1>6 DEF TradingReserved
    <3>6. UnpricedHolds(p)'
      BY <3>1, <3>2, <3>3, <1>6 DEF UnpricedHolds
    <3>7. Covered(p)'
      <4> SUFFICES ASSUME Priced(p), NEW m \in Legs(p)
                   PROVE  Unbooked(p, m)' + On(m, p, opening[p]) + Booked(m, p) <= budget'[p]
        BY <1>1, <3>1 DEF Covered
      <4>1. PICK e \in Nat, b \in Nat, n \in Nat :
              e = extra[m] /\ b = Booked(m, p) /\ n = budget'[p]
        BY <1>3, <1>7, OrderAmounts DEF Amounts, Markets
      <4>2. e + b <= n
        BY <4>1, <3>2, <3>3
      <4>3. On(m, p, opening[p]) = 0
        BY <1>3, <1>4, OrderAmounts
      <4>4. Unbooked(p, m)' = 0 \/ Unbooked(p, m)' = e
        <5>1. CASE p \in unresolved
          BY <5>1, <1>1 DEF Unbooked
        <5>2. CASE p \notin unresolved
          <6>1. late[m] = 0
            <7>1. m \in Markets
              BY DEF Markets
            <7>2. ASSUME late[m] # 0 PROVE FALSE
              <8>1. PICK q \in unresolved : m \in Legs(q)
                BY <7>1, <7>2 DEF PickerInv, LateMarked
              <8>2. q \in Pairs /\ q # p /\ Saved(q) /\ Saved(p)
                BY <8>1, <5>2, <2>2, <1>3 DEF PickerInv, Shapes
              <8> QED BY <8>1, <8>2, <1>1 DEF LedgersApart, candidatesOverlap
            <7> QED BY <7>2
          <6>2. Unbooked(p, m)' = e + 0
            BY <6>1, <5>2, <4>1, <1>1 DEF Unbooked
          <6> QED BY <6>2
        <5> QED BY <5>1, <5>2
      <4>5. \A x, y, z \in Nat : x + y <= z => x + 0 + y <= z /\ 0 + 0 + y <= z
        OBVIOUS
      <4>6. e + 0 + b <= n /\ 0 + 0 + b <= n
        BY <4>2, <4>5
      <4> QED BY <4>1, <4>3, <4>4, <4>6
    <3> QED BY <3>4, <3>5, <3>6, <3>7 DEF Fits
  <2> QED BY <2>1, <2>2
<1>10. WithinCap'
  <2> SUFFICES ASSUME Cap > 0, NEW p \in Pairs, active'[p] = "trading"
               PROVE  SumOf(budget', {q \in Pairs : active'[q] # "out"}) <= Cap
    BY <1>1, <1>4 DEF WithinCap
  <2> DEFINE R == {e \in Pairs \X Pairs : e[1] < e[2]}
  <2>1. T # {} /\ IsFiniteSet(T) /\ T \subseteq Pairs /\ IsFiniteSet(SavedPairs)
    BY <1>2, PairsFinite DEF SavedPairs
  <2>2. \A x, y \in Pairs : <<x, y>> \in R <=> x < y
    OBVIOUS
  <2>3. \A x \in Pairs : x \in Int
    BY DEF Pairs
  <2> HIDE DEF R
  <2>4. PICK k \in T : \A q \in T : q # k => <<q, k>> \in R
    <3>1. Ordered(R, T)
      <4>1. \A x, y, z \in Pairs : x < y /\ y < z => x < z
        BY <2>3
      <4>2. \A x, y \in Pairs : x # y => x < y \/ y < x
        BY <2>3
      <4> QED BY <4>1, <4>2, <2>1, <2>2 DEF Ordered
    <3>2. PICK k : IsLast(R, T, k)
      BY <2>1, <3>1, LastExists
    <3> QED BY <3>2 DEF IsLast
  <2>5. \A q \in T : q = k \/ q < k
    BY <2>1, <2>2, <2>4
  <2> DEFINE g == [q \in Pairs |-> IF q = k \/ (q \in T /\ q < k) THEN FullBudget(q) ELSE Used(q)]
  <2>6. \A q \in SavedPairs : g[q] = budget'[q] /\ budget'[q] \in Int
    BY <1>2, <1>7, <2>4, <2>5 DEF Amounts, SavedPairs
  <2>7. Planned(T, k) = SumOf(g, SavedPairs)
    BY DEF Planned
  <2>8. ~OverCap(Planned(T, k))
    BY <1>2, <2>4 DEF Plan
  <2> HIDE DEF g
  <2>9. SumOf(g, SavedPairs) = SumOf(budget', SavedPairs)
    BY <2>1, <2>6, SumCongruent
  <2>10. SumOf(budget', SavedPairs) \in Nat
    BY <1>7, <2>1, SumNat DEF Amounts, SavedPairs
  <2>11. SumOf(budget', SavedPairs) <= Cap
    BY <2>7, <2>8, <2>9, <2>10, Sizes DEF OverCap
  <2>12. {q \in Pairs : active'[q] # "out"} = SavedPairs
    BY <1>2 DEF SavedPairs
  <2> QED BY <2>11, <2>12
<1> QED BY <1>7, <1>8, <1>9, <1>10 DEF BudgetInv

LEMMA PollBudget ==
  ASSUME PickerAssumption, PickerInv, BudgetInv, Poll
  PROVE  BudgetInv'
<1>1. PICK score, desired, sized, promoted : Polled(score, desired, sized, promoted)
  BY PollStep
<1>2. /\ up /\ UNCHANGED <<steps, unresolved, extra, late, up, waiting, opening>>
  BY DEF Poll, fileVars, venueVars
<1>3. Amounts /\ \A p \in Pairs : Saved(p) => Present(p)
  BY <1>2 DEF BudgetInv, PickerInv, SavedManaged, ConfirmedEmpty, Present, Gone
<1>4. /\ promoted \subseteq Pairs
      /\ \A p \in promoted : ~Present(p) /\ MayPromote(Ahead(score, promoted, p), p, sized)
      /\ budget' = [p \in Pairs |-> IF p \in promoted THEN PerStep * MaxSteps
                                    ELSE IF Gone(p) THEN 0 ELSE budget[p]]
      /\ failRate' = {p \in Pairs : Failed(p)} /\ failing' = failing \ promoted
      /\ reconciled' = {p \in reconciled : ~Gone(p)}
      /\ ended' = [p \in Pairs |-> IF Gone(p) THEN "no" ELSE ended[p]]
  BY <1>1 DEF Polled, selectPairs
<1>5. \A p \in Pairs : /\ active'[p] # "out" <=> p \in promoted \/ Present(p)
                       /\ active'[p] = "trading" => p \in promoted \/ active[p] = "trading"
  <2>1. active' = [p \in Pairs |->
             IF p \in promoted THEN "trading"
             ELSE IF Gone(p) THEN "out"
             ELSE IF p \in Drain(desired) THEN "draining"
             ELSE IF Drained(p) THEN "stopping"
             ELSE active[p]]
    BY <1>1 DEF Polled, selectPairs
  <2> TAKE p \in Pairs
  <2>2. p \in Drain(desired) => Present(p)
    BY DEF Drain, Lagging, Present, Gone
  <2>3. Drained(p) => Present(p)
    BY DEF Drained, Present, Gone
  <2> QED BY <2>1, <2>2, <2>3 DEF Present, Gone
<1>6. PerStep * MaxSteps \in Nat /\ Kept(<<>>) = PerStep * MaxSteps
  BY KeptEmpty
<1>7. Amounts'
  <2>1. budget' \in [Pairs -> Nat]
    <3>1. PICK n \in Nat : n = PerStep * MaxSteps
      BY <1>6
    <3>2. 0 \in Nat
      OBVIOUS
    <3> QED BY <3>1, <3>2, <1>3, <1>4 DEF Amounts
  <2> QED BY <2>1, <1>2, <1>3 DEF Amounts
<1>8. FailedKnown'
  BY <1>2, <1>4, <1>5 DEF BudgetInv, FailedKnown, Failed, Present
<1>9. ReconciledClean'
  <2>1. \A p \in reconciled' : p \in reconciled /\ p \in Pairs /\ active'[p] # "out" /\ ended'[p] = ended[p]
    BY <1>4, <1>5 DEF BudgetInv, ReconciledClean, Present
  <2> QED BY <2>1, <1>2 DEF BudgetInv, ReconciledClean
<1>10. ExtraManaged'
  BY <1>2 DEF BudgetInv, ExtraManaged, Trading
\* Nothing is left on the markets of a pair that starts afresh.
<1>11. ASSUME NEW p \in promoted
       PROVE  /\ steps[p] = <<>> /\ p \notin waiting /\ ~Opening(p)
              /\ \A m \in Legs(p) : extra[m] = 0 /\ late[m] = 0
  <2>1. p \in Pairs /\ ~Saved(p) /\ startupRecoveryReady
    BY <1>3, <1>4 DEF MayPromote
  <2>2. ~Opening(p)
    BY <2>1 DEF PickerInv, OpeningMarked
  <2>3. ASSUME NEW m \in Legs(p), NEW q \in Pairs, m \in Legs(q), Saved(q) PROVE FALSE
    <3>1. q \in Ahead(score, promoted, p)
      BY <2>3, <1>3 DEF Ahead
    <3>2. ~candidatesOverlap(p, q)
      BY <3>1, <1>4 DEF MayPromote
    <3> QED BY <3>2, <2>3 DEF candidatesOverlap
  <2>4. ASSUME NEW m \in Legs(p) PROVE extra[m] = 0 /\ late[m] = 0
    <3>1. m \in Markets
      BY <2>1 DEF Markets
    <3>2. extra[m] # 0 => \E q \in Pairs : m \in Legs(q) /\ Saved(q)
      BY <3>1 DEF BudgetInv, ExtraManaged, Trading
    <3>3. late[m] # 0 => \E q \in Pairs : m \in Legs(q) /\ Saved(q)
      BY <3>1 DEF PickerInv, LateMarked, Shapes
    <3> QED BY <2>3, <3>2, <3>3
  <2> QED BY <2>1, <2>2, <2>4
<1>12. ASSUME NEW p \in Pairs PROVE Fits(p)'
  <2>1. CASE p \in promoted
    <3>1. steps'[p] = <<>> /\ Priced(p)' /\ ~Opening(p)' /\ budget'[p] = PerStep * MaxSteps
      BY <2>1, <1>2, <1>4, <1>11 DEF Priced
    <3>2. OpeningFits(p)' /\ UnpricedHolds(p)'
      BY <3>1 DEF OpeningFits, UnpricedHolds
    <3>3. TradingReserved(p)'
      <4>1. Reserved(p)' = PerStep * MaxSteps
        BY <3>1, <1>6, LedgerViews
      <4>2. \A n \in Nat : n <= n
        OBVIOUS
      <4>3. Reserved(p)' <= budget'[p]
        BY <4>1, <4>2, <3>1, <1>6
      <4> QED BY <4>3, <3>1 DEF TradingReserved
    <3>4. Covered(p)'
      <4> SUFFICES ASSUME NEW m \in Legs(p)
                   PROVE  Unbooked(p, m)' + On(m, p, opening[p]) + Booked(m, p)' <= budget'[p]
        BY <1>2 DEF Covered
      <4>1. Unbooked(p, m)' = 0
        BY <2>1, <1>2, <1>11 DEF Unbooked
      <4>2. On(m, p, opening[p]) = 0
        BY <2>1, <1>3, <1>11, OrderAmounts
      <4>3. Booked(m, p)' = 0
        <5>1. <<>> \in Seq(Step)
          OBVIOUS
        <5> QED BY <5>1, <3>1, LedgerViews, LedgerNat, Sizes
      <4>4. \A n \in Nat : 0 + 0 + 0 <= n
        OBVIOUS
      <4> QED BY <4>1, <4>2, <4>3, <4>4, <3>1, <1>6
    <3> QED BY <3>2, <3>3, <3>4 DEF Fits
  <2>2. CASE p \notin promoted /\ Gone(p)
    <3>1. active'[p] = "out"
      BY <2>2, <1>5 DEF Present
    <3>2. OpeningFits(p)
      BY DEF BudgetInv, Fits
    <3>3. OpeningFits(p)'
      BY <3>2, <1>2 DEF OpeningFits, Priced
    <3> QED BY <3>1, <3>3 DEF Fits, TradingReserved, Covered, UnpricedHolds
  <2>3. CASE p \notin promoted /\ ~Gone(p)
    <3>1. /\ budget'[p] = budget[p]
          /\ active'[p] # "out" => active[p] # "out"
          /\ active'[p] = "trading" => active[p] = "trading"
      BY <2>3, <1>4, <1>5 DEF Present
    <3>2. \A m \in Legs(p) : extra[m] \in Nat /\ late[m] \in Nat
      BY <1>3 DEF Amounts, Markets
    <3>3. \A a, b \in Nat : a + b <= a + b
      BY AddNat
    <3> QED BY <3>1, <3>2, <3>3, <1>2, Undisturbed
  <2> QED BY <2>1, <2>2, <2>3
<1>13. WithinCap'
  <2> DEFINE After == {q \in Pairs : active'[q] # "out"}
  <2> SUFFICES ASSUME Cap > 0, NEW p \in Pairs, active'[p] = "trading" \/ opening[p] # NoStep
               PROVE  SumOf(budget', After) <= Cap
    BY <1>2 DEF WithinCap
  <2>1. IsFiniteSet(After) /\ After \subseteq Pairs
    BY PairsFinite
  <2>2. CASE promoted = {}
    <3>1. After \subseteq Active
      BY <1>5, <2>2 DEF Present
    <3>2. SumOf(budget, Active) <= Cap
      <4>1. active[p] = "trading" \/ Opening(p)
        BY <1>5, <2>2
      <4> QED BY <4>1 DEF BudgetInv, WithinCap
    <3>3. \A q \in After : budget'[q] = budget[q]
      BY <1>4, <1>5, <2>2 DEF Present
    <3>4. SumOf(budget', After) <= SumOf(budget, Active)
      <4>1. IsFiniteSet(Active) /\ Active \subseteq Pairs
        BY PairsFinite
      <4>2. \A q \in Active : budget'[q] \in Int /\ budget[q] \in Nat
        BY <1>3, <1>7 DEF Amounts
      <4>3. \A q \in After : budget'[q] <= budget[q]
        BY <3>1, <3>3, <4>1, <4>2
      <4> HIDE DEF After
      <4> QED BY <3>1, <4>1, <4>2, <4>3, SumMonotone
    <3>5. SumOf(budget', After) \in Nat /\ SumOf(budget, Active) \in Nat
      <4>1. IsFiniteSet(Active) /\ \A q \in Active : budget[q] \in Nat
        BY PairsFinite, <1>3 DEF Amounts
      <4>2. \A q \in After : budget'[q] \in Nat
        BY <1>7 DEF Amounts
      <4> HIDE DEF After
      <4> QED BY <2>1, <4>1, <4>2, SumNat
    <3> QED BY <3>2, <3>4, <3>5, Sizes
  <2>3. CASE promoted # {}
    <3> DEFINE R == {e \in Pairs \X Pairs : Before(score, e[1], e[2])}
    <3>1. \A x, y \in Pairs : <<x, y>> \in R <=> Before(score, x, y)
      OBVIOUS
    <3>2. \A x \in Pairs : x \in Int /\ score[x] \in Nat
      <4>1. score \in [Pairs -> Scores] /\ Scores \subseteq Nat
        BY <1>1 DEF Polled, Views, PickerInv, Shapes, PickerAssumption
      <4>2. \A x \in Pairs : score[x] \in Nat
        BY <4>1
      <4>3. \A x \in Pairs : x \in Int
        BY DEF Pairs
      <4> QED BY <4>2, <4>3
    <3> HIDE DEF R
    <3>3. PICK k \in promoted : \A q \in promoted : q # k => <<q, k>> \in R
      <4>1. \A x, y, z \in Pairs : Before(score, x, y) /\ Before(score, y, z) => Before(score, x, z)
        BY <3>2 DEF Before
      <4>2. \A x, y \in Pairs : x # y => Before(score, x, y) \/ Before(score, y, x)
        BY <3>2 DEF Before
      <4>3. Ordered(R, promoted)
        BY <3>1, <4>1, <4>2, <1>4 DEF Ordered
      <4>4. IsFiniteSet(promoted)
        BY <1>4, PairsFinite
      <4>5. PICK k : IsLast(R, promoted, k)
        BY <2>3, <4>3, <4>4, LastExists
      <4> QED BY <4>5 DEF IsLast
    <3> DEFINE S == Ahead(score, promoted, k)
               g == [q \in Pairs |-> IF Present(q) THEN budget[q] ELSE PerStep * MaxSteps]
    <3>4. k \in Pairs /\ ~Present(k) /\ ~Before(score, k, k)
      BY <3>2, <1>4 DEF Before
    <3>5. After = S \cup {k} /\ k \notin S /\ IsFiniteSet(S) /\ S \subseteq Pairs
      <4>1. \A q \in promoted : q = k \/ Before(score, q, k)
        BY <3>1, <3>3, <1>4
      <4>2. S \subseteq Pairs /\ k \notin S
        BY <3>4 DEF Ahead
      <4>3. \A q \in Pairs : q \in After <=> q \in S \/ q = k
        BY <4>1, <1>5, <3>3 DEF Ahead
      <4> QED BY <4>2, <4>3, <3>4, PairsFinite
    <3>6. \A q \in S : g[q] = budget'[q] /\ g[q] \in Int
      <4>1. \A q \in S : q \in Pairs /\ (Present(q) \/ q \in promoted)
        BY DEF Ahead
      <4>2. \A q \in Pairs : Present(q) => ~Gone(q) /\ q \notin promoted
        BY <1>4 DEF Present
      <4>3. PICK n \in Nat : n = PerStep * MaxSteps
        BY <1>6
      <4> QED BY <4>1, <4>2, <4>3, <1>3, <1>4 DEF Amounts
    <3>7. ~OverCap(PerStep * MaxSteps + SumOf(g, S))
      BY <1>4 DEF MayPromote, Room
    <3>8. budget'[k] = PerStep * MaxSteps /\ \A q \in S \cup {k} : budget'[q] \in Nat
      BY <1>4, <1>7, <3>4, <3>5 DEF Amounts
    <3> HIDE DEF S, g, After
    <3>9. SumOf(g, S) = SumOf(budget', S)
      BY <3>5, <3>6, SumCongruent
    <3>10. SumOf(budget', S \cup {k}) = budget'[k] + SumOf(budget', S)
      <4>1. \A q \in S \cup {k} : budget'[q] \in Int
        BY <3>8
      <4> QED BY <4>1, <3>5, SumAdd
    <3>11. SumOf(budget', S) \in Nat
      BY <3>5, <3>8, SumNat
    <3>12. PICK n \in Nat, a \in Nat : n = PerStep * MaxSteps /\ a = SumOf(budget', S)
      BY <1>6, <3>11
    <3>13. ~OverCap(n + a) /\ SumOf(budget', After) = n + a
      BY <3>5, <3>7, <3>8, <3>9, <3>10, <3>12
    <3> QED BY <3>12, <3>13, Sizes DEF OverCap
  <2> QED BY <2>2, <2>3
<1> QED BY <1>7, <1>8, <1>9, <1>10, <1>12, <1>13 DEF BudgetInv

\* Reservations cover what the account holds and may come to hold, and fit it.
LEMMA BudgetInvariant == Spec => []BudgetInv
<1>1. Init => BudgetInv
  BY InitBudget, PickerAssumption
<1>2. ASSUME PickerInv, BudgetInv, [Next]_vars PROVE BudgetInv'
  <2>1. CASE Restore
    BY <1>2, <2>1, RestoreBudget, PickerAssumption
  <2>2. CASE Poll
    BY <1>2, <2>2, PollBudget, PickerAssumption
  <2>3. CASE PickerFails \/ Stop
    BY <1>2, <2>3, DownBudget, PickerAssumption DEF PickerFails, Stop
  <2>4. CASE \E p \in Pairs : \/ Reconcile(p) \/ Unwind(p) \/ Open(p) \/ Fill(p) \/ Close(p)
                             \/ ChangeRate(p) \/ ActorEnds(p) \/ ActorFails(p)
    BY <1>2, <2>4, PickerAssumption, ReconcileBudget, UnwindBudget, OpenBudget, FillBudget,
       CloseBudget, EndsBudget, FailsBudget
  <2>5. CASE (\E m \in Markets : Land(m)) \/ External
    BY <1>2, <2>5, LandBudget, ExternalBudget, PickerAssumption
  <2>6. CASE CalmDown \/ UNCHANGED vars
    BY <1>2, <2>6, StutterBudget, PickerAssumption
  <2> QED BY <1>2, <2>1, <2>2, <2>3, <2>4, <2>5, <2>6 DEF Next
<1> QED BY <1>1, <1>2, PickerInvariant, PTL DEF Spec

\* Every market that holds a position is one of a saved pair, so that the next process can
\* take it over (restorePairs).
THEOREM PositionsManaged == Spec => []NoOrphanPosition
<1>1. ASSUME BudgetInv PROVE NoOrphanPosition
  <2> SUFFICES ASSUME NEW m \in Markets, \A p \in Trading(m) : ~Saved(p)
               PROVE  Held(m) = 0
    BY DEF NoOrphanPosition, PositionsCovered
  <2> DEFINE f == [p \in Pairs |-> Booked(m, p)]
  <2>1. extra[m] = 0
    BY <1>1 DEF BudgetInv, ExtraManaged
  <2>2. IsFiniteSet(Trading(m)) /\ \A p \in Trading(m) : f[p] = 0
    BY <1>1, PairsFinite, OrderAmounts, PickerAssumption DEF BudgetInv, Trading
  <2>3. Held(m) = extra[m] + SumOf(f, Trading(m))
    BY DEF Held
  <2> HIDE DEF f
  <2> QED BY <2>1, <2>2, <2>3, SumZero
<1> QED BY <1>1, BudgetInvariant, PTL

LEMMA ExposureCovered ==
  ASSUME PickerAssumption, PickerInv, BudgetInv, up, NEW p \in Active, Priced(p), p \notin waiting
  PROVE  Exposure(p) \in Nat /\ Exposure(p) <= budget[p]
<1>1. Amounts /\ p \in Pairs /\ Covered(p)
  BY DEF BudgetInv, Fits
<1>2. ASSUME NEW m \in Legs(p)
      PROVE  Held(m) + On(m, p, opening[p]) \in Nat /\ Held(m) + On(m, p, opening[p]) <= budget[p]
  <2>1. Held(m) = extra[m] + Booked(m, p)
    <3>1. \A q \in Pairs : q # p /\ m \in Legs(q) => steps[q] = <<>>
      BY DEF PickerInv, MarketsApart, SavedManaged, candidatesOverlap
    <3> QED BY <1>1, <3>1, HeldAlone
  <2>2. PICK e \in Nat, l \in Nat, b \in Nat, o \in Nat, n \in Nat :
          /\ e = extra[m] /\ l = late[m] /\ b = Booked(m, p) /\ o = On(m, p, opening[p])
          /\ n = budget[p]
    <3>1. m \in Markets /\ extra[m] \in Nat /\ late[m] \in Nat
      BY <1>1 DEF Amounts, Markets
    <3>2. Booked(m, p) \in Nat /\ On(m, p, opening[p]) \in Nat /\ budget[p] \in Nat
      BY <1>1, OrderAmounts
    <3> QED BY <3>1, <3>2
  <2>3. (e + l) + o + b <= n
    BY <1>1, <2>2 DEF Covered, Unbooked
  <2>4. (e + b) + o \in Nat /\ (e + b) + o <= n
    <3>1. \A i, j, k, h, x \in Nat : (i + j) + k + h <= x => (i + h) + k \in Nat /\ (i + h) + k <= x
      OBVIOUS
    <3> QED BY <2>3, <3>1
  <2> QED BY <2>1, <2>2, <2>4
<1>3. /\ Held(Left[p]) + OnLeft(opening[p]) \in Nat
      /\ Held(Left[p]) + OnLeft(opening[p]) <= budget[p]
      /\ Held(Right[p]) + OnRight(opening[p]) \in Nat
      /\ Held(Right[p]) + OnRight(opening[p]) <= budget[p]
  <2>1. On(Left[p], p, opening[p]) = OnLeft(opening[p]) /\ On(Right[p], p, opening[p]) = OnRight(opening[p])
    BY <1>1 DEF On, PickerAssumption
  <2> QED BY <1>2, <2>1
<1> QED BY <1>3 DEF Exposure, Larger

\* The reservation of a recovered actor covers what it holds and may come to hold, through
\* every sequence of closed, replaced and partly filled steps (promote, restorePairs).
THEOREM ReservationsSuffice == Spec => []ReservationCovers
<1>1. ASSUME PickerInv, BudgetInv PROVE ReservationCovers
  <2> SUFFICES ASSUME NEW p \in Active, p \in reconciled, Priced(p)
               PROVE  Exposure(p) <= budget[p]
    BY DEF ReservationCovers
  <2>1. up
    BY <1>1 DEF PickerInv, DownIdle
  <2>2. p \notin waiting
    BY <1>1 DEF BudgetInv, ReconciledClean
  <2> QED BY <1>1, <2>1, <2>2, ExposureCovered, PickerAssumption
<1> QED BY <1>1, PickerInvariant, BudgetInvariant, PTL

\* No order opens a position unless the whole account, with what nobody has a ledger for,
\* fits max_total_notional with that order filled (promote, restorePairs).
THEOREM CapIsKept == Spec => []OpensWithinCap
<1>1. ASSUME PickerInv, BudgetInv PROVE OpensWithinCap
  <2> SUFFICES ASSUME Cap > 0, NEW o \in Pairs, Opening(o)
               PROVE  SumOf([p \in Pairs |-> Exposure(p)], SavedPairs) <= Cap
    BY DEF OpensWithinCap
  <2>1. /\ up /\ o \in Active /\ waiting = {}
    BY <1>1 DEF PickerInv, DownIdle, OpeningMarked
  <2>2. Amounts /\ IsFiniteSet(Active) /\ Active \subseteq Pairs /\ \A p \in Active : budget[p] \in Nat
    BY <1>1, PairsFinite, PickerAssumption DEF BudgetInv, Amounts
  <2>3. SumOf(budget, Active) <= Cap
    BY <1>1 DEF BudgetInv, WithinCap
  <2>4. Priced(o) /\ budget[o] > 0
    <3>1. opening[o] \in Step /\ opening[o].openL > 0 /\ Priced(o)
      BY <1>1, <2>2 DEF BudgetInv, Fits, OpeningFits, Amounts
    <3>2. PICK x \in Nat, y \in Nat : x = opening[o].qty /\ y = opening[o].openL /\ x > 0 /\ y > 0
      BY <3>1 DEF Step
    <3>3. x * y > 0 /\ x * y \in Nat
      <4>1. PICK z \in Nat : x = z + 1
        <5>1. x - 1 \in Nat /\ x = (x - 1) + 1
          BY <3>2
        <5> QED BY <5>1
      <4>2. x * y = z * y + y /\ z * y \in Nat
        BY <4>1
      <4> QED BY <4>2, <3>2
    <3>4. OnLeft(opening[o]) > 0 /\ OnLeft(opening[o]) \in Nat
      BY <3>2, <3>3 DEF OnLeft
    <3>5. Exposure(o) \in Nat /\ Exposure(o) <= budget[o]
      BY <1>1, <2>1, <3>1, ExposureCovered, PickerAssumption
    <3>6. OnLeft(opening[o]) <= Exposure(o)
      <4>1. \A q \in Pairs : q # o /\ Left[o] \in Legs(q) => steps[q] = <<>>
        BY <1>1, <2>1 DEF PickerInv, MarketsApart, SavedManaged, candidatesOverlap
      <4>2. \A q \in Pairs : q # o /\ Right[o] \in Legs(q) => steps[q] = <<>>
        BY <1>1, <2>1 DEF PickerInv, MarketsApart, SavedManaged, candidatesOverlap
      <4>3. Held(Left[o]) \in Nat /\ Held(Right[o]) \in Nat
        BY <4>1, <4>2, <2>2, HeldAlone, PickerAssumption
      <4>4. PICK h \in Nat, k \in Nat, l \in Nat, r \in Nat :
              /\ h = Held(Left[o]) /\ k = Held(Right[o])
              /\ l = OnLeft(opening[o]) /\ r = OnRight(opening[o])
        BY <4>3, <2>2, OrderAmounts, PickerAssumption
      <4>5. l <= Larger(h + l, k + r)
        BY DEF Larger
      <4> QED BY <4>4, <4>5, <3>1 DEF Exposure
    <3>7. \A i, j, k \in Nat : i > 0 /\ i <= j /\ j <= k => k > 0
      OBVIOUS
    <3> QED BY <3>1, <3>4, <3>5, <3>6, <3>7, <2>1, <2>2
  \* A pair without prices would take the whole account.
  <2>5. ASSUME NEW p \in Active, ~Priced(p) PROVE FALSE
    <3>1. budget[p] >= Cap /\ p # o
      BY <1>1, <2>4, <2>5 DEF BudgetInv, Fits, UnpricedHolds
    <3>2. SumOf(budget, Active) = budget[p] + SumOf(budget, Active \ {p})
      <4>1. \A q \in Active : budget[q] \in Int
        BY <2>2
      <4> QED BY <4>1, <2>2, SumRemove
    <3> DEFINE S == Active \ {p}
    <3>3. IsFiniteSet(S) /\ o \in S /\ \A q \in S : budget[q] \in Nat
      BY <2>1, <2>2, <3>1, FS_RemoveElement
    <3>4. IsFiniteSet(S \ {o}) /\ \A q \in S \ {o} : budget[q] \in Nat
      BY <3>3, FS_RemoveElement
    <3> HIDE DEF S
    <3>5. SumOf(budget, S) = budget[o] + SumOf(budget, S \ {o})
      <4>1. \A q \in S : budget[q] \in Int
        BY <3>3
      <4> QED BY <4>1, <3>3, SumRemove
    <3>6. SumOf(budget, S \ {o}) \in Nat
      BY <3>4, SumNat
    <3>7. PICK i \in Nat, j \in Nat, k \in Nat :
            i = budget[p] /\ j = budget[o] /\ k = SumOf(budget, S \ {o})
      BY <2>1, <2>2, <3>6
    <3>8. SumOf(budget, Active) = i + (j + k)
      BY <3>2, <3>5, <3>7 DEF S
    <3>9. PICK c \in Nat : c = Cap
      BY PickerAssumption
    <3>10. i >= c /\ j > 0
      BY <2>4, <3>1, <3>7, <3>9
    <3>11. i + (j + k) <= c
      BY <2>3, <3>8, <3>9
    <3> QED BY <3>10, <3>11
  <2> DEFINE f == [p \in Pairs |-> Exposure(p)]
  <2>6. \A p \in Active : f[p] \in Int /\ f[p] <= budget[p]
    BY <1>1, <2>1, <2>2, <2>5, ExposureCovered, PickerAssumption
  <2>7. SavedPairs \subseteq Active /\ IsFiniteSet(SavedPairs)
    BY <1>1, <2>1, PairsFinite, PickerAssumption DEF PickerInv, SavedManaged, SavedPairs
  <2> HIDE DEF f
  <2>8. SumOf(f, SavedPairs) <= SumOf(budget, Active)
    BY <2>2, <2>6, <2>7, SumMonotone
  <2>9. SumOf(f, SavedPairs) \in Int /\ SumOf(budget, Active) \in Nat
    <3>1. SumOf(f, SavedPairs) \in Int
      <4>1. \A p \in SavedPairs : f[p] \in Int
        BY <2>6, <2>7
      <4> QED BY <4>1, <2>7, SumRemove
    <3> QED BY <3>1, <2>2, SumNat
  <2>10. SumOf(f, SavedPairs) <= Cap
    BY <2>3, <2>8, <2>9, Sizes, PickerAssumption
  <2> QED BY <2>10 DEF f
<1> QED BY <1>1, PickerInvariant, BudgetInvariant, PTL

----------------------------------------------------------------------------
(* Who is considered for a promotion *)

\* The set considered after each of the first n entries, in their order.
Considering(c, score, entries, n) ==
  c = [k \in 0..n |-> IF k = 0 THEN Incumbents(score)
                      ELSE Consider(score, c[k - 1], entries[k])]

LEMMA ConsideringExists ==
  ASSUME NEW score, NEW entries, NEW n \in Nat
  PROVE  \E c : Considering(c, score, entries, n)
<1> DEFINE P == {k \in Nat : \E c : Considering(c, score, entries, k)}
<1>1. 0 \in P
  <2> DEFINE c == [k \in 0..0 |-> Incumbents(score)]
  <2>1. \A k \in 0..0 : k = 0
    OBVIOUS
  <2>2. c = [k \in 0..0 |-> IF k = 0 THEN Incumbents(score)
                            ELSE Consider(score, c[k - 1], entries[k])]
    BY <2>1
  <2> QED BY <2>2 DEF Considering
<1>2. ASSUME NEW k \in P PROVE k + 1 \in P
  <2>1. PICK c : Considering(c, score, entries, k)
    OBVIOUS
  <2> DEFINE d == [j \in 0..(k + 1) |-> IF j = k + 1 THEN Consider(score, c[k], entries[k + 1]) ELSE c[j]]
  <2>2. k \in Nat /\ \A j \in 0..(k + 1) : j \in 0..k \/ j = k + 1
    OBVIOUS
  <2>3. \A j \in 0..k : c[j] = IF j = 0 THEN Incumbents(score) ELSE Consider(score, c[j - 1], entries[j])
    BY <2>1 DEF Considering
  <2>4. \A j \in 0..k : d[j] = c[j] /\ j # k + 1
    BY <2>2
  <2>5. d[k + 1] = Consider(score, d[k], entries[k + 1]) /\ k + 1 # 0 /\ (k + 1) - 1 = k
    BY <2>2, <2>4
  <2>6. \A j \in 0..k : j # 0 => j - 1 \in 0..k
    BY <2>2
  <2> DEFINE e == [j \in 0..(k + 1) |-> IF j = 0 THEN Incumbents(score)
                                        ELSE Consider(score, d[j - 1], entries[j])]
  <2>7. \A j \in 0..(k + 1) : d[j] = e[j]
    <3> TAKE j \in 0..(k + 1)
    <3>1. CASE j = k + 1
      BY <3>1, <2>5
    <3>2. CASE j \in 0..k
      BY <3>2, <2>3, <2>4, <2>6
    <3> QED BY <3>1, <3>2, <2>2
  <2>8. d = e
    BY <2>7
  <2>9. Considering(d, score, entries, k + 1)
    <3> HIDE DEF d
    <3> QED BY <2>8 DEF Considering
  <2> QED BY <2>2, <2>9
<1>3. n \in P
  <2> HIDE DEF P
  <2> QED BY <1>1, <1>2, Induction
<1> QED BY <1>3

\* Only a pair that is active or eligible is ever desired.
LEMMA DesiredEligible ==
  ASSUME PickerAssumption, NEW score, NEW p \in Desired(score)
  PROVE  Present(p) \/ Eligible(score, p)
<1> DEFINE entries == Entries(score)
           c == CHOOSE c : Considering(c, score, entries, N)
           P == {k \in Nat : k <= N => \A q \in c[k] : Present(q) \/ Eligible(score, q)}
<1>1. N \in Nat
  BY DEF PickerAssumption
<1>2. Considering(c, score, entries, N)
  BY <1>1, ConsideringExists
<1>3. Desired(score) = c[N]
  BY DEF Desired, Considering
<1> HIDE DEF c, entries
<1>4. \A k \in 0..N : c[k] = IF k = 0 THEN Incumbents(score) ELSE Consider(score, c[k - 1], entries[k])
  BY <1>2 DEF Considering
<1>5. 0 \in P
  <2>1. c[0] = Incumbents(score)
    BY <1>1, <1>4
  <2>2. \A q \in Incumbents(score) : Present(q)
    BY DEF Incumbents, Present, Gone
  <2> QED BY <2>1, <2>2
<1>6. ASSUME NEW k \in P PROVE k + 1 \in P
  <2> SUFFICES ASSUME k + 1 <= N, NEW q \in c[k + 1]
               PROVE  Present(q) \/ Eligible(score, q)
    OBVIOUS
  <2>1. c[k + 1] = Consider(score, c[k], entries[k + 1])
    BY <1>1, <1>4
  <2>2. q \in c[k] \/ (q = entries[k + 1] /\ Eligible(score, q))
    BY <2>1 DEF Consider
  <2> QED BY <2>2, <1>1
<1>7. N \in P
  <2> HIDE DEF P
  <2> QED BY <1>1, <1>5, <1>6, Induction
<1> QED BY <1>1, <1>3, <1>7

\* A pair whose last actor failed too often is not promoted again (selectPairs).
THEOREM FailedIsNotPromoted == Spec => FailedStaysOut
<1>1. ASSUME PickerInv, BudgetInv, [Next]_vars,
             NEW p \in Pairs, p \in failing, active[p] = "out", up
      PROVE  active'[p] = "out"
  <2>1. CASE Poll
    <3>1. PICK score, unsized, desired, promoted :
            /\ desired = Desired(score)
            /\ promoted \subseteq {q \in Pairs : q \in desired /\ ~Present(q) /\ Elapsed(promoteAge[q])}
            /\ selectPairs(score, desired, promoted)
      BY <2>1 DEF Poll
    <3>2. p \in failRate
      BY <1>1 DEF BudgetInv, FailedKnown
    <3>3. p \notin promoted
      BY <1>1, <3>1, <3>2, DesiredEligible, PickerAssumption DEF Eligible, Failed
    <3>4. p \notin Drain(desired) /\ ~Drained(p) /\ ~Gone(p)
      BY <1>1 DEF Drain, Lagging, Drained, Gone
    <3> QED BY <1>1, <3>1, <3>3, <3>4 DEF selectPairs
  <2>2. CASE PickerFails \/ Stop
    BY <2>2, <1>1 DEF PickerFails, Stop, Down
  <2>3. CASE Restore
    BY <2>3, <1>1 DEF Restore
  <2>4. CASE \/ \E q \in Pairs : \/ Reconcile(q) \/ Unwind(q) \/ Open(q) \/ Fill(q) \/ Close(q)
                                \/ ChangeRate(q) \/ ActorEnds(q) \/ ActorFails(q)
             \/ \E m \in Markets : Land(m)
             \/ External \/ CalmDown \/ UNCHANGED vars
    <3>1. active' = active
      BY <2>4 DEF Reconcile, Unwind, Recovered, Open, Fill, Close, ChangeRate, ActorEnds, ActorFails,
         Land, External, CalmDown, vars, pickerVars
    <3> QED BY <3>1, <1>1
  <2> QED BY <1>1, <2>1, <2>2, <2>3, <2>4 DEF Next
<1>2. PickerInv /\ BudgetInv /\ [Next]_vars
        => [\A p \in Pairs : p \in failing /\ active[p] = "out" /\ up => active'[p] = "out"]_vars
  BY <1>1
<1> QED BY <1>2, PickerInvariant, BudgetInvariant, PTL DEF Spec, FailedStaysOut

----------------------------------------------------------------------------
(* Types *)

\* What the other invariants leave open: the ages and the bounded counters.
Counters ==
  /\ {promoteAge, demoteAge} \subseteq [Pairs -> 0..Larger(1, Dwell)]
  /\ starts \in 0..MaxStarts /\ nExt \in 0..MaxExternal

LEMMA CountersInit ==
  ASSUME PickerAssumption, Init
  PROVE  Counters
<1>1. Dwell \in Nat /\ MaxStarts \in Nat /\ MaxExternal \in Nat
  BY DEF PickerAssumption
<1>2. 0 \in 0..Larger(1, Dwell) /\ 0 \in 0..MaxStarts /\ 0 \in 0..MaxExternal
  BY <1>1 DEF Larger
<1> QED BY <1>2 DEF Init, Counters

LEMMA CountersStep ==
  ASSUME PickerAssumption, Counters, [Next]_vars
  PROVE  Counters'
<1>1. Dwell \in Nat /\ MaxStarts \in Nat /\ MaxExternal \in Nat
  BY DEF PickerAssumption
<1> DEFINE Ages == 0..Larger(1, Dwell)
<1>2. 0 \in Ages /\ 1 \in Ages /\ \A a \in Ages : Older(a) \in Ages
  BY <1>1 DEF Larger, Older, Elapsed
<1> HIDE DEF Ages
<1>3. promoteAge \in [Pairs -> Ages] /\ demoteAge \in [Pairs -> Ages]
  BY DEF Counters, Ages
<1>4. CASE Poll
  <2>1. PICK score, desired, sized, promoted : selectPairs(score, desired, promoted)
    BY <1>4 DEF Poll
  <2>2. promoteAge' = [p \in Pairs |->
           IF p \notin {q \in desired : ~Present(q)} \/ p \in promoted THEN 0
           ELSE IF Elapsed(promoteAge[p]) /\ SlotFree(score, promoted, p) THEN 1
           ELSE Older(promoteAge[p])]
    BY <2>1 DEF selectPairs
  <2>3. demoteAge' = [p \in Pairs |->
           IF Gone(p) \/ (p \in desired /\ active[p] = "trading") THEN 0
           ELSE IF p \in Lagging(desired) \ Drain(desired) THEN Older(demoteAge[p])
           ELSE demoteAge[p]]
    BY <2>1 DEF selectPairs
  <2>4. promoteAge' \in [Pairs -> Ages] /\ demoteAge' \in [Pairs -> Ages]
    BY <2>2, <2>3, <1>2, <1>3
  <2>5. UNCHANGED <<starts, nExt>>
    BY <1>4 DEF Poll, envVars
  <2> QED BY <2>4, <2>5 DEF Counters, Ages
<1>5. CASE PickerFails \/ Stop
  <2>1. /\ promoteAge' = [p \in Pairs |-> 0] /\ demoteAge' = [p \in Pairs |-> 0]
        /\ UNCHANGED <<starts, nExt>>
    BY <1>5 DEF PickerFails, Stop, Down, envVars
  <2>2. promoteAge' \in [Pairs -> Ages] /\ demoteAge' \in [Pairs -> Ages]
    BY <2>1, <1>2
  <2> QED BY <2>1, <2>2 DEF Counters, Ages
<1>6. CASE Restore
  <2>1. UNCHANGED <<promoteAge, demoteAge, nExt>> /\ starts < MaxStarts /\ starts' = starts + 1
    BY <1>6 DEF Restore
  <2>2. starts' \in 0..MaxStarts
    BY <2>1, <1>1 DEF Counters
  <2> QED BY <2>1, <2>2 DEF Counters
<1>7. CASE External
  <2>1. UNCHANGED <<promoteAge, demoteAge, starts>> /\ nExt < MaxExternal /\ nExt' = nExt + 1
    BY <1>7 DEF External, pickerVars
  <2>2. nExt' \in 0..MaxExternal
    BY <2>1, <1>1 DEF Counters
  <2> QED BY <2>1, <2>2 DEF Counters
<1>8. CASE \/ \E q \in Pairs : \/ Reconcile(q) \/ Unwind(q) \/ Open(q) \/ Fill(q) \/ Close(q)
                              \/ ChangeRate(q) \/ ActorEnds(q) \/ ActorFails(q)
           \/ \E m \in Markets : Land(m)
           \/ CalmDown \/ UNCHANGED vars
  <2>1. UNCHANGED <<promoteAge, demoteAge, starts, nExt>>
    BY <1>8 DEF Reconcile, Unwind, Recovered, Open, Fill, Close, ChangeRate, ActorEnds, ActorFails,
       Land, CalmDown, vars, pickerVars, envVars
  <2> QED BY <2>1 DEF Counters
<1> QED BY <1>4, <1>5, <1>6, <1>7, <1>8 DEF Next

\* Every variable keeps its type.
THEOREM TypeCorrect == Spec => []TypeOK
<1>1. Init => Counters
  BY CountersInit, PickerAssumption
<1>2. Counters /\ [Next]_vars => Counters'
  BY CountersStep, PickerAssumption
<1>3. ASSUME PickerInv, BudgetInv, Counters PROVE TypeOK
  <2>1. Shapes /\ Amounts /\ ReconciledClean /\ FailedKnown
    BY <1>3 DEF PickerInv, BudgetInv
  <2> QED BY <2>1, <1>3 DEF TypeOK, Shapes, Amounts, ReconciledClean, FailedKnown, Counters, States, Ends
<1> QED BY <1>1, <1>2, <1>3, PickerInvariant, BudgetInvariant, PTL DEF Spec

\* Two actors never own one market, nor do two saved pairs (restorePairs, promote).
THEOREM MarketsStayApart == Spec => []MarketsApart
<1>1. PickerInv => MarketsApart
  BY DEF PickerInv
<1> QED BY <1>1, PickerInvariant, PTL

\* No order that opens is out while one of a dead process may still land
\* (startupRecoveryReady, promote, tradePair).
THEOREM OpensOnlyAfterRecovery == Spec => []OpensAfterRecovery
<1>1. ASSUME PickerInv PROVE OpensAfterRecovery
  <2> SUFFICES ASSUME NEW o \in Pairs, Opening(o), up,
                      NEW p \in Active, ended[p] # "err", NEW m \in Legs(p), late[m] # 0
               PROVE  FALSE
    BY DEF OpensAfterRecovery, Quiet
  <2>1. startupRecoveryReady
    BY <1>1 DEF PickerInv, OpeningMarked
  <2>2. m \in Markets
    BY DEF Markets
  <2>3. PICK q \in unresolved : m \in Legs(q) /\ q \in Active /\ ended[q] = "err"
    BY <1>1, <2>1, <2>2 DEF PickerInv, LateMarked
  <2>4. p = q
    BY <1>1, <2>3 DEF PickerInv, MarketsApart, candidatesOverlap
  <2> QED BY <2>3, <2>4
<1> QED BY <1>1, PickerInvariant, PTL
=============================================================================

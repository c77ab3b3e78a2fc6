--------------------------- MODULE ExecutorProofs ---------------------------
(* Theorems about Executor, for every value of its constants. *)
EXTENDS Executor, SumTheorems

----------------------------------------------------------------------------
(* Arithmetic of quantities *)

\* Magnitude and sign of an integer.
LEMMA Signs ==
  \A m \in Int :
    /\ Abs(m) \in Nat /\ Sgn(m) \in {-1, 0, 1} /\ Sgn(m) * Abs(m) = m
    /\ m > 0 => Sgn(m) = 1 /\ Abs(m) = m
    /\ m < 0 => Sgn(m) = -1 /\ Abs(m) = -m
    /\ m = 0 <=> Abs(m) = 0
  BY DEF Abs, Sgn

\* A product is not negative exactly if its factors are on the same side of zero.
LEMMA SameSide ==
  ASSUME NEW a \in Int, NEW b \in Int
  PROVE  a * b >= 0 <=> (a >= 0 /\ b >= 0) \/ (a <= 0 /\ b <= 0)
<1>1. a >= 0 /\ b >= 0 => a * b >= 0
  OBVIOUS
<1>2. a <= 0 /\ b <= 0 => a * b >= 0
  OBVIOUS
<1>3. a > 0 /\ b < 0 => ~(a * b >= 0)
  OBVIOUS
<1>4. a < 0 /\ b > 0 => ~(a * b >= 0)
  OBVIOUS
<1>5. \/ a >= 0 /\ b >= 0
      \/ a <= 0 /\ b <= 0
      \/ a > 0 /\ b < 0
      \/ a < 0 /\ b > 0
  OBVIOUS
<1> QED
  BY <1>1, <1>2, <1>3, <1>4, <1>5, Zenon

\* The two legs of a hedge are integers.
LEMMA HedgeType ==
  /\ \A m \in Int : Hedge(m) \in [Legs -> Int] /\ Hedge(m)["L"] = m /\ Hedge(m)["R"] = -m
  /\ Flatness \in [Legs -> Int] /\ \A leg \in Legs : Flatness[leg] = 0
<1>1. \A m \in Int : Hedge(m) \in [Legs -> Int] /\ Hedge(m)["L"] = m /\ Hedge(m)["R"] = -m
  BY DEF Hedge, Legs
<1>2. Flatness \in [Legs -> Int] /\ \A leg \in Legs : Flatness[leg] = 0
  BY <1>1 DEF Flatness, Legs
<1> QED
  BY <1>1, <1>2

\* The rescue targets of two integer positions are integers.
LEMMA TargetsType ==
  ASSUME NEW p \in [Legs -> Int]
  PROVE  hedgeTargets(p) \in [Legs -> Int]
<1>1. p["L"] \in Int /\ p["R"] \in Int
  BY DEF Legs
<1>2. Smaller(Abs(p["L"]), Abs(p["R"])) \in Int
  BY <1>1, Signs DEF Smaller
<1>3. Sgn(p["L"]) * Smaller(Abs(p["L"]), Abs(p["R"])) \in Int
  BY <1>1, <1>2, Signs
<1> QED
  BY <1>3, HedgeType DEF hedgeTargets

----------------------------------------------------------------------------
(* Type correctness *)

LEMMA BatchesFinite == IsFiniteSet(Batches)
  BY ExecutorAssumption, FS_Interval DEF Batches

\* What is read off an order, a report and the positions.
LEMMA FieldTypes ==
  ASSUME TypeOK, NEW leg \in Legs, NEW b \in Batches
  PROVE  /\ ord[leg][b].q \in Int /\ ord[leg][b].ro \in BOOLEAN
         /\ ord[leg][b].filled \in Nat /\ ord[leg][b].st \in OrderStates
         /\ rep[leg][b].filled \in Nat /\ rep[leg][b].resolved \in BOOLEAN
         /\ counted[leg][b] \in Nat /\ rescued[leg] \in Int
         /\ pos[leg] \in Int /\ shown[leg] \in Int /\ reads[leg] \in Int
         /\ at[leg] \in Int /\ before[leg] \in Int /\ target[leg] \in Int
         /\ ext[leg] \in Nat
  BY DEF TypeOK, OrderTypes, ReportTypes

\* An order at a further stage, and an order's credit, are of their types.
LEMMA RecordTypes ==
  /\ \A o \in OrderTypes, st \in OrderStates, k \in Nat :
       Advanced(o, st, k) \in OrderTypes
  /\ \A o, st, k :
       /\ Advanced(o, st, k).q = o.q /\ Advanced(o, st, k).ro = o.ro
       /\ Advanced(o, st, k).filled = k /\ Advanced(o, st, k).st = st
  /\ \A k \in Nat : Credited(k) \in ReportTypes
  /\ \A k : Credited(k).filled = k /\ Credited(k).resolved = FALSE
  /\ NoReport \in ReportTypes /\ NoReport.filled = 0 /\ NoReport.resolved = TRUE
  /\ Unknown \in ReportTypes /\ Unknown.filled = 0 /\ Unknown.resolved = FALSE
  /\ \A q \in Int, ro \in BOOLEAN : Ready(q, ro) \in OrderTypes
  /\ \A q, ro :
       /\ Ready(q, ro).q = q /\ Ready(q, ro).ro = ro
       /\ Ready(q, ro).filled = 0 /\ Ready(q, ro).st = "ready"
  /\ NoOrder \in OrderTypes /\ NoOrder.q = 0 /\ NoOrder.ro = FALSE
  /\ NoOrder.filled = 0 /\ NoOrder.st = "none"
  BY DEF Advanced, Credited, NoReport, Unknown, Ready, NoOrder, OrderTypes, ReportTypes, OrderStates

\* One entry of a table of orders or reports is replaced.
LEMMA Replaced ==
  ASSUME NEW R, NEW t \in [Legs -> [Batches -> R]], NEW leg \in Legs, NEW b \in Batches,
         NEW p \in R, NEW u, u = [t EXCEPT ![leg][b] = p]
  PROVE  /\ u \in [Legs -> [Batches -> R]]
         /\ \A l \in Legs, c \in Batches : u[l][c] = IF l = leg /\ c = b THEN p ELSE t[l][c]
  OBVIOUS

\* The rescue account keeps its type.
LEMMA AccountType ==
  ASSUME TypeOK, NEW r \in [Legs -> [Batches -> ReportTypes]], AccountRescue(r)
  PROVE  counted' \in [Legs -> [Batches -> Nat]] /\ rescued' \in [Legs -> Int]
<1>1. Contribution(r) \in [Legs -> [Batches -> Nat]]
  BY DEF Contribution, ReportTypes
<1>2. \A leg \in Legs :
        SumOf([b \in Batches |-> Contribution(r)[leg][b] - counted[leg][b]], Batches) \in Int
  <2> TAKE leg \in Legs
  <2> DEFINE f == [b \in Batches |-> Contribution(r)[leg][b] - counted[leg][b]]
  <2>1. \A b \in Batches : f[b] \in Int
    BY <1>1 DEF TypeOK
  <2> HIDE DEF f
  <2>2. SumOf(f, Batches) \in Int
    BY <2>1, BatchesFinite, SumRemove
  <2> QED
    BY <2>2 DEF f
<1>3. rescued' \in [Legs -> Int]
  BY <1>2 DEF AccountRescue, TypeOK
<1> QED
  BY <1>1, <1>3 DEF AccountRescue

\* How far a leg moved, and what an unknown order is credited with.
LEMMA InferredType ==
  ASSUME TypeOK
  PROVE  /\ \A leg \in Legs : Delta(leg) \in Int
         /\ Inferred \in [Legs -> [Batches -> ReportTypes]]
<1>1. \A leg \in Legs : Delta(leg) \in Int /\ n \in Batches
  BY FieldTypes DEF Delta, TypeOK
<1>2. \A leg \in Legs : ~Unexpected(leg) => Delta(leg) \in Nat
  BY <1>1, FieldTypes DEF Unexpected
<1>3. \A leg \in Legs : Inferred[leg] \in [Batches -> ReportTypes]
  <2> TAKE leg \in Legs
  <2>1. rep[leg] \in [Batches -> ReportTypes]
    BY DEF TypeOK
  <2>2. ~Unexpected(leg) => Credited(Delta(leg)) \in ReportTypes
    BY <1>2, RecordTypes
  <2> QED
    BY <1>1, <2>1, <2>2 DEF Inferred
<1> QED
  BY <1>1, <1>3 DEF Inferred

\* A pair or an exit starts with the right types.
LEMMA TypeInit == Init => TypeOK
<1> SUFFICES ASSUME Init PROVE TypeOK
  OBVIOUS
<1> USE ExecutorAssumption DEF Init
<1>1. PICK m \in Hedges : pos = Hedge(m)
  OBVIOUS
<1>2. m \in Int
  OBVIOUS
<1>3. pos \in [Legs -> Int] /\ target \in [Legs -> Int] /\ reads \in [Legs -> Int]
  BY <1>1, <1>2, HedgeType
<1>4. ord \in [Legs -> [Batches -> OrderTypes]]
  BY DEF NoOrder, OrderTypes, OrderStates
<1>5. rep \in [Legs -> [Batches -> ReportTypes]]
  BY DEF NoReport, ReportTypes
<1>6. ext \in [Legs -> Nat]
  BY HedgeType DEF Flatness, Hedge, Legs
<1>7. n \in Batches
  BY DEF Batches
<1>8. counted \in [Legs -> [Batches -> Nat]] /\ rescued \in [Legs -> Int]
  OBVIOUS
<1>9. shown = pos /\ at = pos /\ before = pos /\ urgent \in BOOLEAN
  OBVIOUS
<1> QED
  BY <1>3, <1>4, <1>5, <1>6, <1>7, <1>8, <1>9 DEF TypeOK, Outcomes

\* Every step keeps the types.
LEMMA TypeStep == TypeOK /\ [Next]_vars => TypeOK'
<1> SUFFICES ASSUME TypeOK, [Next]_vars PROVE TypeOK'
  OBVIOUS
<1> USE ExecutorAssumption
<1>1. CASE Execute
  <2>1. PICK q \in 1..MaxQty, side \in {-1, 1} :
          ord' = [leg \in Legs |-> [ord[leg] EXCEPT ![0] =
                    Ready(Hedge(side * q)[leg], side * at["L"] < 0)]]
    BY <1>1 DEF Execute
  <2>2. \A leg \in Legs : Hedge(side * q)[leg] \in Int
    BY HedgeType
  <2>3. \A leg \in Legs : Ready(Hedge(side * q)[leg], side * at["L"] < 0) \in OrderTypes
    BY <2>2 DEF Ready, OrderTypes, OrderStates
  <2>4. ord' \in [Legs -> [Batches -> OrderTypes]]
    BY <2>1, <2>3 DEF TypeOK
  <2>5. rep' \in [Legs -> [Batches -> ReportTypes]]
    BY <1>1, RecordTypes DEF Execute, TypeOK
  <2> QED
    BY <1>1, <2>4, <2>5 DEF Execute, TypeOK, Calling
<1>2. CASE Decline \/ EmergencyFlatten
  BY <1>2 DEF Decline, EmergencyFlatten, venueVars, callVars, resultVars, TypeOK, Outcomes, Calling
<1>3. CASE Resume
  BY <1>3 DEF Resume, venueVars, TypeOK, Calling
<1>4. CASE Intervene
  BY <1>4 DEF Intervene, TypeOK, Calling
<1>5. ASSUME NEW leg \in Legs, SubmitLeg(leg) PROVE TypeOK'
  <2>1. n \in Batches /\ ord \in [Legs -> [Batches -> OrderTypes]]
        /\ rep \in [Legs -> [Batches -> ReportTypes]]
    BY DEF TypeOK
  <2>2. PICK st \in OrderStates : ord' = [ord EXCEPT ![leg][n] = Advanced(ord[leg][n], st, 0)]
    BY <1>5 DEF SubmitLeg, OrderStates
  <2>3. ord' \in [Legs -> [Batches -> OrderTypes]]
    BY <2>1, <2>2, RecordTypes, Replaced
  <2>4. rep' = rep \/ rep' = [rep EXCEPT ![leg][n] = NoReport]
    BY <1>5 DEF SubmitLeg
  <2>5. rep' \in [Legs -> [Batches -> ReportTypes]]
    <3>1. CASE rep' = rep
      BY <2>1, <3>1
    <3>2. CASE rep' = [rep EXCEPT ![leg][n] = NoReport]
      BY <2>1, <3>2, RecordTypes, Replaced
    <3> QED
      BY <2>4, <3>1, <3>2
  <2> QED
    BY <1>5, <2>3, <2>5 DEF SubmitLeg, TypeOK, Calling
<1>6. ASSUME NEW leg \in Legs, ReadPosition(leg) PROVE TypeOK'
  BY <1>6 DEF ReadPosition, resultVars, TypeOK
<1>7. CASE Collect
  <2>1. rep' \in [Legs -> [Batches -> ReportTypes]]
    BY <1>7, FieldTypes DEF Collect, TypeOK, Learnt, ReportTypes
  <2> QED
    BY <1>7, <2>1 DEF Collect, callVars, TypeOK, Calling
<1>8. CASE Confirmed
  <2>1. rep' \in [Legs -> [Batches -> ReportTypes]]
    BY <1>8, InferredType DEF Confirmed
  <2>2. counted' \in [Legs -> [Batches -> Nat]] /\ rescued' \in [Legs -> Int]
    BY <1>8, InferredType, AccountType DEF Confirmed
  <2>3. at' \in [Legs -> Int] /\ target' \in [Legs -> Int] /\ reads' \in [Legs -> Int]
    BY <1>8, TargetsType, HedgeType DEF Confirmed, TypeOK
  <2> QED
    BY <1>8, <2>1, <2>2, <2>3 DEF Confirmed, venueVars, TypeOK, Calling
<1>9. CASE Disagree
  <2>1. rep' \in [Legs -> [Batches -> ReportTypes]]
    BY <1>9, InferredType DEF Disagree
  <2>2. at' \in [Legs -> Int] /\ reads' \in [Legs -> Int]
    BY <1>9, HedgeType DEF Disagree, TypeOK
  <2> QED
    BY <1>9, <2>1, <2>2 DEF Disagree, venueVars, TypeOK
<1>10. CASE GiveUp
  <2>1. rep \in [Legs -> [Batches -> ReportTypes]]
    BY DEF TypeOK
  <2>2. counted' \in [Legs -> [Batches -> Nat]] /\ rescued' \in [Legs -> Int]
    BY <1>10, <2>1, AccountType DEF GiveUp
  <2> QED
    BY <1>10, <2>2, HedgeType DEF GiveUp, Return, venueVars, TypeOK, Outcomes
<1>11. CASE FlattenDone
  BY <1>11 DEF FlattenDone, venueVars, callVars, resultVars, TypeOK, Outcomes
<1>12. CASE FlattenStops
  BY <1>12, HedgeType DEF FlattenStops, Return, venueVars, resultVars, TypeOK, Outcomes
<1>13. CASE SendBatch
  <2>1. PICK sent \in (SUBSET Away) \ {{}} :
          /\ ord' = [leg \in Legs |-> [ord[leg] EXCEPT ![n + 1] =
               IF leg \in sent THEN Ready(target[leg] - at[leg], TRUE) ELSE NoOrder]]
          /\ rep' = [leg \in Legs |-> [rep[leg] EXCEPT ![n + 1] =
               IF leg \in sent THEN Unknown ELSE NoReport]]
          /\ todo' = sent
    BY <1>13 DEF SendBatch
  <2>2. ord' \in [Legs -> [Batches -> OrderTypes]]
    <3>1. \A leg \in Legs : /\ Ready(target[leg] - at[leg], TRUE) \in OrderTypes
                            /\ NoOrder \in OrderTypes
      BY DEF TypeOK, Ready, NoOrder, OrderTypes, OrderStates
    <3> QED
      BY <2>1, <3>1 DEF TypeOK
  <2>3. rep' \in [Legs -> [Batches -> ReportTypes]]
    BY <2>1, RecordTypes DEF TypeOK
  <2>4. n' \in Batches /\ todo' \subseteq Legs
    BY <1>13, <2>1 DEF SendBatch, TypeOK, Batches, Away
  <2> QED
    BY <1>13, <2>2, <2>3, <2>4 DEF SendBatch, TypeOK, Calling
<1>14. CASE QueryTerminals
  <2>1. rep' \in [Legs -> [Batches -> ReportTypes]]
    BY <1>14, FieldTypes DEF QueryTerminals, TypeOK, Learnt, ReportTypes
  <2>2. counted' \in [Legs -> [Batches -> Nat]] /\ rescued' \in [Legs -> Int]
    <3>1. AccountRescue(rep')
      BY <1>14 DEF QueryTerminals
    <3> QED
      BY <2>1, <3>1, AccountType
  <2> QED
    BY <1>14, <2>1, <2>2 DEF QueryTerminals, venueVars, callVars, TypeOK, Calling
<1>15. CASE Reread
  BY <1>15, HedgeType DEF Reread, venueVars, TypeOK, Calling
<1>16. CASE RereadUnresolved
  BY <1>16, HedgeType DEF RereadUnresolved, Return, venueVars, TypeOK, Outcomes
<1>17. CASE VenueTerminate
  <2>1. PICK leg \in Legs, b \in Batches : \E k \in 0..Fillable(leg, ord[leg][b]) :
          /\ pos' = [pos EXCEPT ![leg] = pos[leg] + Sgn(ord[leg][b].q) * k]
          /\ ord' = [ord EXCEPT ![leg][b] = Advanced(ord[leg][b], "ended", k)]
          /\ shown' = Publish(pos', leg)
    BY <1>17 DEF VenueTerminate
  <2>2. Fillable(leg, ord[leg][b]) \in Int
    BY FieldTypes, Signs DEF Fillable, Smaller
  <2>3. PICK k \in 0..Fillable(leg, ord[leg][b]) :
          /\ pos' = [pos EXCEPT ![leg] = pos[leg] + Sgn(ord[leg][b].q) * k]
          /\ ord' = [ord EXCEPT ![leg][b] = Advanced(ord[leg][b], "ended", k)]
          /\ shown' = Publish(pos', leg)
    BY <2>1
  <2>4. k \in Nat /\ Sgn(ord[leg][b].q) * k \in Int
    BY <2>2, FieldTypes, Signs
  <2>5. ord' \in [Legs -> [Batches -> OrderTypes]]
    <3>1. ord \in [Legs -> [Batches -> OrderTypes]] /\ "ended" \in OrderStates
      BY DEF TypeOK, OrderStates
    <3> QED
      BY <2>3, <2>4, <3>1, RecordTypes, Replaced
  <2>6. pos' \in [Legs -> Int]
    BY <2>3, <2>4 DEF TypeOK
  <2>7. shown' \in [Legs -> Int]
    BY <2>3, <2>6 DEF Publish, TypeOK
  <2> QED
    BY <1>17, <2>5, <2>6, <2>7 DEF VenueTerminate, callVars, resultVars, TypeOK
<1>18. CASE VenueShows
  BY <1>18 DEF VenueShows, callVars, resultVars, TypeOK
<1>19. CASE External
  <2>1. pos' \in [Legs -> Int] /\ ext' \in [Legs -> Nat]
    BY <1>19 DEF External, TypeOK
  <2>2. shown' \in [Legs -> Int]
    BY <1>19, <2>1 DEF External, Publish, TypeOK
  <2> QED
    BY <1>19, <2>1, <2>2 DEF External, callVars, resultVars, TypeOK
<1>20. CASE Cancel
  BY <1>20 DEF Cancel, venueVars, resultVars, TypeOK
<1>21. CASE UNCHANGED vars
  BY <1>21 DEF vars, venueVars, callVars, resultVars, TypeOK
<1> QED
  BY <1>1, <1>2, <1>3, <1>4, <1>5, <1>6, <1>7, <1>8, <1>9, <1>10, <1>11, <1>12, <1>13,
     <1>14, <1>15, <1>16, <1>17, <1>18, <1>19, <1>20, <1>21 DEF Next

\* Every variable of an execution keeps its type; the rescue account is an integer
\* because a sum of integers over the batches is one.
THEOREM TypeCorrect == Spec => []TypeOK
<1>1. Init => TypeOK
  BY TypeInit
<1>2. TypeOK /\ [Next]_vars => TypeOK'
  BY TypeStep
<1> QED
  BY <1>1, <1>2, PTL DEF Spec

----------------------------------------------------------------------------
(* What the actions do to orders and reports, entry by entry *)

\* The actions that leave orders, reports and the batch alone.
QuietSteps ==
  \/ Decline \/ EmergencyFlatten \/ Resume \/ Intervene \/ GiveUp \/ FlattenDone \/ FlattenStops
  \/ Reread \/ RereadUnresolved \/ VenueShows \/ External \/ Cancel
  \/ (\E leg \in Legs : ReadPosition(leg)) \/ UNCHANGED vars

LEMMA QuietEffect ==
  ASSUME QuietSteps
  PROVE  ord' = ord /\ rep' = rep /\ todo' = todo /\ n' = n
  BY DEF QuietSteps, Decline, EmergencyFlatten, Resume, Intervene, GiveUp, FlattenDone,
     FlattenStops, Reread, RereadUnresolved, VenueShows, External, Cancel, ReadPosition, Return,
     vars, venueVars, callVars, resultVars

LEMMA ExecuteEffect ==
  ASSUME TypeOK, Execute, n = 0
  PROVE  /\ \E q \in 1..MaxQty, side \in {-1, 1} : \A leg \in Legs :
              ord'[leg][0] = Ready(Hedge(side * q)[leg], side * at["L"] < 0)
         /\ \A leg \in Legs : rep'[leg][0] = Unknown
         /\ \A leg \in Legs, b \in Batches : b # 0 =>
              ord'[leg][b] = ord[leg][b] /\ rep'[leg][b] = rep[leg][b]
<1>1. 0 \in Batches
  BY ExecutorAssumption DEF Batches
<1>2. PICK q \in 1..MaxQty, side \in {-1, 1} :
        ord' = [leg \in Legs |-> [ord[leg] EXCEPT ![0] =
                  Ready(Hedge(side * q)[leg], side * at["L"] < 0)]]
  BY DEF Execute
<1>3. rep' = [leg \in Legs |-> [rep[leg] EXCEPT ![0] = Unknown]]
  BY DEF Execute
<1>4. ord \in [Legs -> [Batches -> OrderTypes]] /\ rep \in [Legs -> [Batches -> ReportTypes]]
  BY DEF TypeOK
<1>5. \A leg \in Legs :
        /\ ord'[leg][0] = Ready(Hedge(side * q)[leg], side * at["L"] < 0)
        /\ \A b \in Batches : b # 0 => ord'[leg][b] = ord[leg][b]
  BY <1>1, <1>2, <1>4
<1>6. \A leg \in Legs :
        /\ rep'[leg][0] = Unknown
        /\ \A b \in Batches : b # 0 => rep'[leg][b] = rep[leg][b]
  BY <1>1, <1>3, <1>4
<1> QED
  BY <1>5, <1>6

LEMMA SubmitEffect ==
  ASSUME TypeOK, NEW leg \in Legs, SubmitLeg(leg)
  PROVE  \E st \in {"live", "lost", "ended"} : \A l \in Legs, c \in Batches :
           IF l = leg /\ c = n
           THEN /\ ord'[l][c] = Advanced(ord[l][c], st, 0)
                /\ rep'[l][c] = IF st = "ended" THEN NoReport ELSE rep[l][c]
           ELSE ord'[l][c] = ord[l][c] /\ rep'[l][c] = rep[l][c]
<1>1. n \in Batches /\ ord \in [Legs -> [Batches -> OrderTypes]]
      /\ rep \in [Legs -> [Batches -> ReportTypes]]
  BY DEF TypeOK
<1>2. \A st \in OrderStates : Advanced(ord[leg][n], st, 0) \in OrderTypes
  BY <1>1, RecordTypes
<1>3. CASE /\ rep' = rep
           /\ \E st \in {"live", "lost"} :
                ord' = [ord EXCEPT ![leg][n] = Advanced(ord[leg][n], st, 0)]
  <2>1. PICK st \in {"live", "lost"} : ord' = [ord EXCEPT ![leg][n] = Advanced(ord[leg][n], st, 0)]
    BY <1>3
  <2>2. \A l \in Legs, c \in Batches :
          ord'[l][c] = IF l = leg /\ c = n THEN Advanced(ord[leg][n], st, 0) ELSE ord[l][c]
    BY <1>1, <1>2, <2>1, Replaced DEF OrderStates
  <2> QED
    BY <1>3, <2>2
<1>4. CASE /\ ord' = [ord EXCEPT ![leg][n] = Advanced(ord[leg][n], "ended", 0)]
           /\ rep' = [rep EXCEPT ![leg][n] = NoReport]
  <2>1. \A l \in Legs, c \in Batches :
          ord'[l][c] = IF l = leg /\ c = n THEN Advanced(ord[leg][n], "ended", 0) ELSE ord[l][c]
    BY <1>1, <1>2, <1>4, Replaced DEF OrderStates
  <2>2. \A l \in Legs, c \in Batches :
          rep'[l][c] = IF l = leg /\ c = n THEN NoReport ELSE rep[l][c]
    BY <1>1, <1>4, RecordTypes, Replaced
  <2> QED
    BY <2>1, <2>2
<1> QED
  BY <1>3, <1>4 DEF SubmitLeg

LEMMA LearntEffect ==
  ASSUME TypeOK, Collect \/ QueryTerminals
  PROVE  \A l \in Legs, c \in Batches :
           \/ rep'[l][c] = rep[l][c]
           \/ c \in 0..n /\ Ended(l, c) /\ rep'[l][c] = Learnt(l, c)
<1>1. rep \in [Legs -> [Batches -> ReportTypes]] /\ n \in Batches /\ n \in 0..n
  BY ExecutorAssumption DEF TypeOK, Batches
<1>2. CASE Collect
  <2>1. PICK told \in SUBSET {leg \in Legs : Ended(leg, n)} :
          rep' = [leg \in Legs |->
                   IF leg \in told THEN [rep[leg] EXCEPT ![n] = Learnt(leg, n)] ELSE rep[leg]]
    BY <1>2 DEF Collect
  <2> QED
    BY <1>1, <2>1
<1>3. CASE QueryTerminals
  <2>1. PICK told \in SUBSET {o \in Legs \X (0..n) : Ended(o[1], o[2])} :
          rep' = [leg \in Legs |-> [b \in Batches |->
                   IF <<leg, b>> \in told THEN Learnt(leg, b) ELSE rep[leg][b]]]
    BY <1>3 DEF QueryTerminals
  <2>2. \A l \in Legs, c \in Batches :
          rep'[l][c] = IF <<l, c>> \in told THEN Learnt(l, c) ELSE rep[l][c]
    BY <2>1
  <2>3. \A l \in Legs, c \in Batches : <<l, c>> \in told => c \in 0..n /\ Ended(l, c)
    OBVIOUS
  <2> QED
    BY <2>2, <2>3
<1> QED
  BY <1>2, <1>3

LEMMA InferredEffect ==
  ASSUME TypeOK
  PROVE  \A l \in Legs, c \in Batches :
           Inferred[l][c] = IF c # n \/ rep[l][n].resolved \/ Unexpected(l) THEN rep[l][c]
                            ELSE Credited(Delta(l))
<1>1. rep \in [Legs -> [Batches -> ReportTypes]] /\ n \in Batches
  BY DEF TypeOK
<1> QED
  BY <1>1 DEF Inferred

LEMMA SendBatchEffect ==
  ASSUME TypeOK, SendBatch
  PROVE  \E sent \in SUBSET Away :
           /\ sent # {} /\ todo' = sent /\ n' = n + 1 /\ n' \in Batches
           /\ \A leg \in Legs, b \in Batches :
                ord'[leg][b] = IF b # n + 1 THEN ord[leg][b]
                               ELSE IF leg \in sent THEN Ready(target[leg] - at[leg], TRUE)
                               ELSE NoOrder
           /\ \A leg \in Legs, b \in Batches :
                rep'[leg][b] = IF b # n + 1 THEN rep[leg][b]
                               ELSE IF leg \in sent THEN Unknown ELSE NoReport
<1>1. /\ ord \in [Legs -> [Batches -> OrderTypes]] /\ rep \in [Legs -> [Batches -> ReportTypes]]
      /\ n \in Batches
  BY DEF TypeOK
<1>2. PICK sent \in (SUBSET Away) \ {{}} :
        /\ ord' = [leg \in Legs |-> [ord[leg] EXCEPT ![n + 1] =
             IF leg \in sent THEN Ready(target[leg] - at[leg], TRUE) ELSE NoOrder]]
        /\ rep' = [leg \in Legs |-> [rep[leg] EXCEPT ![n + 1] =
             IF leg \in sent THEN Unknown ELSE NoReport]]
        /\ todo' = sent
  BY DEF SendBatch
<1>3. n' = n + 1 /\ n + 1 \in Batches
  BY <1>1, ExecutorAssumption DEF SendBatch, Batches
<1>4. \A leg \in Legs, b \in Batches :
        ord'[leg][b] = IF b # n + 1 THEN ord[leg][b]
                       ELSE IF leg \in sent THEN Ready(target[leg] - at[leg], TRUE) ELSE NoOrder
  BY <1>1, <1>2, <1>3
<1>5. \A leg \in Legs, b \in Batches :
        rep'[leg][b] = IF b # n + 1 THEN rep[leg][b]
                       ELSE IF leg \in sent THEN Unknown ELSE NoReport
  BY <1>1, <1>2, <1>3
<1>6. sent \in SUBSET Away /\ sent # {} /\ todo' = sent
  BY <1>2
<1> QED
  BY <1>3, <1>4, <1>5, <1>6

\* An order trades at most its quantity, a reduce-only order at most the position.
LEMMA FillableBounds ==
  ASSUME TypeOK, NEW leg \in Legs, NEW b \in Batches
  PROVE  LET o == ord[leg][b] IN
         /\ Fillable(leg, o) \in Nat /\ Fillable(leg, o) <= Abs(o.q)
         /\ o.ro /\ Fillable(leg, o) > 0 => o.q * pos[leg] < 0
         /\ o.ro => Fillable(leg, o) <= Abs(pos[leg])
  BY FieldTypes, Signs DEF Fillable, Smaller

LEMMA TerminateEffect ==
  ASSUME TypeOK, VenueTerminate
  PROVE  \E leg \in Legs, b \in Batches :
           /\ ord[leg][b].st = "live"
           /\ \E k \in 0..Fillable(leg, ord[leg][b]) :
                /\ pos' = [pos EXCEPT ![leg] = pos[leg] + Sgn(ord[leg][b].q) * k]
                /\ \A l \in Legs, c \in Batches :
                     ord'[l][c] = IF l = leg /\ c = b THEN Advanced(ord[leg][b], "ended", k)
                                  ELSE ord[l][c]
                /\ shown' = Publish(pos', leg)
<1>1. PICK leg \in Legs, b \in Batches :
        /\ ord[leg][b].st = "live"
        /\ \E k \in 0..Fillable(leg, ord[leg][b]) :
             /\ pos' = [pos EXCEPT ![leg] = pos[leg] + Sgn(ord[leg][b].q) * k]
             /\ ord' = [ord EXCEPT ![leg][b] = Advanced(ord[leg][b], "ended", k)]
             /\ shown' = Publish(pos', leg)
  BY DEF VenueTerminate
<1>2. PICK k \in 0..Fillable(leg, ord[leg][b]) :
        /\ pos' = [pos EXCEPT ![leg] = pos[leg] + Sgn(ord[leg][b].q) * k]
        /\ ord' = [ord EXCEPT ![leg][b] = Advanced(ord[leg][b], "ended", k)]
        /\ shown' = Publish(pos', leg)
  BY <1>1
<1>3. k \in Nat /\ ord \in [Legs -> [Batches -> OrderTypes]]
  BY FillableBounds DEF TypeOK
<1>4. Advanced(ord[leg][b], "ended", k) \in OrderTypes
  BY <1>3, RecordTypes DEF OrderStates
<1>5. \A l \in Legs, c \in Batches :
        ord'[l][c] = IF l = leg /\ c = b THEN Advanced(ord[leg][b], "ended", k) ELSE ord[l][c]
  BY <1>2, <1>3, <1>4, Replaced
<1>6. /\ pos' = [pos EXCEPT ![leg] = pos[leg] + Sgn(ord[leg][b].q) * k]
      /\ shown' = Publish(pos', leg)
  BY <1>2
<1>7. ord[leg][b].st = "live"
  BY <1>1
<1> QED
  BY <1>5, <1>6, <1>7

----------------------------------------------------------------------------
(* What is known of the orders *)

LEMMA OrdersInit == Init => OrdersSound
  BY Signs DEF Init, OrdersSound, OrderSound, NoOrder, NoReport

LEMMA OrdersStep ==
  ASSUME TypeOK, OrdersSound, CallSound, [Next]_vars
  PROVE  OrdersSound'
<1>0. n \in Batches /\ n \in Nat /\ \A b \in Batches : b \in Nat
  BY ExecutorAssumption DEF TypeOK, Batches
<1>1. CASE QuietSteps
  <2>1. ord' = ord /\ rep' = rep /\ todo' = todo /\ n' = n
    BY <1>1, QuietEffect
  <2> QED
    BY <2>1 DEF OrdersSound, OrderSound
<1>2. CASE Execute
  <2>1. n = 0 /\ todo' = Legs /\ n' = n
    BY <1>2 DEF Execute, CallSound
  <2>2. PICK q \in 1..MaxQty, side \in {-1, 1} : \A leg \in Legs :
              ord'[leg][0] = Ready(Hedge(side * q)[leg], side * at["L"] < 0)
    BY <1>2, <2>1, ExecuteEffect
  <2>3. /\ \A leg \in Legs : rep'[leg][0] = Unknown
        /\ \A leg \in Legs, b \in Batches : b # 0 =>
             ord'[leg][b] = ord[leg][b] /\ rep'[leg][b] = rep[leg][b]
    BY <1>2, <2>1, ExecuteEffect
  <2>4. \A leg \in Legs, b \in Batches : ord[leg][b].st = "none"
    BY <1>2 DEF Execute, CallSound
  <2>5. \A leg \in Legs : Hedge(side * q)[leg] \in Int /\ Hedge(side * q)[leg] # 0
    BY ExecutorAssumption, HedgeType DEF Legs
  <2>6. \A leg \in Legs :
          /\ ord'[leg][0].st = "ready" /\ ord'[leg][0].filled = 0
          /\ ord'[leg][0].q \in Int /\ ord'[leg][0].q # 0
          /\ rep'[leg][0].resolved = FALSE
    BY <2>2, <2>3, <2>5, RecordTypes
  <2> SUFFICES ASSUME NEW leg \in Legs, NEW b \in Batches
               PROVE  OrderSound(leg, b)'
    BY DEF OrdersSound
  <2>7. CASE b = 0
    <3>1. 0 <= Abs(ord'[leg][0].q)
      BY <2>6, Signs
    <3> QED
      BY <2>1, <2>3, <2>6, <2>7, <3>1 DEF OrderSound
  <2>8. CASE b # 0
    BY <2>1, <2>3, <2>4, <2>8 DEF OrdersSound, OrderSound
  <2> QED
    BY <2>7, <2>8
<1>3. ASSUME NEW leg \in Legs, SubmitLeg(leg) PROVE OrdersSound'
  <2>1. PICK st \in {"live", "lost", "ended"} : \A l \in Legs, c \in Batches :
           IF l = leg /\ c = n
           THEN /\ ord'[l][c] = Advanced(ord[l][c], st, 0)
                /\ rep'[l][c] = IF st = "ended" THEN NoReport ELSE rep[l][c]
           ELSE ord'[l][c] = ord[l][c] /\ rep'[l][c] = rep[l][c]
    BY <1>3, SubmitEffect
  <2>2. leg \in todo /\ todo' = todo \ {leg} /\ n' = n
    BY <1>3 DEF SubmitLeg
  <2>3. ord[leg][n].st = "ready" /\ rep[leg][n] = Unknown
    BY <1>0, <2>2 DEF OrdersSound, OrderSound
  <2>4. /\ ord'[leg][n].q = ord[leg][n].q /\ ord'[leg][n].filled = 0 /\ ord'[leg][n].st = st
        /\ rep'[leg][n] = IF st = "ended" THEN NoReport ELSE Unknown
    BY <1>0, <2>1, <2>3, RecordTypes
  <2> SUFFICES ASSUME NEW l \in Legs, NEW b \in Batches
               PROVE  OrderSound(l, b)'
    BY DEF OrdersSound
  <2>5. CASE l = leg /\ b = n
    <3>1. ord[leg][n].q # 0 /\ ord[leg][n].q \in Int /\ 0 <= Abs(ord[leg][n].q)
      BY <1>0, <2>3, FieldTypes, Signs DEF OrdersSound, OrderSound
    <3> QED
      BY <1>0, <2>2, <2>3, <2>4, <2>5, <3>1, RecordTypes DEF OrderSound
  <2>6. CASE ~(l = leg /\ b = n)
    BY <2>1, <2>2, <2>6 DEF OrdersSound, OrderSound
  <2> QED
    BY <2>5, <2>6
<1>4. CASE Collect \/ QueryTerminals
  <2>1. \A l \in Legs, c \in Batches :
          \/ rep'[l][c] = rep[l][c]
          \/ c \in 0..n /\ Ended(l, c) /\ rep'[l][c] = Learnt(l, c)
    BY <1>4, LearntEffect
  <2>2. ord' = ord /\ todo' = todo /\ n' = n
    BY <1>4 DEF Collect, QueryTerminals, venueVars, callVars
  <2>3. \A l \in Legs, c \in Batches : Ended(l, c) /\ rep'[l][c] = Learnt(l, c) =>
          /\ ord[l][c].st = "ended" /\ rep'[l][c].resolved = TRUE
          /\ rep'[l][c].filled = ord[l][c].filled
    BY DEF Ended, Learnt
  <2> QED
    BY <2>1, <2>2, <2>3 DEF OrdersSound, OrderSound
<1>5. CASE Confirmed \/ Disagree
  <2>1. ord' = ord /\ todo' = todo /\ n' = n /\ rep' = Inferred /\ todo = {}
    BY <1>5 DEF Confirmed, Disagree, venueVars, CallSound
  <2>2. \A l \in Legs, c \in Batches :
          \/ rep'[l][c] = rep[l][c]
          \/ ~rep[l][c].resolved /\ rep'[l][c].resolved = FALSE
    BY <2>1, InferredEffect, RecordTypes
  <2> QED
    BY <2>1, <2>2 DEF OrdersSound, OrderSound
<1>6. CASE SendBatch
  <2>1. PICK sent \in SUBSET Away :
           /\ sent # {} /\ todo' = sent /\ n' = n + 1 /\ n' \in Batches
           /\ \A leg \in Legs, b \in Batches :
                ord'[leg][b] = IF b # n + 1 THEN ord[leg][b]
                               ELSE IF leg \in sent THEN Ready(target[leg] - at[leg], TRUE)
                               ELSE NoOrder
           /\ \A leg \in Legs, b \in Batches :
                rep'[leg][b] = IF b # n + 1 THEN rep[leg][b]
                               ELSE IF leg \in sent THEN Unknown ELSE NoReport
    BY <1>6, SendBatchEffect
  <2>2. todo = {}
    BY <1>6 DEF SendBatch, CallSound
  <2>3. \A leg \in sent : target[leg] - at[leg] \in Int /\ target[leg] - at[leg] # 0
    <3>1. \A leg \in Legs : target[leg] \in Int /\ at[leg] \in Int
      BY DEF TypeOK
    <3> QED
      BY <2>1, <3>1 DEF Away
  <2> SUFFICES ASSUME NEW leg \in Legs, NEW b \in Batches
               PROVE  OrderSound(leg, b)'
    BY DEF OrdersSound
  <2>4. CASE b # n + 1
    <3>1. ord'[leg][b] = ord[leg][b] /\ rep'[leg][b] = rep[leg][b] /\ n' = n + 1
      BY <2>1, <2>4
    <3>2. OrderSound(leg, b) /\ (b > n + 1 => b > n)
      BY <1>0 DEF OrdersSound
    <3> QED
      BY <2>2, <2>4, <3>1, <3>2 DEF OrderSound
  <2>5. CASE b = n + 1 /\ leg \in sent
    <3>0. ord'[leg][b] = Ready(target[leg] - at[leg], TRUE) /\ rep'[leg][b] = Unknown
      BY <2>1, <2>5
    <3>1. /\ ord'[leg][b].q = target[leg] - at[leg] /\ ord'[leg][b].filled = 0
          /\ ord'[leg][b].st = "ready" /\ rep'[leg][b] = Unknown
      BY <3>0 DEF Ready
    <3>2. 0 <= Abs(target[leg] - at[leg])
      BY <2>3, <2>5, Signs
    <3> QED
      BY <1>0, <2>1, <2>3, <2>5, <3>1, <3>2, RecordTypes DEF OrderSound
  <2>6. CASE b = n + 1 /\ leg \notin sent
    <3>1. ord'[leg][b] = NoOrder /\ rep'[leg][b] = NoReport /\ leg \notin todo' /\ b = n'
      BY <2>1, <2>6
    <3>2. 0 <= Abs(0)
      BY Signs
    <3> QED
      BY <1>0, <3>1, <3>2, RecordTypes DEF OrderSound
  <2> QED
    BY <2>4, <2>5, <2>6
<1>7. CASE VenueTerminate
  <2>1. PICK leg \in Legs, b \in Batches :
           /\ ord[leg][b].st = "live"
           /\ \E k \in 0..Fillable(leg, ord[leg][b]) :
                /\ pos' = [pos EXCEPT ![leg] = pos[leg] + Sgn(ord[leg][b].q) * k]
                /\ \A l \in Legs, c \in Batches :
                     ord'[l][c] = IF l = leg /\ c = b THEN Advanced(ord[leg][b], "ended", k)
                                  ELSE ord[l][c]
                /\ shown' = Publish(pos', leg)
    BY <1>7, TerminateEffect
  <2>2. PICK k \in 0..Fillable(leg, ord[leg][b]) :
          \A l \in Legs, c \in Batches :
            ord'[l][c] = IF l = leg /\ c = b THEN Advanced(ord[leg][b], "ended", k) ELSE ord[l][c]
    BY <2>1
  <2>3. k \in Nat /\ k <= Abs(ord[leg][b].q)
    BY FillableBounds, FieldTypes, Signs
  <2>4. /\ ord'[leg][b].q = ord[leg][b].q /\ ord'[leg][b].filled = k
        /\ ord'[leg][b].st = "ended" /\ ~rep[leg][b].resolved
    BY <2>1, <2>2, RecordTypes DEF OrdersSound, OrderSound
  <2>5. rep' = rep /\ todo' = todo /\ n' = n
    BY <1>7 DEF VenueTerminate, callVars, resultVars
  <2>6. ord[leg][b].q # 0 /\ b <= n /\ ~(leg \in todo /\ b = n)
    <3>1. OrderSound(leg, b) /\ ord[leg][b].st = "live" /\ b \in Nat
      BY <1>0, <2>1 DEF OrdersSound
    <3> QED
      BY <1>0, <3>1 DEF OrderSound
  <2> SUFFICES ASSUME NEW l \in Legs, NEW c \in Batches
               PROVE  OrderSound(l, c)'
    BY DEF OrdersSound
  <2>7. CASE l = leg /\ c = b
    <3>1. ~(b > n)
      BY <1>0, <2>6
    <3> QED
      BY <2>3, <2>4, <2>5, <2>6, <2>7, <3>1 DEF OrderSound
  <2>8. CASE ~(l = leg /\ c = b)
    BY <2>2, <2>5, <2>8 DEF OrdersSound, OrderSound
  <2> QED
    BY <2>7, <2>8
<1> QED
  BY <1>1, <1>2, <1>3, <1>4, <1>5, <1>6, <1>7 DEF Next, QuietSteps

----------------------------------------------------------------------------
(* The point a call has reached *)

LEMMA CallInit == Init => CallSound
  BY DEF Init, CallSound, NoOrder

LEMMA CallStep ==
  ASSUME TypeOK, OrdersSound, CallSound, [Next]_vars
  PROVE  CallSound'
<1> USE DEF CallSound
<1>1. CASE Execute
  BY <1>1 DEF Execute, Legs
<1>2. CASE Decline
  BY <1>2 DEF Decline, venueVars, callVars, resultVars
<1>3. CASE EmergencyFlatten
  BY <1>3 DEF EmergencyFlatten, venueVars, callVars, resultVars
<1>4. CASE Resume
  BY <1>4 DEF Resume, ResumeFlatten, venueVars, TypeOK
<1>5. CASE Intervene
  BY <1>5 DEF Intervene
<1>6. ASSUME NEW leg \in Legs, SubmitLeg(leg) PROVE CallSound'
  BY <1>6 DEF SubmitLeg
<1>7. ASSUME NEW leg \in Legs, ReadPosition(leg) PROVE CallSound'
  BY <1>7 DEF ReadPosition, resultVars
<1>8. CASE Collect
  BY <1>8 DEF Collect, callVars
<1>9. CASE Confirmed
  BY <1>9 DEF Confirmed, venueVars
<1>10. CASE Disagree
  BY <1>10 DEF Disagree, venueVars
<1>11. CASE GiveUp
  BY <1>11 DEF GiveUp, Return, venueVars
<1>12. CASE FlattenDone
  <2>1. Reached => at = target
    BY DEF Reached, Away, TypeOK
  <2>2. Reported => (zero => OrdersTerminal(rep))
    BY DEF Reported
  <2>3. OrdersTerminal(rep)' <=> OrdersTerminal(rep)
    BY <1>12 DEF FlattenDone, resultVars, OrdersTerminal
  <2> QED
    BY <1>12, <2>1, <2>2, <2>3 DEF FlattenDone, venueVars, callVars, resultVars
<1>13. CASE FlattenStops
  BY <1>13 DEF FlattenStops, Return, venueVars, resultVars
<1>14. CASE SendBatch
  <2>1. PICK sent \in SUBSET Away : sent # {} /\ todo' = sent /\ n' = n + 1
    BY <1>14, SendBatchEffect
  <2>2. n \in Nat
    BY ExecutorAssumption DEF TypeOK, Batches
  <2> QED
    BY <1>14, <2>1, <2>2 DEF SendBatch
<1>15. CASE QueryTerminals
  BY <1>15 DEF QueryTerminals, venueVars, callVars
<1>16. CASE Reread
  BY <1>16 DEF Reread, venueVars, TypeOK
<1>17. CASE RereadUnresolved
  BY <1>17 DEF RereadUnresolved, Return, venueVars
<1>18. CASE VenueTerminate
  <2>1. pc \notin {"fresh", "declined"}
    BY <1>18 DEF VenueTerminate
  <2>2. OrdersTerminal(rep)' <=> OrdersTerminal(rep)
    BY <1>18 DEF VenueTerminate, resultVars, OrdersTerminal
  <2> QED
    BY <1>18, <2>1, <2>2 DEF VenueTerminate, callVars, resultVars
<1>19. CASE VenueShows \/ External
  <2>1. OrdersTerminal(rep)' <=> OrdersTerminal(rep)
    BY <1>19 DEF VenueShows, External, resultVars, OrdersTerminal
  <2> QED
    BY <1>19, <2>1 DEF VenueShows, External, callVars, resultVars
<1>20. CASE Cancel
  BY <1>20 DEF Cancel, venueVars, resultVars, Calling
<1>21. CASE UNCHANGED vars
  <2>1. OrdersTerminal(rep)' <=> OrdersTerminal(rep)
    BY <1>21 DEF vars, resultVars, OrdersTerminal
  <2> QED
    BY <1>21, <2>1 DEF vars, venueVars, callVars, resultVars
<1> QED
  BY <1>1, <1>2, <1>3, <1>4, <1>5, <1>6, <1>7, <1>8, <1>9, <1>10, <1>11, <1>12, <1>13,
     <1>14, <1>15, <1>16, <1>17, <1>18, <1>19, <1>20, <1>21 DEF Next

----------------------------------------------------------------------------
(* Rescue orders reduce to the target *)

\* The hedge two positions have in common lies between them and zero.
LEMMA HedgeBetween ==
  ASSUME NEW p \in [Legs -> Int]
  PROVE  \A leg \in Legs : Between(hedgeTargets(p)[leg], p[leg])
<1>1. p["L"] \in Int /\ p["R"] \in Int
  BY DEF Legs
<1>2. CASE p["L"] * p["R"] >= 0
  BY <1>2, HedgeType DEF hedgeTargets, Between
<1>3. CASE ~(p["L"] * p["R"] >= 0)
  <2> DEFINE m == Sgn(p["L"]) * Smaller(Abs(p["L"]), Abs(p["R"]))
  <2>1. (p["L"] > 0 /\ p["R"] < 0) \/ (p["L"] < 0 /\ p["R"] > 0)
    <3>1. ~(p["L"] >= 0 /\ p["R"] >= 0) /\ ~(p["L"] <= 0 /\ p["R"] <= 0)
      BY <1>1, <1>3, SameSide, Zenon
    <3> QED
      BY <1>1, <3>1
  <2>2. m \in Int /\ Between(m, p["L"]) /\ Between(-m, p["R"])
    BY <1>1, <2>1, Signs DEF Smaller, Between
  <2>3. hedgeTargets(p) = Hedge(m)
    BY <1>3 DEF hedgeTargets
  <2> HIDE DEF m
  <2> QED
    BY <2>2, <2>3, HedgeType DEF Legs
<1> QED
  BY <1>2, <1>3

\* An expected read shows a leg between its start and its order's full quantity.
LEMMA ExpectedMove ==
  ASSUME TypeOK, NEW leg \in Legs, ~Unexpected(leg)
  PROVE  LET q == ord[leg][n].q IN
         /\ Delta(leg) \in Nat /\ Delta(leg) <= Abs(q)
         /\ q > 0 => reads[leg] = before[leg] + Delta(leg) /\ Delta(leg) <= q
         /\ q < 0 => reads[leg] = before[leg] - Delta(leg) /\ Delta(leg) <= -q
         /\ q = 0 => reads[leg] = before[leg] /\ Delta(leg) = 0
<1>1. n \in Batches
  BY DEF TypeOK
<1>2. /\ ord[leg][n].q \in Int /\ rep[leg][n].filled \in Nat
      /\ reads[leg] \in Int /\ before[leg] \in Int
  BY <1>1, FieldTypes
<1>3. Delta(leg) \in rep[leg][n].filled .. Abs(ord[leg][n].q)
  BY DEF Unexpected
<1>4. Delta(leg) = IF ord[leg][n].q < 0 THEN before[leg] - reads[leg]
                   ELSE reads[leg] - before[leg]
  BY DEF Delta
<1>5. Abs(ord[leg][n].q) = IF ord[leg][n].q < 0 THEN -ord[leg][n].q ELSE ord[leg][n].q
  BY DEF Abs
<1> HIDE DEF Delta
<1>6. PICK q, a, d, x, y, k : /\ q = ord[leg][n].q /\ a = Abs(ord[leg][n].q) /\ d = Delta(leg)
                             /\ x = before[leg] /\ y = reads[leg] /\ k = rep[leg][n].filled
  OBVIOUS
<1>7. /\ d \in Nat /\ d <= a
      /\ q > 0 => y = x + d /\ d <= q
      /\ q < 0 => y = x - d /\ d <= -q
      /\ q = 0 => y = x /\ d = 0
  BY <1>2, <1>3, <1>4, <1>5, <1>6
<1> QED
  BY <1>6, <1>7

LEMMA TargetsInit == Init => TargetsSound
<1> SUFFICES ASSUME Init PROVE TargetsSound
  OBVIOUS
<1>1. TypeOK
  BY TypeInit
<1>2. \A leg \in Legs : target[leg] = 0 /\ at[leg] \in Int
  BY <1>1, HedgeType DEF Init, TypeOK
<1> QED
  BY <1>2 DEF Init, TargetsSound, Between

LEMMA TargetsStep ==
  ASSUME TypeOK, TypeOK', CallSound, TargetsSound, [Next]_vars
  PROVE  TargetsSound'
<1> USE DEF TargetsSound
<1>0. n \in Batches /\ n \in Nat
  BY ExecutorAssumption DEF TypeOK, Batches
<1>1. CASE Execute
  <2>1. stage = "first" /\ ~zero
    BY <1>1, <1>0 DEF Execute, CallSound, TypeOK
  <2> QED
    BY <1>1, <2>1 DEF Execute
<1>2. CASE \/ Decline \/ EmergencyFlatten \/ GiveUp \/ FlattenDone \/ FlattenStops \/ VenueShows
           \/ External \/ Cancel \/ (\E leg \in Legs : ReadPosition(leg)) \/ UNCHANGED vars
  <2>1. UNCHANGED <<zero, target, stage, before, ord, n, intervention, at>>
    BY <1>2 DEF Decline, EmergencyFlatten, GiveUp, FlattenDone, FlattenStops, VenueShows, Return,
       External, Cancel, ReadPosition, vars, venueVars, callVars, resultVars
  <2> QED
    BY <2>1
<1>3. CASE Resume \/ Intervene
  <2>1. UNCHANGED <<zero, target, before, ord, n, at>>
    BY <1>3 DEF Resume, Intervene, venueVars
  <2>2. \/ intervention' = intervention /\ stage' \in {stage, "retried"}
           /\ (stage' # stage => stage = "batch")
        \/ intervention' = "asked" /\ stage' = stage
    BY <1>3 DEF Resume, Intervene
  <2> QED
    BY <2>1, <2>2
<1>4. ASSUME NEW leg \in Legs, SubmitLeg(leg) PROVE TargetsSound'
  <2>1. \A l \in Legs, c \in Batches : ord'[l][c].q = ord[l][c].q
    BY <1>4, SubmitEffect, RecordTypes
  <2> QED
    BY <1>0, <1>4, <2>1 DEF SubmitLeg
<1>5. CASE Collect \/ QueryTerminals
  <2>1. UNCHANGED <<zero, target, stage, before, ord, n, intervention, at>>
    BY <1>5 DEF Collect, QueryTerminals, venueVars
  <2> QED
    BY <2>1
<1>6. CASE Confirmed
  <2>1. /\ at' = reads /\ stage' = "reduce" /\ zero' = zero
        /\ target' = IF stage = "first" THEN hedgeTargets(reads) ELSE target
    BY <1>6 DEF Confirmed
  <2>2. stage # "reduce" /\ (stage = "first" => ~zero)
    BY <1>6 DEF Confirmed, CallSound
  <2>3. ASSUME NEW leg \in Legs PROVE Between(target'[leg], at'[leg])
    <3>1. CASE stage = "first"
      BY <2>1, <3>1, HedgeBetween DEF TypeOK
    <3>2. CASE stage # "first"
      <4>1. /\ Between(target[leg], before[leg])
            /\ ord[leg][n].q \in {0, target[leg] - before[leg]}
        BY <2>2, <3>2 DEF TypeOK
      <4>2. ~Unexpected(leg)
        BY <1>6 DEF Confirmed
      <4>3. target[leg] \in Int /\ before[leg] \in Int /\ ord[leg][n].q \in Int
        BY <1>0, FieldTypes
      <4>4. Between(target[leg], reads[leg])
        BY <4>1, <4>2, <4>3, ExpectedMove DEF Between
      <4> QED
        BY <2>1, <3>2, <4>4
    <3> QED
      BY <3>1, <3>2
  <2> QED
    BY <2>1, <2>2, <2>3
<1>7. CASE Disagree
  BY <1>7 DEF Disagree, CallSound, venueVars
<1>8. CASE SendBatch
  <2>1. PICK sent \in SUBSET Away :
          /\ n' = n + 1 /\ n' \in Batches
          /\ \A leg \in Legs, b \in Batches :
               ord'[leg][b] = IF b # n + 1 THEN ord[leg][b]
                              ELSE IF leg \in sent THEN Ready(target[leg] - at[leg], TRUE)
                              ELSE NoOrder
    BY <1>8, SendBatchEffect
  <2>2. \A leg \in Legs : ord'[leg][n'] =
          IF leg \in sent THEN Ready(target[leg] - at[leg], TRUE) ELSE NoOrder
    BY <2>1
  <2>3. \A leg \in Legs : ord'[leg][n'].q \in {0, target[leg] - at[leg]}
    <3> TAKE leg \in Legs
    <3>0. Ready(target[leg] - at[leg], TRUE).q = target[leg] - at[leg] /\ NoOrder.q = 0
      BY DEF Ready, NoOrder
    <3>1. CASE leg \in sent
      <4>1. ord'[leg][n'] = Ready(target[leg] - at[leg], TRUE)
        BY <2>2, <3>1
      <4> QED
        BY <3>0, <4>1
    <3>2. CASE leg \notin sent
      <4>1. ord'[leg][n'] = NoOrder
        BY <2>2, <3>2
      <4> QED
        BY <3>0, <4>1
    <3> QED
      BY <3>1, <3>2
  <2>4. /\ stage' = "batch" /\ before' = at /\ target' = target /\ zero' = zero
        /\ stage = "reduce" /\ intervention # "asked"
    BY <1>8 DEF SendBatch, CallSound
  <2> QED
    BY <2>3, <2>4
<1>9. CASE Reread
  <2>1. target' = Flatness /\ stage' = "reduce"
    BY <1>9 DEF Reread
  <2>2. \A leg \in Legs : target'[leg] = 0 /\ at'[leg] \in Int
    BY <2>1, HedgeType DEF TypeOK
  <2> QED
    BY <2>1, <2>2 DEF Between
<1>10. CASE RereadUnresolved
  <2>1. UNCHANGED <<zero, target, stage, before, ord, n, intervention>>
        /\ (zero \/ intervention = "asked")
    BY <1>10 DEF RereadUnresolved, CallSound, venueVars
  <2>2. \A leg \in Legs : at'[leg] \in Int /\ Flatness[leg] = 0
    BY HedgeType DEF TypeOK
  <2>3. \A leg \in Legs : Between(Flatness[leg], at'[leg])
    BY <2>2 DEF Between
  <2> QED
    BY <2>1, <2>3
<1>11. CASE VenueTerminate
  <2>1. \A l \in Legs, c \in Batches : ord'[l][c].q = ord[l][c].q
    BY <1>11, TerminateEffect, RecordTypes
  <2>2. UNCHANGED <<zero, target, stage, before, n, intervention, at>>
    BY <1>11 DEF VenueTerminate, resultVars
  <2> QED
    BY <1>0, <2>1, <2>2
<1> QED
  BY <1>1, <1>2, <1>3, <1>4, <1>5, <1>6, <1>7, <1>8, <1>9, <1>10, <1>11 DEF Next

\* A rescue never meets a target it cannot reach by reducing: every leg away from
\* its target is further from zero than the target is, on the same side.
LEMMA Reducible ==
  ASSUME TypeOK, CallSound, TargetsSound
  PROVE  RescueReducible
<1> SUFFICES ASSUME pc = "flatten", NEW leg \in Away
             PROVE  (at[leg] - target[leg]) * at[leg] > 0
  BY DEF RescueReducible
<1>1. leg \in Legs /\ at[leg] # target[leg]
  BY DEF Away
<1>2. at[leg] \in Int /\ target[leg] \in Int
  BY <1>1 DEF TypeOK
<1>3. Between(target[leg], at[leg])
  BY <1>1 DEF CallSound, TargetsSound
<1>4. \/ 0 <= target[leg] /\ at[leg] > 0 /\ at[leg] - target[leg] > 0
      \/ target[leg] <= 0 /\ at[leg] < 0 /\ at[leg] - target[leg] < 0
  BY <1>1, <1>2, <1>3 DEF Between
<1> QED
  BY <1>2, <1>4

----------------------------------------------------------------------------
(* An account nobody else trades *)

\* The common hedge of two positions, without products and signs.
LEMMA HedgeValues ==
  ASSUME NEW p \in [Legs -> Int]
  PROVE  /\ hedgeTargets(p) \in [Legs -> Int]
         /\ hedgeTargets(p)["L"] + hedgeTargets(p)["R"] = 0
         /\ hedgeTargets(p)["L"] =
              IF p["L"] > 0 /\ p["R"] < 0 THEN IF p["L"] < -p["R"] THEN p["L"] ELSE -p["R"]
              ELSE IF p["L"] < 0 /\ p["R"] > 0 THEN IF -p["L"] < p["R"] THEN p["L"] ELSE -p["R"]
              ELSE 0
<1>1. p["L"] \in Int /\ p["R"] \in Int
  BY DEF Legs
<1>2. CASE p["L"] * p["R"] >= 0
  <2>1. ~(p["L"] > 0 /\ p["R"] < 0) /\ ~(p["L"] < 0 /\ p["R"] > 0)
    <3>1. (p["L"] >= 0 /\ p["R"] >= 0) \/ (p["L"] <= 0 /\ p["R"] <= 0)
      BY <1>1, <1>2, SameSide, Zenon
    <3> QED
      BY <1>1, <3>1
  <2>2. hedgeTargets(p) = Flatness
    BY <1>2 DEF hedgeTargets
  <2>3. hedgeTargets(p)["L"] = 0 /\ hedgeTargets(p)["R"] = 0 /\ hedgeTargets(p) \in [Legs -> Int]
    BY <2>2, HedgeType DEF Legs
  <2>4. hedgeTargets(p)["L"] + hedgeTargets(p)["R"] = 0
    BY <2>3
  <2> QED
    BY <1>1, <2>1, <2>3, <2>4
<1>3. CASE ~(p["L"] * p["R"] >= 0)
  <2> DEFINE m == Sgn(p["L"]) * Smaller(Abs(p["L"]), Abs(p["R"]))
  <2>1. (p["L"] > 0 /\ p["R"] < 0) \/ (p["L"] < 0 /\ p["R"] > 0)
    <3>1. ~(p["L"] >= 0 /\ p["R"] >= 0) /\ ~(p["L"] <= 0 /\ p["R"] <= 0)
      BY <1>1, <1>3, SameSide, Zenon
    <3> QED
      BY <1>1, <3>1
  <2>2. hedgeTargets(p) = Hedge(m)
    BY <1>3 DEF hedgeTargets
  <2>3. m = IF p["L"] > 0 /\ p["R"] < 0 THEN IF p["L"] < -p["R"] THEN p["L"] ELSE -p["R"]
            ELSE IF -p["L"] < p["R"] THEN p["L"] ELSE -p["R"]
    BY <1>1, <2>1, Signs DEF Smaller
  <2> HIDE DEF m
  <2>4. m \in Int
    BY <1>1, <2>3
  <2> QED
    BY <2>1, <2>2, <2>3, <2>4, HedgeType
<1> QED
  BY <1>2, <1>3

\* A leg that moves towards the common hedge leaves it where it is.
LEMMA HedgeStable ==
  ASSUME NEW p \in [Legs -> Int], NEW leg \in Legs, NEW x \in Int,
         NEW t, t = hedgeTargets(p)[leg],
         (t <= x /\ x <= p[leg]) \/ (p[leg] <= x /\ x <= t)
  PROVE  hedgeTargets([p EXCEPT ![leg] = x]) = hedgeTargets(p)
<1> DEFINE y == [p EXCEPT ![leg] = x]
<1>1. y \in [Legs -> Int] /\ y[leg] = x /\ \A l \in Legs : l # leg => y[l] = p[l]
  OBVIOUS
<1>2. p["L"] \in Int /\ p["R"] \in Int /\ y["L"] \in Int /\ y["R"] \in Int
  BY DEF Legs
<1> HIDE DEF y
<1>3. /\ hedgeTargets(p)["L"] \in Int /\ hedgeTargets(p)["R"] \in Int
      /\ hedgeTargets(p)["L"] + hedgeTargets(p)["R"] = 0
      /\ hedgeTargets(p)["L"] =
           IF p["L"] > 0 /\ p["R"] < 0 THEN IF p["L"] < -p["R"] THEN p["L"] ELSE -p["R"]
           ELSE IF p["L"] < 0 /\ p["R"] > 0 THEN IF -p["L"] < p["R"] THEN p["L"] ELSE -p["R"]
           ELSE 0
  BY HedgeValues DEF Legs
<1>4. /\ hedgeTargets(y) \in [Legs -> Int] /\ hedgeTargets(p) \in [Legs -> Int]
      /\ hedgeTargets(y)["L"] \in Int /\ hedgeTargets(y)["R"] \in Int
      /\ hedgeTargets(y)["L"] + hedgeTargets(y)["R"] = 0
      /\ hedgeTargets(y)["L"] =
           IF y["L"] > 0 /\ y["R"] < 0 THEN IF y["L"] < -y["R"] THEN y["L"] ELSE -y["R"]
           ELSE IF y["L"] < 0 /\ y["R"] > 0 THEN IF -y["L"] < y["R"] THEN y["L"] ELSE -y["R"]
           ELSE 0
  BY <1>1, HedgeValues DEF Legs
<1>5. ASSUME leg = "L" PROVE hedgeTargets(y)["L"] = hedgeTargets(p)["L"]
  <2>1. y["L"] = x /\ y["R"] = p["R"]
    BY <1>1, <1>5 DEF Legs
  <2>2. \/ p["L"] > 0 /\ p["R"] < 0 /\ y["L"] > 0 /\ y["R"] < 0
        \/ p["L"] < 0 /\ p["R"] > 0 /\ y["L"] < 0 /\ y["R"] > 0
        \/ /\ ~(p["L"] > 0 /\ p["R"] < 0) /\ ~(p["L"] < 0 /\ p["R"] > 0)
           /\ ~(y["L"] > 0 /\ y["R"] < 0) /\ ~(y["L"] < 0 /\ y["R"] > 0)
    BY <1>2, <1>3, <1>5, <2>1
  <2>3. hedgeTargets(y)["L"] = hedgeTargets(p)["L"]
    BY <1>2, <1>3, <1>4, <1>5, <2>1, <2>2
  <2> QED
    BY <2>3
<1>6. ASSUME leg = "R" PROVE hedgeTargets(y)["L"] = hedgeTargets(p)["L"]
  <2>1. y["R"] = x /\ y["L"] = p["L"]
    BY <1>1, <1>6 DEF Legs
  <2>2. \/ p["L"] > 0 /\ p["R"] < 0 /\ y["L"] > 0 /\ y["R"] < 0
        \/ p["L"] < 0 /\ p["R"] > 0 /\ y["L"] < 0 /\ y["R"] > 0
        \/ /\ ~(p["L"] > 0 /\ p["R"] < 0) /\ ~(p["L"] < 0 /\ p["R"] > 0)
           /\ ~(y["L"] > 0 /\ y["R"] < 0) /\ ~(y["L"] < 0 /\ y["R"] > 0)
    BY <1>2, <1>3, <1>6, <2>1
  <2>3. hedgeTargets(y)["L"] = hedgeTargets(p)["L"]
    BY <1>2, <1>3, <1>4, <1>6, <2>1, <2>2
  <2> QED
    BY <2>3
<1>7. hedgeTargets(y)["L"] = hedgeTargets(p)["L"]
  BY <1>5, <1>6 DEF Legs
<1>8. hedgeTargets(y)["R"] = hedgeTargets(p)["R"]
  BY <1>3, <1>4, <1>7
<1>9. hedgeTargets(y) = hedgeTargets(p)
  <2>1. \A l \in Legs : hedgeTargets(y)[l] = hedgeTargets(p)[l]
    BY <1>7, <1>8 DEF Legs
  <2>2. hedgeTargets(y) \in [Legs -> Int] /\ hedgeTargets(p) \in [Legs -> Int]
    BY <1>4
  <2> QED
    BY <2>1, <2>2
<1> QED
  BY <1>9 DEF y

\* Positions changed from outside stay counted, and an exit stays an exit.
LEMMA Backwards ==
  ASSUME TypeOK, [Next]_vars
  PROVE  /\ Undisturbed' => Undisturbed /\ ~External
         /\ zero => zero'
<1>1. CASE External
  <2>1. PICK leg \in Legs : ext' = [ext EXCEPT ![leg] = ext[leg] + 1]
    BY <1>1 DEF External
  <2>2. ext'[leg] > 0
    BY <2>1 DEF TypeOK
  <2>3. ext' # Flatness
    BY <2>2, HedgeType
  <2> QED
    BY <1>1, <2>3 DEF Undisturbed, External, resultVars
<1>2. CASE ~External
  <2>1. ext' = ext
    BY <1>2 DEF Next, Execute, Decline, EmergencyFlatten, Resume, Intervene, SubmitLeg, ReadPosition,
       Collect, Confirmed, Disagree, GiveUp, FlattenDone, FlattenStops, SendBatch,
       QueryTerminals, Reread, RereadUnresolved, VenueTerminate, VenueShows, Cancel, vars, venueVars
  <2>2. zero => zero'
    BY <1>2 DEF Next, Execute, Decline, EmergencyFlatten, Resume, Intervene, SubmitLeg, ReadPosition,
       Collect, Confirmed, Disagree, GiveUp, FlattenDone, FlattenStops, SendBatch,
       QueryTerminals, Reread, RereadUnresolved, VenueTerminate, VenueShows, Cancel, vars, resultVars
  <2> QED
    BY <1>2, <2>1, <2>2 DEF Undisturbed
<1> QED
  BY <1>1, <1>2

LEMMA CurrentStep ==
  ASSUME TypeOK, Current, [Next]_vars
  PROVE  Current'
<1> SUFFICES ASSUME ~Lagging, shown = pos PROVE shown' = pos'
  BY DEF Current
<1>1. CASE VenueTerminate
  <2>1. PICK leg \in Legs : \E x : pos' = [pos EXCEPT ![leg] = x] /\ shown' = Publish(pos', leg)
    BY <1>1 DEF VenueTerminate
  <2> QED
    BY <2>1 DEF Publish, TypeOK
<1>2. CASE External
  <2>1. PICK leg \in Legs : \E x : pos' = [pos EXCEPT ![leg] = x] /\ shown' = Publish(pos', leg)
    BY <1>2 DEF External
  <2> QED
    BY <2>1 DEF Publish, TypeOK
<1>3. CASE VenueShows
  BY <1>3 DEF VenueShows
<1>4. CASE ~VenueTerminate /\ ~External /\ ~VenueShows
  BY <1>4 DEF Next, Execute, Decline, EmergencyFlatten, Resume, Intervene, SubmitLeg, ReadPosition,
     Collect, Confirmed, Disagree, GiveUp, FlattenDone, FlattenStops, SendBatch,
     QueryTerminals, Reread, RereadUnresolved, Cancel, vars, venueVars
<1> QED
  BY <1>1, <1>2, <1>3, <1>4

\* What Tracked says, without its premise, and the facts of one leg used with it.
Picture ==
  /\ \A leg \in Legs : IF stage = "reduce" THEN Confident(leg) ELSE InFlight(leg)
  /\ \A leg \in Legs, b \in 0..n : b < n \/ stage = "reduce" => Accounted(leg, b)
  /\ ~zero => verdict # "unexpected" /\ intervention = "no"
  /\ ~zero /\ stage # "first" => target = hedgeTargets(pos)

LEMMA TrackedInit == Init => Tracked
<1> SUFFICES ASSUME Init PROVE Picture
  BY DEF Tracked, Picture
<1>1. TypeOK /\ n = 0 /\ n \in Batches
  BY TypeInit DEF Init, TypeOK
<1>2. \A leg \in Legs : ord[leg][0] = NoOrder /\ rep[leg][0] = NoReport
  BY <1>1 DEF Init
<1>3. \A leg \in Legs : pos[leg] \in Int /\ shown[leg] = pos[leg] /\ at[leg] = pos[leg]
                        /\ before[leg] = pos[leg] /\ leg \notin got
  BY <1>1 DEF Init, TypeOK
<1>4. \A leg \in Legs : Confident(leg) /\ InFlight(leg)
  <2> TAKE leg \in Legs
  <2>1. Sgn(0) * 0 = 0
    BY Signs
  <2> QED
    BY <1>1, <1>2, <1>3, <2>1, RecordTypes DEF Confident, InFlight
<1>5. \A leg \in Legs, b \in 0..n : Accounted(leg, b)
  BY <1>1, <1>2, RecordTypes DEF Accounted, Over
<1>6. (~zero => stage = "first") /\ verdict = "none" /\ intervention = "no"
  BY DEF Init
<1> QED
  BY <1>4, <1>5, <1>6 DEF Picture

\* A pair is sent from a position everybody agrees on.
LEMMA PictureExecute ==
  ASSUME TypeOK, OrdersSound, CallSound, Picture, Execute
  PROVE  Picture'
<1>1. n = 0 /\ n \in Batches /\ stage = "first" /\ got = {}
  BY ExecutorAssumption DEF Execute, CallSound, TypeOK, Batches
<1>2. /\ UNCHANGED <<pos, shown, got, reads, verdict, stage, zero, n, at, before, target, intervention>>
  BY DEF Execute
<1>3. \A leg \in Legs : ord[leg][0].q = 0 /\ ord[leg][0].filled = 0
  BY <1>1 DEF Execute, CallSound, OrdersSound, OrderSound
<1>4. \A leg \in Legs : ord'[leg][0].filled = 0 /\ ord'[leg][0].q \in Int
                        /\ rep'[leg][0].filled = 0 /\ rep'[leg][0].resolved = FALSE
  <2>1. PICK q \in 1..MaxQty, side \in {-1, 1} : \A leg \in Legs :
          ord'[leg][0] = Ready(Hedge(side * q)[leg], side * at["L"] < 0)
    BY <1>1, ExecuteEffect
  <2>2. \A leg \in Legs : rep'[leg][0] = Unknown
    BY <1>1, ExecuteEffect
  <2>3. \A leg \in Legs : Hedge(side * q)[leg] \in Int
    BY HedgeType
  <2> QED
    BY <2>1, <2>2, <2>3, RecordTypes
<1>5. ASSUME NEW leg \in Legs PROVE InFlight(leg)'
  <2>1. \A m \in Int : Sgn(m) * 0 = 0
    BY Signs
  <2>2. InFlight(leg) /\ pos[leg] \in Int /\ before[leg] \in Int
    BY <1>1 DEF Picture, TypeOK
  <2>3. pos[leg] = before[leg] /\ shown[leg] = pos[leg]
    BY <1>1, <1>3, <2>1, <2>2 DEF InFlight
  <2> QED
    BY <1>1, <1>2, <1>4, <2>1, <2>2, <2>3 DEF InFlight
<1> QED
  BY <1>1, <1>2, <1>5 DEF Picture

\* Steps that move neither orders nor what is known of them.
LEMMA PictureQuiet ==
  ASSUME TypeOK, CallSound, Picture, Current, Lagging => ~zero',
         \/ Decline \/ EmergencyFlatten \/ Resume \/ GiveUp \/ FlattenDone \/ FlattenStops
         \/ RereadUnresolved \/ Cancel \/ UNCHANGED vars
  PROVE  Picture'
<1>1. /\ UNCHANGED <<pos, shown, ord, zero, n, rep, before, target, intervention>>
      /\ stage' = stage \/ (stage = "batch" /\ stage' = "retried")
      /\ verdict' \in {verdict, "none"}
      /\ (got' = got /\ reads' = reads) \/ got' = {}
  BY DEF Decline, EmergencyFlatten, Resume, GiveUp, FlattenDone, FlattenStops, RereadUnresolved, Return,
     Cancel, vars, venueVars, callVars, resultVars
<1>2. at' = at \/ (got = Legs /\ at' = reads)
  BY DEF Decline, EmergencyFlatten, Resume, GiveUp, FlattenDone, FlattenStops, RereadUnresolved, Return,
     Cancel, vars, resultVars
<1>3. ASSUME NEW leg \in Legs, stage = "reduce", Confident(leg) PROVE Confident(leg)'
  BY <1>1, <1>2, <1>3 DEF Confident, TypeOK
<1>4. ASSUME NEW leg \in Legs, InFlight(leg) PROVE InFlight(leg)'
  BY <1>1, <1>4 DEF InFlight
<1>5. \A leg \in Legs, b \in 0..n : Accounted(leg, b) => Accounted(leg, b)'
  BY <1>1 DEF Accounted, Over
<1> QED
  BY <1>1, <1>3, <1>4, <1>5 DEF Picture

\* An intervention follows a contradiction, which only an exit can meet.
LEMMA PictureIntervene ==
  ASSUME TypeOK, CallSound, Picture, Current, Lagging => ~zero', Intervene
  PROVE  Picture'
<1>1. /\ UNCHANGED <<pos, ord, got, reads, stage, zero, n, rep, at, before, target>>
      /\ verdict = "unexpected" /\ verdict' = verdict /\ shown' = pos /\ got = {}
  BY DEF Intervene, CallSound
<1>2. zero
  BY <1>1 DEF Picture
<1>3. \A leg \in Legs : Confident(leg) => Confident(leg)'
  BY <1>1 DEF Confident
<1>4. \A leg \in Legs : InFlight(leg) => InFlight(leg)'
  BY <1>1 DEF InFlight
<1>5. \A leg \in Legs, b \in 0..n : Accounted(leg, b) => Accounted(leg, b)'
  BY <1>1 DEF Accounted, Over
<1> QED
  BY <1>1, <1>2, <1>3, <1>4, <1>5 DEF Picture

\* An order is handed over or refused.
LEMMA PictureSubmit ==
  ASSUME TypeOK, OrdersSound, CallSound, Picture, NEW leg \in Legs, SubmitLeg(leg)
  PROVE  Picture'
<1>0. n \in Batches /\ n \in Nat /\ 0..n \subseteq Batches
  BY ExecutorAssumption DEF TypeOK, Batches
<1>1. /\ UNCHANGED <<pos, shown, got, reads, verdict, stage, zero, n, before, target, intervention>>
      /\ stage # "reduce" /\ leg \in todo /\ got = {}
  BY DEF SubmitLeg, CallSound
<1>2. PICK st \in {"live", "lost", "ended"} : \A l \in Legs, c \in Batches :
         IF l = leg /\ c = n
         THEN /\ ord'[l][c] = Advanced(ord[l][c], st, 0)
              /\ rep'[l][c] = IF st = "ended" THEN NoReport ELSE rep[l][c]
         ELSE ord'[l][c] = ord[l][c] /\ rep'[l][c] = rep[l][c]
  BY SubmitEffect
<1>3. ord[leg][n].filled = 0 /\ rep[leg][n] = Unknown
  BY <1>0, <1>1 DEF OrdersSound, OrderSound
<1>4. /\ ord'[leg][n].q = ord[leg][n].q /\ ord'[leg][n].filled = 0
      /\ rep'[leg][n].filled = 0
  BY <1>0, <1>2, <1>3, RecordTypes
<1>5. InFlight(leg)'
  <2>1. \A m \in Int : Sgn(m) * 0 = 0
    BY Signs
  <2>2. InFlight(leg) /\ pos[leg] \in Int /\ before[leg] \in Int /\ ord[leg][n].q \in Int
    BY <1>0, <1>1, FieldTypes DEF Picture
  <2>3. pos[leg] = before[leg] /\ shown[leg] = pos[leg]
    BY <1>3, <2>1, <2>2 DEF InFlight
  <2> QED
    BY <1>1, <1>4, <2>1, <2>2, <2>3 DEF InFlight
<1>6. ASSUME NEW l \in Legs, l # leg PROVE InFlight(l)'
  <2>1. ord'[l][n] = ord[l][n] /\ rep'[l][n] = rep[l][n] /\ InFlight(l)
    BY <1>0, <1>1, <1>2, <1>6 DEF Picture
  <2> QED
    BY <1>1, <2>1 DEF InFlight
<1>7. \A l \in Legs, b \in 0..n : b < n => Accounted(l, b)'
  <2> TAKE l \in Legs, b \in 0..n
  <2>1. b < n => ord'[l][b] = ord[l][b] /\ rep'[l][b] = rep[l][b] /\ Accounted(l, b)
    BY <1>0, <1>2 DEF Picture
  <2> QED
    BY <2>1 DEF Accounted, Over
<1> QED
  BY <1>1, <1>5, <1>6, <1>7 DEF Picture

\* A position is read.
LEMMA PictureRead ==
  ASSUME TypeOK, Picture, NEW leg \in Legs, ReadPosition(leg)
  PROVE  Picture'
<1>1. /\ UNCHANGED <<pos, shown, ord, verdict, stage, zero, n, rep, at, before, target, intervention>>
      /\ got' = got \cup {leg} /\ reads' = [reads EXCEPT ![leg] = shown[leg]]
  BY DEF ReadPosition, resultVars
<1>2. reads'[leg] = shown[leg] /\ \A l \in Legs : l # leg => reads'[l] = reads[l]
  BY <1>1 DEF TypeOK
<1>3. \A l \in Legs : Confident(l) => Confident(l)'
  BY <1>1, <1>2 DEF Confident
<1>4. \A l \in Legs : InFlight(l) => InFlight(l)'
  BY <1>1, <1>2 DEF InFlight
<1>5. \A l \in Legs, b \in 0..n : Accounted(l, b) => Accounted(l, b)'
  BY <1>1 DEF Accounted, Over
<1> QED
  BY <1>1, <1>3, <1>4, <1>5 DEF Picture

\* Terminal reports are learnt, after a delay or with reads that are current.
LEMMA PictureLearnt ==
  ASSUME TypeOK, OrdersSound, CallSound, Picture, Current, Lagging => ~zero',
         Collect \/ QueryTerminals
  PROVE  Picture'
<1>0. n \in Batches /\ n \in Nat /\ 0..n \subseteq Batches
  BY ExecutorAssumption DEF TypeOK, Batches
<1>1. /\ UNCHANGED <<pos, ord, got, reads, verdict, stage, zero, n, at, before, target, intervention>>
      /\ got = {}
  BY DEF Collect, QueryTerminals, CallSound, venueVars, callVars
<1>2. shown' = pos
  <2>1. CASE Collect
    BY <2>1 DEF Collect
  <2>2. CASE QueryTerminals
    <3>1. zero \/ intervention = "asked"
      BY <2>2 DEF QueryTerminals, CallSound
    <3>2. ~Lagging
      BY <1>1, <3>1 DEF Picture
    <3> QED
      BY <2>2, <3>2 DEF Current, QueryTerminals, venueVars
  <2> QED
    BY <2>1, <2>2
<1>3. \A l \in Legs, c \in Batches :
         \/ rep'[l][c] = rep[l][c]
         \/ c \in 0..n /\ Ended(l, c) /\ rep'[l][c] = Learnt(l, c)
  BY LearntEffect
<1>4. \A l \in Legs, c \in Batches : rep'[l][c].filled \in {rep[l][c].filled, ord[l][c].filled}
  <2>1. \A l \in Legs, c \in Batches : Learnt(l, c).filled = ord[l][c].filled
    BY DEF Learnt
  <2> QED
    BY <1>3, <2>1
<1>5. \A l \in Legs : Confident(l) => Confident(l)'
  BY <1>1, <1>2 DEF Confident
<1>6. \A l \in Legs : InFlight(l) => InFlight(l)'
  BY <1>0, <1>1, <1>2, <1>4 DEF InFlight
<1>7. \A l \in Legs, b \in 0..n : Accounted(l, b) => Accounted(l, b)'
  BY <1>0, <1>1, <1>4 DEF Accounted, Over
<1> QED
  BY <1>1, <1>5, <1>6, <1>7 DEF Picture

\* What a read of an unconfirmed leg says of its order.
LEMMA LegMove ==
  ASSUME TypeOK, OrdersSound, NEW leg \in Legs, InFlight(leg)
  PROVE  /\ reads[leg] = before[leg] => Delta(leg) = 0
         /\ reads[leg] = pos[leg] => Delta(leg) = ord[leg][n].filled
         /\ ord[leg][n].filled # 0 => pos[leg] # before[leg]
         /\ ord[leg][n].filled = 0 => pos[leg] = before[leg]
         /\ ord[leg][n].filled <= Abs(ord[leg][n].q)
<1>1. n \in Batches
  BY DEF TypeOK
<1>2. /\ ord[leg][n].q \in Int /\ ord[leg][n].filled \in Nat
      /\ reads[leg] \in Int /\ before[leg] \in Int /\ pos[leg] \in Int
  BY <1>1, FieldTypes
<1>3. PICK q, f, x, y, p, d :
        /\ q = ord[leg][n].q /\ f = ord[leg][n].filled /\ x = before[leg] /\ y = reads[leg]
        /\ p = pos[leg] /\ d = Delta(leg)
  OBVIOUS
<1>4. q \in Int /\ f \in Nat /\ x \in Int /\ y \in Int /\ p \in Int
  BY <1>2, <1>3
<1>5. d = IF q < 0 THEN x - y ELSE y - x
  BY <1>3 DEF Delta
<1>6. p = x + Sgn(q) * f /\ f <= Abs(q)
  BY <1>1, <1>3 DEF InFlight, OrdersSound, OrderSound
<1>7. \/ q > 0 /\ p = x + f
      \/ q < 0 /\ p = x - f
      \/ q = 0 /\ p = x /\ f = 0
  BY <1>4, <1>6 DEF Sgn, Abs
<1>8. /\ y = x => d = 0
      /\ y = p => d = f
      /\ f # 0 => p # x
      /\ f = 0 => p = x
      /\ f <= Abs(q)
  BY <1>4, <1>5, <1>6, <1>7
<1> QED
  BY <1>3, <1>8

\* In the picture no read contradicts a fill.
LEMMA LegExpected ==
  ASSUME TypeOK, OrdersSound, NEW leg \in Legs, InFlight(leg), leg \in got
  PROVE  /\ ~Unexpected(leg)
         /\ Delta(leg) \in {0, ord[leg][n].filled}
         /\ Delta(leg) # 0 => shown[leg] = pos[leg] /\ reads[leg] = pos[leg]
<1>1. n \in Batches
  BY DEF TypeOK
<1>2. ord[leg][n].filled \in Nat /\ rep[leg][n].filled \in Nat /\ Abs(ord[leg][n].q) \in Nat
  BY <1>1, FieldTypes, Signs
<1>3. reads[leg] \in {before[leg], pos[leg]}
  BY DEF InFlight
<1>4. Delta(leg) \in {0, ord[leg][n].filled}
  BY <1>3, LegMove
<1>5. Delta(leg) # 0 => shown[leg] = pos[leg] /\ reads[leg] = pos[leg]
  BY LegMove DEF InFlight
<1>6. rep[leg][n].resolved => Delta(leg) = rep[leg][n].filled
  <2>1. rep[leg][n].resolved => reads[leg] = pos[leg] /\ rep[leg][n].filled = ord[leg][n].filled
    BY <1>1 DEF InFlight, OrdersSound, OrderSound
  <2> QED
    BY <2>1, LegMove
<1>7. rep[leg][n].filled <= Delta(leg)
  <2>1. CASE rep[leg][n].filled = 0
    BY <1>2, <1>4, <2>1
  <2>2. CASE rep[leg][n].filled # 0
    <3>1. rep[leg][n].filled = ord[leg][n].filled /\ reads[leg] = pos[leg]
      BY <2>2 DEF InFlight
    <3> QED
      BY <1>2, <3>1, LegMove
  <2> QED
    BY <2>1, <2>2
<1>8. Delta(leg) \in rep[leg][n].filled .. Abs(ord[leg][n].q)
  <2>1. ord[leg][n].filled <= Abs(ord[leg][n].q)
    BY LegMove
  <2>2. PICK d, f, a, r : /\ d = Delta(leg) /\ f = ord[leg][n].filled
                          /\ a = Abs(ord[leg][n].q) /\ r = rep[leg][n].filled
    OBVIOUS
  <2>3. d \in r..a
    BY <1>2, <1>4, <1>7, <2>1, <2>2
  <2> QED
    BY <2>2, <2>3
<1> QED
  BY <1>4, <1>5, <1>6, <1>8 DEF Unexpected

\* A confirmed leg is where the venue has it, its order has ended, and what the order
\* is credited with is what it traded.
LEMMA LegConfirmed ==
  ASSUME TypeOK, OrdersSound, CallSound, pc = "confirm", got = Legs,
         NEW leg \in Legs, InFlight(leg), ~Unresolved(leg)
  PROVE  /\ reads[leg] = pos[leg] /\ shown[leg] = pos[leg]
         /\ Over(leg, n) /\ Inferred[leg][n].filled = ord[leg][n].filled
<1>1. n \in Batches
  BY DEF TypeOK
<1>2. OrderSound(leg, n)
  BY <1>1 DEF OrdersSound
<1>3. CASE rep[leg][n].resolved
  <2>1. Inferred[leg][n] = rep[leg][n]
    BY <1>1, <1>3, InferredEffect
  <2> QED
    BY <1>2, <1>3, <2>1 DEF InFlight, OrderSound, Over
<1>4. CASE ~rep[leg][n].resolved
  <2>1. Delta(leg) = Abs(ord[leg][n].q) /\ ~Unexpected(leg)
    BY <1>4, LegExpected DEF Unresolved
  <2>2. Abs(ord[leg][n].q) # 0
    BY <1>1, <1>2, <1>4, FieldTypes, Signs DEF OrderSound
  <2>3. Delta(leg) # 0 /\ Delta(leg) = ord[leg][n].filled
    BY <2>1, <2>2, LegExpected
  <2>4. shown[leg] = pos[leg] /\ reads[leg] = pos[leg]
    BY <2>3, LegExpected
  <2>5. ord[leg][n].st = "ended"
    BY <1>2, <2>3 DEF OrderSound
  <2>6. Inferred[leg][n] = Credited(Delta(leg))
    BY <1>1, <1>4, <2>1, InferredEffect
  <2> QED
    BY <2>3, <2>4, <2>5, <2>6, RecordTypes DEF Over
<1> QED
  BY <1>3, <1>4

\* Fills and positions agree.
LEMMA PictureConfirmed ==
  ASSUME TypeOK, OrdersSound, CallSound, TargetsSound, Picture, Confirmed
  PROVE  Picture'
<1>0. n \in Batches /\ n \in Nat /\ 0..n \subseteq Batches
  BY ExecutorAssumption DEF TypeOK, Batches
<1>1. /\ UNCHANGED <<pos, shown, ord, zero, n, before, intervention>>
      /\ pc = "confirm" /\ got = Legs /\ stage # "reduce" /\ stage' = "reduce"
      /\ at' = reads /\ got' = {} /\ verdict' = "none" /\ rep' = Inferred
      /\ target' = IF stage = "first" THEN hedgeTargets(reads) ELSE target
  BY DEF Confirmed, CallSound, venueVars
<1>2. \A leg \in Legs : InFlight(leg) /\ ~Unresolved(leg)
  BY <1>1 DEF Picture, Confirmed
<1>3. \A leg \in Legs :
        /\ reads[leg] = pos[leg] /\ shown[leg] = pos[leg]
        /\ Over(leg, n) /\ Inferred[leg][n].filled = ord[leg][n].filled
  BY <1>1, <1>2, LegConfirmed
<1>4. \A leg \in Legs : Confident(leg)'
  BY <1>1, <1>3 DEF Confident
<1>5. ASSUME NEW leg \in Legs, NEW b \in 0..n PROVE Accounted(leg, b)'
  <2>1. CASE b = n
    BY <1>1, <1>3, <2>1 DEF Accounted, Over
  <2>2. CASE b # n
    <3>1. rep'[leg][b] = rep[leg][b] /\ Accounted(leg, b)
      BY <1>0, <1>1, <2>2, InferredEffect DEF Picture
    <3> QED
      BY <1>1, <3>1 DEF Accounted, Over
  <2> QED
    BY <2>1, <2>2
<1>6. ~zero' => target' = hedgeTargets(pos')
  <2>1. reads = pos
    BY <1>3 DEF TypeOK
  <2> QED
    BY <1>1, <2>1 DEF Picture
<1>7. ~zero' => verdict' # "unexpected" /\ intervention' = "no"
  BY <1>1 DEF Picture
<1> QED
  BY <1>1, <1>4, <1>5, <1>6, <1>7 DEF Picture

\* They do not agree yet.
LEMMA PictureDisagree ==
  ASSUME TypeOK, OrdersSound, CallSound, Picture, Disagree
  PROVE  Picture'
<1>0. n \in Batches /\ n \in Nat /\ 0..n \subseteq Batches
  BY ExecutorAssumption DEF TypeOK, Batches
<1>1. /\ UNCHANGED <<pos, shown, ord, zero, stage, n, before, target, intervention>>
      /\ pc = "confirm" /\ got = Legs /\ stage # "reduce"
      /\ at' = reads /\ got' = {} /\ rep' = Inferred
      /\ verdict' = IF \E leg \in Legs : Unexpected(leg) THEN "unexpected" ELSE "unresolved"
  BY DEF Disagree, CallSound, venueVars
<1>2. \A leg \in Legs : InFlight(leg) /\ leg \in got
  BY <1>1 DEF Picture
<1>3. \A leg \in Legs : /\ ~Unexpected(leg) /\ Delta(leg) \in {0, ord[leg][n].filled}
                        /\ Delta(leg) # 0 => shown[leg] = pos[leg]
  BY <1>2, LegExpected
<1>4. ASSUME NEW leg \in Legs PROVE InFlight(leg)'
  <2>1. \/ rep'[leg][n] = rep[leg][n]
        \/ rep'[leg][n] = Credited(Delta(leg))
    BY <1>0, <1>1, InferredEffect
  <2>2. CASE rep'[leg][n] = rep[leg][n]
    BY <1>1, <1>2, <2>2 DEF InFlight
  <2>3. CASE rep'[leg][n] = Credited(Delta(leg))
    <3>1. rep'[leg][n].filled = Delta(leg) /\ rep'[leg][n].resolved = FALSE
      BY <2>3, RecordTypes
    <3> QED
      BY <1>1, <1>2, <1>3, <3>1 DEF InFlight
  <2> QED
    BY <2>1, <2>2, <2>3
<1>5. ASSUME NEW leg \in Legs, NEW b \in 0..n, b < n PROVE Accounted(leg, b)'
  <2>1. rep'[leg][b] = rep[leg][b] /\ Accounted(leg, b)
    BY <1>0, <1>1, <1>5, InferredEffect DEF Picture
  <2> QED
    BY <1>1, <2>1 DEF Accounted, Over
<1>6. verdict' # "unexpected"
  BY <1>1, <1>3
<1> QED
  BY <1>1, <1>4, <1>5, <1>6 DEF Picture

\* A batch is sent from positions everybody agrees on.
LEMMA PictureSendBatch ==
  ASSUME TypeOK, OrdersSound, CallSound, Picture, SendBatch
  PROVE  Picture'
<1>0. n \in Batches /\ n \in Nat /\ 0..n \subseteq Batches
  BY ExecutorAssumption DEF TypeOK, Batches
<1>1. /\ UNCHANGED <<pos, shown, got, reads, verdict, zero, at, target, intervention>>
      /\ before' = at /\ stage = "reduce" /\ stage' = "batch" /\ got = {} /\ n' = n + 1
  BY DEF SendBatch, CallSound
<1>2. PICK sent \in SUBSET Away :
         /\ \A leg \in Legs, b \in Batches :
              ord'[leg][b] = IF b # n + 1 THEN ord[leg][b]
                             ELSE IF leg \in sent THEN Ready(target[leg] - at[leg], TRUE)
                             ELSE NoOrder
         /\ \A leg \in Legs, b \in Batches :
              rep'[leg][b] = IF b # n + 1 THEN rep[leg][b]
                             ELSE IF leg \in sent THEN Unknown ELSE NoReport
         /\ n' \in Batches
  BY SendBatchEffect
<1>3. ASSUME NEW leg \in Legs PROVE InFlight(leg)'
  <2>1. /\ ord'[leg][n'] = Ready(target[leg] - at[leg], TRUE) \/ ord'[leg][n'] = NoOrder
        /\ rep'[leg][n'] = Unknown \/ rep'[leg][n'] = NoReport
    BY <1>1, <1>2
  <2>2. target[leg] - at[leg] \in Int /\ at[leg] \in Int
    BY DEF TypeOK
  <2>3. ord'[leg][n'].q \in Int /\ ord'[leg][n'].filled = 0 /\ rep'[leg][n'].filled = 0
    <3>1. /\ Ready(target[leg] - at[leg], TRUE).q = target[leg] - at[leg]
          /\ Ready(target[leg] - at[leg], TRUE).filled = 0
          /\ NoOrder.q = 0 /\ NoOrder.filled = 0
      BY DEF Ready, NoOrder
    <3>2. ord'[leg][n'].q \in Int
      <4>1. ord'[leg][n'].q = target[leg] - at[leg] \/ ord'[leg][n'].q = 0
        BY <2>1, <3>1
      <4>2. PICK d : d = target[leg] - at[leg]
        OBVIOUS
      <4>3. ord'[leg][n'].q \in {d, 0} /\ d \in Int
        BY <2>2, <4>1, <4>2
      <4> QED
        BY <4>3
    <3>3. ord'[leg][n'].filled = 0
      BY <2>1, <3>1
    <3>4. rep'[leg][n'].filled = 0
      BY <2>1, RecordTypes
    <3> QED
      BY <3>2, <3>3, <3>4
  <2>4. \A m \in Int : Sgn(m) * 0 = 0
    BY Signs
  <2>5. at[leg] = pos[leg] /\ shown[leg] = pos[leg]
    BY <1>1 DEF Picture, Confident
  <2>6. pos[leg] = at[leg] + Sgn(ord'[leg][n'].q) * ord'[leg][n'].filled
    BY <2>2, <2>3, <2>4, <2>5
  <2> QED
    BY <1>1, <2>3, <2>5, <2>6 DEF InFlight
<1>4. ASSUME NEW leg \in Legs, NEW b \in 0..n', b < n' PROVE Accounted(leg, b)'
  <2>1. b \in 0..n /\ b # n + 1 /\ b \in Batches
    BY <1>0, <1>1, <1>4
  <2>2. ord'[leg][b] = ord[leg][b] /\ rep'[leg][b] = rep[leg][b] /\ Accounted(leg, b)
    BY <1>1, <1>2, <2>1 DEF Picture
  <2> QED
    BY <2>2 DEF Accounted, Over
<1>5. ~zero' => verdict' # "unexpected" /\ intervention' = "no" /\ target' = hedgeTargets(pos')
  BY <1>1 DEF Picture
<1> QED
  BY <1>1, <1>3, <1>4, <1>5 DEF Picture

\* Every order has ended by its report, and reads are current.
LEMMA PictureReread ==
  ASSUME TypeOK, OrdersSound, CallSound, Picture, Current, Lagging => ~zero', Reread
  PROVE  Picture'
<1>0. n \in Batches /\ n \in Nat /\ 0..n \subseteq Batches /\ n \in 0..n
  BY ExecutorAssumption DEF TypeOK, Batches
<1>1. /\ UNCHANGED <<pos, shown, ord, n, rep, before>>
      /\ zero' = TRUE /\ at' = reads /\ stage' = "reduce" /\ got = Legs /\ got' = {}
      /\ OrdersTerminal(rep)
  BY DEF Reread, venueVars
<1>2. \A leg \in Legs, b \in 0..n : rep[leg][b].resolved
  BY <1>1 DEF OrdersTerminal
<1>3. shown = pos
  BY <1>1 DEF Current
<1>4. \A leg \in Legs : Confident(leg)'
  <2>1. \A leg \in Legs : reads[leg] = pos[leg]
    BY <1>0, <1>1, <1>2 DEF Picture, Confident, InFlight
  <2> QED
    BY <1>1, <1>3, <2>1 DEF Confident
<1>5. \A leg \in Legs, b \in 0..n : Accounted(leg, b)'
  <2> TAKE leg \in Legs, b \in 0..n
  <2>1. b \in Batches /\ OrderSound(leg, b)
    BY <1>0 DEF OrdersSound
  <2>2. Over(leg, b) /\ rep[leg][b].filled = ord[leg][b].filled
    BY <1>2, <2>1 DEF OrderSound, Over
  <2> QED
    BY <1>1, <2>2 DEF Accounted, Over
<1> QED
  BY <1>1, <1>4, <1>5 DEF Picture

\* An order of the last batch ends; what it trades was under way to the target.
LEMMA PictureTerminate ==
  ASSUME TypeOK, TypeOK', OrdersSound, CallSound, TargetsSound, Picture, VenueTerminate
  PROVE  Picture'
<1>0. n \in Batches /\ n \in Nat /\ 0..n \subseteq Batches /\ \A b \in Batches : b \in Nat
  BY ExecutorAssumption DEF TypeOK, Batches
<1>1. PICK leg \in Legs, b \in Batches :
         /\ ord[leg][b].st = "live"
         /\ \E k \in 0..Fillable(leg, ord[leg][b]) :
              /\ pos' = [pos EXCEPT ![leg] = pos[leg] + Sgn(ord[leg][b].q) * k]
              /\ \A l \in Legs, c \in Batches :
                   ord'[l][c] = IF l = leg /\ c = b THEN Advanced(ord[leg][b], "ended", k)
                                ELSE ord[l][c]
              /\ shown' = Publish(pos', leg)
  BY TerminateEffect
<1>2. PICK k \in 0..Fillable(leg, ord[leg][b]) :
        /\ pos' = [pos EXCEPT ![leg] = pos[leg] + Sgn(ord[leg][b].q) * k]
        /\ \A l \in Legs, c \in Batches :
             ord'[l][c] = IF l = leg /\ c = b THEN Advanced(ord[leg][b], "ended", k)
                          ELSE ord[l][c]
        /\ shown' = Publish(pos', leg)
  BY <1>1
<1>3. UNCHANGED <<got, reads, verdict, stage, zero, n, rep, at, before, target, intervention>>
  BY DEF VenueTerminate, callVars, resultVars
<1>4. ~(b > n) /\ ord[leg][b].filled = 0 /\ ~rep[leg][b].resolved
  BY <1>1 DEF OrdersSound, OrderSound
<1>5. b = n /\ stage # "reduce"
  <2>1. b \in 0..n /\ ~Over(leg, b)
    <3>1. b \in Nat /\ n \in Nat
      BY <1>0
    <3>2. b \in 0..n
      BY <1>4, <3>1
    <3> QED
      BY <1>1, <3>2 DEF Over
  <2>2. ~(b < n) /\ stage # "reduce"
    BY <2>1 DEF Picture, Accounted
  <2> QED
    BY <1>0, <1>4, <2>2
<1>6. k \in Nat /\ k <= Abs(ord[leg][n].q)
  BY <1>0, <1>5, FillableBounds, FieldTypes, Signs
<1>7. InFlight(leg) /\ pos[leg] \in Int /\ before[leg] \in Int /\ ord[leg][n].q \in Int
      /\ target[leg] \in Int
  BY <1>0, <1>5, FieldTypes DEF Picture
<1>8. pos[leg] = before[leg] /\ shown[leg] = before[leg] /\ rep[leg][n].filled = 0
  <2>1. pos[leg] = before[leg]
    BY <1>4, <1>5, <1>7, LegMove
  <2> QED
    BY <1>4, <1>5, <1>7, <2>1 DEF InFlight
<1>9. pos'[leg] = pos[leg] + Sgn(ord[leg][n].q) * k /\ \A l \in Legs : l # leg => pos'[l] = pos[l]
  BY <1>2, <1>5 DEF TypeOK
<1>10. /\ shown'[leg] \in {shown[leg], pos'[leg]}
       /\ \A l \in Legs : l # leg => shown'[l] = shown[l]
  BY <1>2 DEF Publish, TypeOK
<1>11. InFlight(leg)'
  <2>1. ord'[leg][n].q = ord[leg][n].q /\ ord'[leg][n].filled = k
    BY <1>0, <1>2, <1>5, RecordTypes
  <2>2. pos'[leg] = before[leg] + Sgn(ord[leg][n].q) * k
    BY <1>8, <1>9
  <2>3. leg \in got => reads[leg] = before[leg]
    BY <1>7, <1>8 DEF InFlight
  <2> QED
    BY <1>3, <1>4, <1>5, <1>8, <1>10, <2>1, <2>2, <2>3 DEF InFlight
<1>12. ASSUME NEW l \in Legs, l # leg PROVE InFlight(l)'
  <2>1. InFlight(l) /\ ord'[l][n] = ord[l][n]
    BY <1>0, <1>2, <1>5, <1>12 DEF Picture
  <2> QED
    BY <1>3, <1>9, <1>10, <1>12, <2>1 DEF InFlight
<1>13. ASSUME NEW l \in Legs, NEW c \in 0..n, c < n PROVE Accounted(l, c)'
  <2>1. ord'[l][c] = ord[l][c] /\ Accounted(l, c)
    BY <1>0, <1>2, <1>5, <1>13 DEF Picture
  <2> QED
    BY <1>3, <2>1 DEF Accounted, Over
<1>14. ASSUME ~zero, stage # "first" PROVE target = hedgeTargets(pos')
  <2>1. target = hedgeTargets(pos)
    BY <1>14 DEF Picture
  <2>2. /\ Between(target[leg], before[leg])
        /\ ord[leg][n].q \in {0, target[leg] - before[leg]}
    BY <1>5, <1>14 DEF TargetsSound, TypeOK
  <2>3. PICK q, t, x, y : q = ord[leg][n].q /\ t = target[leg] /\ x = pos[leg] /\ y = pos'[leg]
    OBVIOUS
  <2>4. q \in Int /\ t \in Int /\ x \in Int /\ y = x + Sgn(q) * k /\ k <= Abs(q)
        /\ Between(t, x) /\ q \in {0, t - x}
    BY <1>6, <1>7, <1>8, <1>9, <2>2, <2>3
  <2>5. y \in Int /\ ((t <= y /\ y <= x) \/ (x <= y /\ y <= t))
    <3>1. CASE q > 0
      BY <1>6, <2>4, <3>1 DEF Sgn, Abs
    <3>2. CASE q < 0
      BY <1>6, <2>4, <3>2 DEF Sgn, Abs, Between
    <3>3. CASE q = 0
      BY <1>6, <2>4, <3>3 DEF Sgn, Abs, Between
    <3> QED
      BY <2>4, <3>1, <3>2, <3>3
  <2>6. t = hedgeTargets(pos)[leg] /\ x = pos[leg]
    BY <2>1, <2>3
  <2>7. (t <= y /\ y <= pos[leg]) \/ (pos[leg] <= y /\ y <= t)
    BY <2>5, <2>6
  <2>8. pos \in [Legs -> Int] /\ pos' = [pos EXCEPT ![leg] = y]
    BY <1>2, <2>3 DEF TypeOK
  <2>9. hedgeTargets([pos EXCEPT ![leg] = y]) = hedgeTargets(pos)
    BY <2>5, <2>6, <2>7, <2>8, HedgeStable
  <2> QED
    BY <2>1, <2>8, <2>9
<1>15. ~zero => verdict # "unexpected" /\ intervention = "no"
  BY DEF Picture
<1> QED
  BY <1>3, <1>5, <1>11, <1>12, <1>13, <1>14, <1>15 DEF Picture

\* A read catches up with the matching engine.
LEMMA PictureShows ==
  ASSUME TypeOK, Picture, VenueShows
  PROVE  Picture'
<1>1. UNCHANGED <<pos, ord, got, reads, verdict, stage, zero, n, rep, at, before, target, intervention>>
  BY DEF VenueShows, callVars, resultVars
<1>2. \A l \in Legs : shown'[l] \in {shown[l], pos[l]}
  BY DEF VenueShows, TypeOK
<1>3. \A l \in Legs : Confident(l) => Confident(l)'
  BY <1>1, <1>2 DEF Confident
<1>4. \A l \in Legs : InFlight(l) => InFlight(l)'
  BY <1>1, <1>2 DEF InFlight
<1>5. \A l \in Legs, b \in 0..n : Accounted(l, b) => Accounted(l, b)'
  BY <1>1 DEF Accounted, Over
<1> QED
  BY <1>1, <1>3, <1>4, <1>5 DEF Picture

LEMMA TrackedStep ==
  ASSUME TypeOK, TypeOK', OrdersSound, CallSound, TargetsSound, Current, Tracked, [Next]_vars
  PROVE  Tracked'
<1> SUFFICES ASSUME Undisturbed', Lagging => ~zero'
             PROVE  Picture'
  BY DEF Tracked, Picture
<1>1. Undisturbed /\ ~External /\ (Lagging => ~zero)
  BY Backwards
<1>2. Picture
  BY <1>1 DEF Tracked, Picture
<1>3. CASE Execute
  BY <1>2, <1>3, PictureExecute
<1>4. CASE \/ Decline \/ EmergencyFlatten \/ Resume \/ GiveUp \/ FlattenDone \/ FlattenStops
           \/ RereadUnresolved \/ Cancel \/ UNCHANGED vars
  BY <1>2, <1>4, PictureQuiet
<1>5. CASE Intervene
  BY <1>2, <1>5, PictureIntervene
<1>6. ASSUME NEW leg \in Legs, SubmitLeg(leg) PROVE Picture'
  BY <1>2, <1>6, PictureSubmit
<1>7. ASSUME NEW leg \in Legs, ReadPosition(leg) PROVE Picture'
  BY <1>2, <1>7, PictureRead
<1>8. CASE Collect \/ QueryTerminals
  BY <1>2, <1>8, PictureLearnt
<1>9. CASE Confirmed
  BY <1>2, <1>9, PictureConfirmed
<1>10. CASE Disagree
  BY <1>2, <1>10, PictureDisagree
<1>11. CASE SendBatch
  BY <1>2, <1>11, PictureSendBatch
<1>12. CASE Reread
  BY <1>2, <1>12, PictureReread
<1>13. CASE VenueTerminate
  BY <1>2, <1>13, PictureTerminate
<1>14. CASE VenueShows
  BY <1>2, <1>14, PictureShows
<1> QED
  BY <1>1, <1>3, <1>4, <1>5, <1>6, <1>7, <1>8, <1>9, <1>10, <1>11, <1>12, <1>13, <1>14 DEF Next

----------------------------------------------------------------------------
(* An exit only ever reduces *)

\* What Fading says of one leg.
Fades(leg) ==
  /\ Between(pos[leg], shown[leg]) /\ Between(pos[leg], at[leg])
  /\ leg \in got => Between(pos[leg], reads[leg])
  /\ \A b \in 0..n :
       /\ ord[leg][b].q # 0 => ord[leg][b].ro
       /\ b < n \/ stage = "reduce" => Over(leg, b) \/ pos[leg] = 0

LEMMA FadingInit == Init => Fading
<1> SUFFICES ASSUME Init, NEW leg \in Legs PROVE Fades(leg)
  BY DEF Fading, Fades
<1>1. TypeOK /\ n = 0 /\ n \in Batches
  BY TypeInit DEF Init, TypeOK
<1>2. pos[leg] \in Int /\ shown[leg] = pos[leg] /\ at[leg] = pos[leg] /\ got = {}
  BY <1>1 DEF Init, TypeOK
<1>3. ord[leg][0].q = 0 /\ ord[leg][0].st = "none"
  BY <1>1, RecordTypes DEF Init
<1> QED
  BY <1>1, <1>2, <1>3 DEF Fades, Between, Over

\* A reduce-only order brings a position no further than to zero.
LEMMA ReduceOnly ==
  ASSUME TypeOK, NEW leg \in Legs, NEW b \in Batches, ord[leg][b].ro,
         NEW k \in 0..Fillable(leg, ord[leg][b])
  PROVE  /\ pos[leg] + Sgn(ord[leg][b].q) * k \in Int
         /\ Between(pos[leg] + Sgn(ord[leg][b].q) * k, pos[leg])
<1>1. pos[leg] \in Int /\ ord[leg][b].q \in Int /\ k \in Nat
  BY FieldTypes, FillableBounds
<1>2. /\ k > 0 => ord[leg][b].q * pos[leg] < 0
      /\ k <= Abs(pos[leg])
  <2>1. /\ Fillable(leg, ord[leg][b]) \in Nat
        /\ Fillable(leg, ord[leg][b]) > 0 => ord[leg][b].q * pos[leg] < 0
        /\ Fillable(leg, ord[leg][b]) <= Abs(pos[leg])
    BY FillableBounds
  <2>2. Abs(pos[leg]) \in Nat
    BY <1>1, Signs
  <2>3. k <= Fillable(leg, ord[leg][b])
    BY <2>1
  <2> HIDE DEF Fillable, Abs
  <2>4. k > 0 => Fillable(leg, ord[leg][b]) > 0
    BY <1>1, <2>1, <2>3
  <2> QED
    BY <1>1, <2>1, <2>2, <2>3, <2>4
<1>3. PICK q, p : q = ord[leg][b].q /\ p = pos[leg]
  OBVIOUS
<1>4. q \in Int /\ p \in Int /\ (k > 0 => q * p < 0) /\ k <= Abs(p)
  BY <1>1, <1>2, <1>3
<1>5. k > 0 => (q > 0 /\ p < 0) \/ (q < 0 /\ p > 0)
  <2>1. q * p \in Int
    BY <1>4
  <2>2. k > 0 => ~(q * p >= 0)
    BY <1>4, <2>1
  <2>3. k > 0 => ~((q >= 0 /\ p >= 0) \/ (q <= 0 /\ p <= 0))
    BY <1>4, <2>2, SameSide, Zenon
  <2> QED
    BY <1>4, <2>3
<1>6. p + Sgn(q) * k \in Int /\ Between(p + Sgn(q) * k, p)
  <2>1. CASE k = 0
    <3>1. Sgn(q) * 0 = 0
      BY <1>4, Signs
    <3> QED
      BY <1>4, <2>1, <3>1 DEF Between
  <2>2. CASE k > 0 /\ q > 0 /\ p < 0
    BY <1>1, <1>4, <2>2 DEF Between, Sgn, Abs
  <2>3. CASE k > 0 /\ q < 0 /\ p > 0
    BY <1>1, <1>4, <2>3 DEF Between, Sgn, Abs
  <2> QED
    BY <1>1, <1>5, <2>1, <2>2, <2>3
<1> QED
  BY <1>3, <1>6

\* An order that is not known to have ended but is believed full reduced its leg to zero.
LEMMA BelievedFull ==
  ASSUME TypeOK, OrdersSound, TargetsSound, zero, stage \in {"batch", "retried"},
         NEW leg \in Legs, Between(pos[leg], reads[leg]), ~Unexpected(leg), ~Unresolved(leg)
  PROVE  Over(leg, n) \/ pos[leg] = 0
<1>1. n \in Batches
  BY DEF TypeOK
<1>2. OrderSound(leg, n)
  BY <1>1 DEF OrdersSound
<1>3. CASE rep[leg][n].resolved
  BY <1>2, <1>3 DEF OrderSound, Over
<1>4. CASE ~rep[leg][n].resolved
  <2>1. Delta(leg) = Abs(ord[leg][n].q) /\ ord[leg][n].q # 0
    BY <1>2, <1>4 DEF Unresolved, OrderSound
  <2>2. /\ ord[leg][n].q \in {0, target[leg] - before[leg]} /\ target[leg] = 0
    BY HedgeType DEF TargetsSound
  <2>3. PICK q, d, x, y, p : /\ q = ord[leg][n].q /\ d = Delta(leg) /\ x = before[leg]
                             /\ y = reads[leg] /\ p = pos[leg]
    OBVIOUS
  <2>4. q \in Int /\ x \in Int /\ y \in Int /\ p \in Int
    BY <1>1, <2>3, FieldTypes
  <2>5. /\ d = Abs(q) /\ q # 0
        /\ q > 0 => y = x + d
        /\ q < 0 => y = x - d
    BY <2>1, <2>3, ExpectedMove
  <2>6. q \in {0, target[leg] - x}
    BY <2>2, <2>3
  <2>7. q + x = 0
    BY <2>2, <2>4, <2>5, <2>6
  <2>8. y = x + q
    BY <2>4, <2>5, Signs
  <2>9. p = 0
    BY <2>3, <2>4, <2>7, <2>8 DEF Between
  <2> QED
    BY <2>3, <2>9
<1> QED
  BY <1>3, <1>4

LEMMA FadingStep ==
  ASSUME TypeOK, OrdersSound, CallSound, TargetsSound, Tracked, Fading, [Next]_vars
  PROVE  Fading'
<1> SUFFICES ASSUME Undisturbed', zero', NEW leg \in Legs PROVE Fades(leg)'
  BY DEF Fading, Fades
<1>0. n \in Batches /\ n \in Nat /\ 0..n \subseteq Batches /\ \A b \in Batches : b \in Nat
  BY ExecutorAssumption DEF TypeOK, Batches
<1>1. Undisturbed /\ ~External
  BY Backwards
<1>2. zero
  <2>1. CASE Reread
    <3>1. zero \/ intervention = "asked"
      BY <2>1 DEF Reread, CallSound
    <3> QED
      BY <1>1, <3>1 DEF Tracked
  <2>2. CASE ~Reread
    BY <2>2 DEF Next, Execute, Decline, EmergencyFlatten, Resume, Intervene, SubmitLeg, ReadPosition,
       Collect, Confirmed, Disagree, GiveUp, FlattenDone, FlattenStops, SendBatch, External,
       QueryTerminals, RereadUnresolved, VenueTerminate, VenueShows, Cancel, vars, resultVars
  <2> QED
    BY <2>1, <2>2
<1>3. Fades(leg)
  BY <1>1, <1>2 DEF Fading, Fades
<1>4. /\ pos[leg] \in Int /\ shown[leg] \in Int /\ at[leg] \in Int /\ reads[leg] \in Int
      /\ Between(pos[leg], pos[leg])
  BY <1>0, FieldTypes DEF Between
<1>5. CASE \/ EmergencyFlatten \/ Resume \/ Intervene \/ Collect \/ QueryTerminals \/ GiveUp
           \/ FlattenDone \/ FlattenStops \/ RereadUnresolved \/ VenueShows \/ Cancel \/ Disagree
           \/ UNCHANGED vars
  <2>1. /\ UNCHANGED <<pos, ord, n>>
        /\ stage' = stage \/ (stage = "batch" /\ stage' = "retried")
        /\ (got' = got /\ reads' = reads) \/ got' = {}
    BY <1>5 DEF EmergencyFlatten, Resume, Intervene, Collect, QueryTerminals, GiveUp, FlattenDone,
       FlattenStops, RereadUnresolved, VenueShows, Cancel, Disagree, Return, vars, venueVars,
       callVars, resultVars
  <2>2. at' = at \/ (got = Legs /\ at' = reads)
    BY <1>5 DEF EmergencyFlatten, Resume, Intervene, Collect, QueryTerminals, GiveUp, FlattenDone,
       FlattenStops, RereadUnresolved, VenueShows, Cancel, Disagree, vars, resultVars
  <2>3. shown'[leg] \in {shown[leg], pos[leg]}
    BY <1>5 DEF EmergencyFlatten, Resume, Intervene, Collect, QueryTerminals, GiveUp, FlattenDone,
       FlattenStops, RereadUnresolved, VenueShows, Cancel, Disagree, vars, venueVars, TypeOK
  <2> QED
    BY <1>3, <1>4, <2>1, <2>2, <2>3 DEF Fades, Over
<1>6. ASSUME NEW l \in Legs, SubmitLeg(l) PROVE Fades(leg)'
  <2>1. PICK st \in {"live", "lost", "ended"} : \A i \in Legs, c \in Batches :
           IF i = l /\ c = n
           THEN /\ ord'[i][c] = Advanced(ord[i][c], st, 0)
                /\ rep'[i][c] = IF st = "ended" THEN NoReport ELSE rep[i][c]
           ELSE ord'[i][c] = ord[i][c] /\ rep'[i][c] = rep[i][c]
    BY <1>6, SubmitEffect
  <2>2. UNCHANGED <<pos, shown, at, got, reads, stage, n>> /\ stage # "reduce"
    BY <1>6 DEF SubmitLeg, CallSound
  <2>3. \A c \in 0..n : /\ ord'[leg][c].q = ord[leg][c].q /\ ord'[leg][c].ro = ord[leg][c].ro
                        /\ c < n => ord'[leg][c] = ord[leg][c]
    BY <1>0, <2>1, RecordTypes
  <2> QED
    BY <1>3, <2>2, <2>3 DEF Fades, Over
<1>7. ASSUME NEW l \in Legs, ReadPosition(l) PROVE Fades(leg)'
  <2>1. /\ UNCHANGED <<pos, shown, at, ord, stage, n>>
        /\ got' = got \cup {l} /\ reads'[l] = shown[l]
        /\ leg # l => reads'[leg] = reads[leg]
    BY <1>7 DEF ReadPosition, resultVars, TypeOK
  <2> QED
    BY <1>3, <2>1 DEF Fades, Over
<1>8. CASE Confirmed
  <2>1. /\ UNCHANGED <<pos, shown, ord, n>> /\ at' = reads /\ got = Legs /\ got' = {}
        /\ pc = "confirm"
    BY <1>8 DEF Confirmed, venueVars
  <2>2. stage \in {"batch", "retried"}
    BY <1>2, <2>1 DEF CallSound, TypeOK
  <2>3. Over(leg, n) \/ pos[leg] = 0
    BY <1>2, <1>3, <1>8, <2>1, <2>2, BelievedFull DEF Fades, Confirmed
  <2> QED
    BY <1>0, <1>3, <2>1, <2>3 DEF Fades, Over
<1>9. CASE SendBatch
  <2>1. PICK sent \in SUBSET Away :
           \A l \in Legs, b \in Batches :
             ord'[l][b] = IF b # n + 1 THEN ord[l][b]
                          ELSE IF l \in sent THEN Ready(target[l] - at[l], TRUE)
                          ELSE NoOrder
    BY <1>9, SendBatchEffect
  <2>2. UNCHANGED <<pos, shown, at, got, reads>> /\ stage = "reduce" /\ stage' = "batch" /\ n' = n + 1
        /\ n' \in Batches
    BY <1>9, SendBatchEffect DEF SendBatch, CallSound
  <2>3. ord'[leg][n'].q # 0 => ord'[leg][n'].ro
    <3>1. ord'[leg][n'] = Ready(target[leg] - at[leg], TRUE) \/ ord'[leg][n'] = NoOrder
      BY <2>1, <2>2
    <3>2. Ready(target[leg] - at[leg], TRUE).ro /\ NoOrder.q = 0
      BY DEF Ready, NoOrder
    <3> QED
      BY <3>1, <3>2
  <2>4. ASSUME NEW b \in 0..n PROVE ord'[leg][b] = ord[leg][b]
    <3>1. b \in Batches /\ b # n + 1
      BY <1>0
    <3> QED
      BY <2>1, <3>1
  <2>5. \A b \in 0..n' : b = n' \/ b \in 0..n
    BY <1>0, <2>2
  <2>6. ~(n' < n')
    BY <1>0, <2>2
  <2> QED
    BY <1>3, <2>2, <2>3, <2>4, <2>5, <2>6 DEF Fades, Over
<1>10. CASE Reread
  <2>1. UNCHANGED <<pos, shown, ord, n>> /\ at' = reads /\ got = Legs /\ got' = {}
    BY <1>10 DEF Reread, venueVars
  <2>2. ASSUME NEW b \in 0..n PROVE Over(leg, b)
    <3>1. rep[leg][b].resolved /\ OrderSound(leg, b)
      BY <1>0, <1>10 DEF Reread, OrdersTerminal, OrdersSound
    <3> QED
      BY <3>1 DEF OrderSound, Over
  <2> QED
    BY <1>3, <2>1, <2>2 DEF Fades, Over
<1>11. CASE VenueTerminate
  <2>1. PICK l \in Legs, b \in Batches :
           /\ ord[l][b].st = "live"
           /\ \E k \in 0..Fillable(l, ord[l][b]) :
                /\ pos' = [pos EXCEPT ![l] = pos[l] + Sgn(ord[l][b].q) * k]
                /\ \A i \in Legs, c \in Batches :
                     ord'[i][c] = IF i = l /\ c = b THEN Advanced(ord[l][b], "ended", k)
                                  ELSE ord[i][c]
                /\ shown' = Publish(pos', l)
    BY <1>11, TerminateEffect
  <2>2. PICK k \in 0..Fillable(l, ord[l][b]) :
          /\ pos' = [pos EXCEPT ![l] = pos[l] + Sgn(ord[l][b].q) * k]
          /\ \A i \in Legs, c \in Batches :
               ord'[i][c] = IF i = l /\ c = b THEN Advanced(ord[l][b], "ended", k)
                            ELSE ord[i][c]
          /\ shown' = Publish(pos', l)
    BY <2>1
  <2>3. UNCHANGED <<at, got, reads, stage, n>>
    BY <1>11 DEF VenueTerminate, callVars, resultVars
  <2>4. pos'[leg] \in Int /\ Between(pos'[leg], pos[leg])
    <3>1. CASE leg = l
      <4>1. b \in 0..n /\ ord[l][b].q # 0
        <5>1. OrderSound(l, b)
          BY DEF OrdersSound
        <5>2. ~(b > n) /\ ord[l][b].q # 0
          BY <2>1, <5>1 DEF OrderSound
        <5>3. b \in Nat /\ n \in Nat
          BY <1>0
        <5>4. b \in 0..n
          BY <5>2, <5>3
        <5> QED
          BY <5>2, <5>4
      <4>2. ord[l][b].ro
        BY <1>3, <3>1, <4>1 DEF Fades
      <4>3. pos'[l] = pos[l] + Sgn(ord[l][b].q) * k
        BY <2>2 DEF TypeOK
      <4> QED
        BY <3>1, <4>2, <4>3, ReduceOnly
    <3>2. CASE leg # l
      BY <1>4, <2>2, <3>2 DEF TypeOK
    <3> QED
      BY <3>1, <3>2
  <2>5. shown'[leg] \in {shown[leg], pos'[leg]}
    BY <2>2 DEF Publish, TypeOK
  <2>6. ASSUME NEW m \in Int, Between(pos[leg], m) PROVE Between(pos'[leg], m)
    BY <1>4, <2>4, <2>6 DEF Between
  <2>7. Between(pos'[leg], pos'[leg]) /\ (pos[leg] = 0 => pos'[leg] = 0)
    BY <2>4 DEF Between
  <2>8. ASSUME NEW c \in 0..n
        PROVE  /\ ord'[leg][c].q = ord[leg][c].q /\ ord'[leg][c].ro = ord[leg][c].ro
               /\ Over(leg, c) => Over(leg, c)'
    <3>1. \/ ord'[leg][c] = ord[leg][c]
          \/ leg = l /\ c = b /\ ord'[leg][c] = Advanced(ord[leg][c], "ended", k)
      BY <1>0, <2>2
    <3> QED
      BY <3>1, RecordTypes DEF Over
  <2>9. /\ Between(pos'[leg], shown'[leg]) /\ Between(pos'[leg], at'[leg])
        /\ leg \in got' => Between(pos'[leg], reads'[leg])
    BY <1>3, <1>4, <2>3, <2>5, <2>6, <2>7 DEF Fades
  <2> QED
    BY <1>3, <2>3, <2>7, <2>8, <2>9 DEF Fades
<1>12. ~Execute /\ ~Decline
  BY <1>2 DEF Execute, Decline
<1> QED
  BY <1>1, <1>5, <1>6, <1>7, <1>8, <1>9, <1>10, <1>11, <1>12 DEF Next

----------------------------------------------------------------------------
(* The rescue account *)

LEMMA CountedInit == Init => Counted
<1> SUFFICES ASSUME Init PROVE Counted
  OBVIOUS
<1>1. \A leg \in Legs : rescued[leg] = SumOf(counted[leg], Batches)
  <2> TAKE leg \in Legs
  <2>1. rescued[leg] = 0 /\ \A b \in Batches : counted[leg][b] = 0
    BY DEF Init
  <2> QED
    BY <2>1, BatchesFinite, SumZero
<1>2. counted = Contribution(rep)
  <2>1. n = 0
    BY DEF Init
  <2>2. \A b \in Batches : b \notin 1..n
    BY <2>1
  <2>3. Contribution(rep) = [leg \in Legs |-> [b \in Batches |-> 0]]
    BY <2>2 DEF Contribution
  <2> QED
    BY <2>3 DEF Init
<1> QED
  BY <1>1, <1>2 DEF Counted

\* What is added to the account is what its batches are credited with now and were
\* not before.
LEMMA AccountStep ==
  ASSUME TypeOK, Counted, NEW r \in [Legs -> [Batches -> ReportTypes]], AccountRescue(r)
  PROVE  /\ \A leg \in Legs : rescued'[leg] = SumOf(counted'[leg], Batches)
         /\ counted' = Contribution(r)
<1>1. counted' = Contribution(r)
  BY DEF AccountRescue
<1>2. ASSUME NEW leg \in Legs
      PROVE  rescued'[leg] = SumOf(counted'[leg], Batches)
  <2> DEFINE f == counted[leg]
             g == [b \in Batches |-> Contribution(r)[leg][b] - counted[leg][b]]
             h == Contribution(r)[leg]
  <2>1. \A b \in Batches : h[b] \in Int
    BY DEF Contribution, ReportTypes
  <2>2. \A b \in Batches : f[b] \in Int
    BY DEF TypeOK
  <2>3. \A b \in Batches : g[b] \in Int /\ h[b] = f[b] + g[b]
    BY <2>1, <2>2
  <2>4. rescued'[leg] = rescued[leg] + SumOf(g, Batches)
    BY DEF AccountRescue
  <2>5. rescued[leg] = SumOf(f, Batches)
    BY DEF Counted
  <2>6. counted'[leg] = h
    BY <1>1
  <2> HIDE DEF f, g, h
  <2>7. SumOf(h, Batches) = SumOf(f, Batches) + SumOf(g, Batches)
    BY <2>2, <2>3, BatchesFinite, SumLinear
  <2> QED
    BY <2>4, <2>5, <2>6, <2>7
<1> QED
  BY <1>1, <1>2

LEMMA CountedStep ==
  ASSUME TypeOK, TypeOK', CallSound, Counted, [Next]_vars
  PROVE  Counted'
<1>1. CASE Confirmed
  <2>1. AccountRescue(Inferred) /\ Inferred \in [Legs -> [Batches -> ReportTypes]]
    BY <1>1, InferredType DEF Confirmed
  <2>2. /\ \A leg \in Legs : rescued'[leg] = SumOf(counted'[leg], Batches)
        /\ counted' = Contribution(Inferred)
    BY <2>1, AccountStep
  <2>3. rep' = Inferred /\ n' = n
    BY <1>1 DEF Confirmed
  <2>4. Contribution(rep)' = Contribution(Inferred)
    BY <2>3 DEF Contribution
  <2> QED
    BY <2>2, <2>4 DEF Counted
<1>2. CASE GiveUp
  <2>1. AccountRescue(rep) /\ rep \in [Legs -> [Batches -> ReportTypes]] /\ rep' = rep /\ n' = n
    BY <1>2 DEF GiveUp, TypeOK
  <2>2. /\ \A leg \in Legs : rescued'[leg] = SumOf(counted'[leg], Batches)
        /\ counted' = Contribution(rep)
    BY <2>1, AccountStep
  <2>3. Contribution(rep)' = Contribution(rep)
    BY <2>1 DEF Contribution
  <2> QED
    BY <2>2, <2>3 DEF Counted
<1>3. CASE QueryTerminals
  <2>1. AccountRescue(rep') /\ n' = n
    BY <1>3 DEF QueryTerminals
  <2>2. rep' \in [Legs -> [Batches -> ReportTypes]]
    BY DEF TypeOK
  <2>3. /\ \A leg \in Legs : rescued'[leg] = SumOf(counted'[leg], Batches)
        /\ counted' = Contribution(rep')
    BY <2>1, <2>2, AccountStep
  <2>4. Contribution(rep)' = Contribution(rep')
    BY <2>1 DEF Contribution
  <2> QED
    BY <2>3, <2>4 DEF Counted
<1>4. CASE Execute \/ (\E leg \in Legs : SubmitLeg(leg)) \/ Collect \/ Disagree \/ SendBatch
  <2>1. UNCHANGED <<counted, rescued>>
    BY <1>4 DEF Execute, SubmitLeg, Collect, Disagree, SendBatch
  <2>2. pc' # "reread" /\ stage' # "reduce"
    BY <1>4 DEF Execute, SubmitLeg, Collect, Disagree, SendBatch, CallSound
  <2> QED
    BY <2>1, <2>2 DEF Counted
<1>5. CASE \/ Decline \/ EmergencyFlatten \/ Resume \/ Intervene \/ FlattenDone \/ FlattenStops
           \/ Reread \/ RereadUnresolved \/ VenueTerminate \/ VenueShows \/ External \/ Cancel
           \/ (\E leg \in Legs : ReadPosition(leg)) \/ UNCHANGED vars
  <2>1. UNCHANGED <<counted, rescued, rep, n>>
    BY <1>5 DEF Decline, EmergencyFlatten, Resume, Intervene, FlattenDone, FlattenStops, Reread,
       RereadUnresolved, VenueTerminate, VenueShows, External, Cancel, ReadPosition, vars, resultVars
  <2>2. pc' = "reread" \/ stage' = "reduce" => pc = "reread" \/ stage = "reduce"
    BY <1>5 DEF Decline, EmergencyFlatten, Resume, Intervene, FlattenDone, FlattenStops, Reread, Return,
       RereadUnresolved, VenueTerminate, VenueShows, External, Cancel, ReadPosition, vars, resultVars,
       CallSound
  <2>3. Contribution(rep)' = Contribution(rep)
    BY <2>1 DEF Contribution
  <2> QED
    BY <2>1, <2>2, <2>3 DEF Counted
<1> QED
  BY <1>1, <1>2, <1>3, <1>4, <1>5 DEF Next

----------------------------------------------------------------------------
(* The safety of an execution *)

LEMMA InvariantInit == Init => IInv
<1> SUFFICES ASSUME Init PROVE IInv
  OBVIOUS
<1>1. TargetsSound /\ OrdersSound /\ CallSound /\ TypeOK
  BY TypeInit, TargetsInit, OrdersInit, CallInit
<1>2. Tracked /\ Fading /\ Counted
  BY TrackedInit, FadingInit, CountedInit
<1>3. Current
  BY DEF Init, Current
<1> QED
  BY <1>1, <1>2, <1>3 DEF IInv

LEMMA InvariantStep == IInv /\ [Next]_vars => IInv'
<1> SUFFICES ASSUME IInv, [Next]_vars PROVE IInv'
  OBVIOUS
<1>0. TypeOK /\ OrdersSound /\ CallSound /\ TargetsSound /\ Current /\ Tracked /\ Fading /\ Counted
  BY DEF IInv
<1>1. TypeOK'
  BY <1>0, TypeStep
<1>2. OrdersSound' /\ CallSound'
  BY <1>0, OrdersStep, CallStep
<1>3. TargetsSound'
  BY <1>0, <1>1, TargetsStep
<1>4. Current' /\ Tracked'
  BY <1>0, <1>1, CurrentStep, TrackedStep
<1>5. Fading'
  BY <1>0, FadingStep
<1>6. Counted'
  BY <1>0, <1>1, CountedStep
<1> QED
  BY <1>1, <1>2, <1>3, <1>4, <1>5, <1>6 DEF IInv

\* What is known of orders and positions, and what an exit may believe without knowing
\* it, survives every step of the calls, of the venues and of the outside world.
THEOREM Invariant == Spec => []IInv
<1>1. Init => IInv
  BY InvariantInit
<1>2. IInv /\ [Next]_vars => IInv'
  BY InvariantStep
<1> QED
  BY <1>1, <1>2, PTL DEF Spec

\* Every order of an exit that settled has ended.
LEMMA ReportedOver ==
  ASSUME IInv, pc = "settled", zero
  PROVE  /\ AllOver
         /\ \A leg \in Legs, b \in 0..n : rep[leg][b].filled = ord[leg][b].filled
<1>0. n \in Nat /\ n \in Batches /\ 0..n \subseteq Batches /\ \A b \in Batches : b \in Nat
  BY ExecutorAssumption DEF IInv, TypeOK, Batches
<1>1. OrdersTerminal(rep)
  BY DEF IInv, CallSound
<1>2. ASSUME NEW leg \in Legs, NEW b \in 0..n
      PROVE  Over(leg, b) /\ rep[leg][b].filled = ord[leg][b].filled
  <2>1. rep[leg][b].resolved /\ OrderSound(leg, b)
    BY <1>0, <1>1 DEF IInv, OrdersTerminal, OrdersSound
  <2> QED
    BY <2>1 DEF OrderSound, Over
<1>3. ASSUME NEW leg \in Legs, NEW b \in Batches PROVE Over(leg, b)
  <2>1. CASE b \in 0..n
    BY <1>2, <2>1
  <2>2. CASE b \notin 0..n
    <3>1. b > n
      BY <1>0, <2>2
    <3>2. OrderSound(leg, b)
      BY DEF IInv, OrdersSound
    <3> QED
      BY <3>1, <3>2 DEF OrderSound, Over
  <2> QED
    BY <2>1, <2>2
<1> QED
  BY <1>2, <1>3 DEF AllOver

\* A settled execution of an undisturbed account knows every order's end and fill.
LEMMA SettledOver ==
  ASSUME IInv, pc = "settled", zero \/ Undisturbed
  PROVE  /\ AllOver
         /\ \A leg \in Legs, b \in 0..n : rep[leg][b].filled = ord[leg][b].filled
<1>0. n \in Nat /\ n \in Batches /\ 0..n \subseteq Batches /\ \A b \in Batches : b \in Nat
  BY ExecutorAssumption DEF IInv, TypeOK, Batches
<1>1. CASE zero
  BY <1>1, ReportedOver
<1>2. CASE ~zero
  <2>1. stage = "reduce"
    BY DEF IInv, CallSound
  <2>2. \A leg \in Legs, b \in 0..n : Accounted(leg, b)
    BY <1>2, <2>1 DEF IInv, Tracked
  <2>3. ASSUME NEW leg \in Legs, NEW b \in Batches PROVE Over(leg, b)
    <3>1. CASE b \in 0..n
      BY <2>2, <3>1 DEF Accounted
    <3>2. CASE b \notin 0..n
      <4>1. b > n
        BY <1>0, <3>2
      <4>2. OrderSound(leg, b)
        BY DEF IInv, OrdersSound
      <4> QED
        BY <4>1, <4>2 DEF OrderSound, Over
    <3> QED
      BY <3>1, <3>2
  <2> QED
    BY <2>2, <2>3 DEF AllOver, Accounted
<1> QED
  BY <1>1, <1>2

\* No batch is sent while an order of an earlier one can execute: on an undisturbed
\* account the orders an execution no longer waits for have ended, or are reduce-only
\* on a position that is gone (sendRescue, confirmPositions).
THEOREM OneBatch == Spec => []OneBatchAtATime
<1>1. IInv => OneBatchAtATime
  <2> SUFFICES ASSUME IInv, Undisturbed, NEW leg \in Legs, NEW b \in Batches, b < n, ~Over(leg, b)
               PROVE  Fillable(leg, ord[leg][b]) = 0
    BY DEF OneBatchAtATime
  <2>0. TypeOK /\ n \in Nat /\ b \in 0..n
    BY ExecutorAssumption DEF IInv, TypeOK, Batches
  <2>1. zero
    BY <2>0 DEF IInv, Tracked, Accounted
  <2>2. pos[leg] = 0 /\ (ord[leg][b].q # 0 => ord[leg][b].ro)
    BY <2>0, <2>1 DEF IInv, Fading
  <2>3. ord[leg][b].q # 0
    <3>1. OrderSound(leg, b)
      BY DEF IInv, OrdersSound
    <3> QED
      BY <3>1 DEF OrderSound, Over
  <2>4. Fillable(leg, ord[leg][b]) <= Abs(0) /\ Fillable(leg, ord[leg][b]) \in Nat
    BY <2>0, <2>2, <2>3, FillableBounds
  <2>5. Abs(0) = 0
    BY Signs
  <2> HIDE DEF Fillable
  <2> QED
    BY <2>4, <2>5
<1> QED
  BY <1>1, Invariant, PTL

\* A settlement of an undisturbed account is true: no order can trade any more, and
\* both positions are where the execution was to bring them.
THEOREM Settlement == Spec => []SettledAtTarget
<1>1. IInv => SettledAtTarget
  <2> SUFFICES ASSUME IInv, pc = "settled", Undisturbed PROVE AllOver /\ pos = target
    BY DEF SettledAtTarget
  <2>1. AllOver
    BY SettledOver
  <2>2. TypeOK /\ stage = "reduce" /\ at = target
    BY DEF IInv, CallSound
  <2>3. ASSUME NEW leg \in Legs PROVE pos[leg] = target[leg]
    <3>1. CASE ~zero
      BY <2>2, <3>1 DEF IInv, Tracked, Confident
    <3>2. CASE zero
      <4>1. target[leg] = 0
        BY <3>2, HedgeType DEF IInv, TargetsSound
      <4>2. Between(pos[leg], at[leg]) /\ pos[leg] \in Int
        BY <2>2, <3>2 DEF IInv, Fading, TypeOK
      <4> QED
        BY <2>2, <4>1, <4>2 DEF Between
    <3> QED
      BY <3>1, <3>2
  <2>4. pos = target
    BY <2>2, <2>3 DEF TypeOK
  <2> QED
    BY <2>1, <2>4
<1> QED
  BY <1>1, Invariant, PTL

\* An exit settles only after the terminal report of every order it sent, whoever
\* else traded the account (requireTerminalFlatten).
THEOREM ExitWaits == Spec => []ExitWaitsForReports
<1>1. IInv => ExitWaitsForReports
  BY ReportedOver DEF ExitWaitsForReports
<1> QED
  BY <1>1, Invariant, PTL

\* The error of a target that reduce-only orders cannot reach is never returned.
THEOREM Rescuable == Spec => []RescueReducible
<1>1. IInv => RescueReducible
  BY Reducible DEF IInv
<1> QED
  BY <1>1, Invariant, PTL

\* Fills and positions of an undisturbed hedge never contradict each other, whatever
\* reports are missing and however far reads lag behind (verifyDelta).
THEOREM NoAlarm == Spec => []NoFalseAlarm
<1>1. IInv => NoFalseAlarm
  BY DEF IInv, Tracked, NoFalseAlarm
<1> QED
  BY <1>1, Invariant, PTL

\* The ledger gets what was traded: the fill of the first pair and the rescue account
\* add up to the fills of all orders of a leg (accountRescue).
THEOREM FillsCounted == Spec => []FillsCountedOnce
<1>1. IInv => FillsCountedOnce
  <2> SUFFICES ASSUME IInv, pc = "settled", zero \/ Undisturbed, NEW leg \in Legs
               PROVE  rep[leg][0].filled + rescued[leg] = Fills(leg)
    BY DEF FillsCountedOnce
  <2>0. /\ TypeOK /\ n \in Nat /\ 0..n \subseteq Batches /\ \A b \in Batches : b \in Nat
        /\ 0 \in Batches /\ 0 \in 0..n
    <3>1. TypeOK /\ n \in Batches
      BY DEF IInv, TypeOK
    <3>2. n \in Nat /\ n <= MaxBatches /\ MaxBatches \in Nat
      BY <3>1, ExecutorAssumption DEF Batches
    <3> QED
      BY <3>1, <3>2 DEF Batches
  <2>1. \A b \in 0..n : rep[leg][b].filled = ord[leg][b].filled
    BY SettledOver
  <2>2. \A b \in Batches : b \notin 0..n => ord[leg][b].filled = 0
    <3> TAKE b \in Batches
    <3>1. b \notin 0..n => b > n
      BY <2>0
    <3>2. OrderSound(leg, b)
      BY DEF IInv, OrdersSound
    <3> QED
      BY <3>1, <3>2 DEF OrderSound
  <2>3. rescued[leg] = SumOf(Contribution(rep)[leg], Batches)
    BY DEF IInv, Counted, CallSound
  <2> DEFINE f == Contribution(rep)[leg]
             g == [b \in Batches |-> IF b = 0 THEN rep[leg][0].filled ELSE 0]
             h == [b \in Batches |-> ord[leg][b].filled]
  <2>4. \A b \in Batches : f[b] = IF b \in 1..n THEN rep[leg][b].filled ELSE 0
    BY DEF Contribution
  <2>5. \A b \in Batches : f[b] \in Int /\ g[b] \in Int
    BY <2>0, <2>4, FieldTypes
  <2>6. \A b \in Batches : h[b] = f[b] + g[b]
    <3> TAKE b \in Batches
    <3>1. h[b] = ord[leg][b].filled /\ ord[leg][b].filled \in Int /\ rep[leg][0].filled \in Int
      BY <2>0, FieldTypes
    <3>2. CASE b = 0
      <4>1. b \notin 1..n /\ ord[leg][b].filled = rep[leg][0].filled
        BY <2>0, <2>1, <3>2
      <4>2. f[b] = 0 /\ g[b] = rep[leg][0].filled
        BY <2>4, <3>2, <4>1
      <4> HIDE DEF f, g, h
      <4> QED
        BY <3>1, <4>1, <4>2
    <3>3. CASE b \in 1..n
      <4>1. b # 0 /\ b \in 0..n
        BY <2>0, <3>3
      <4>2. f[b] = ord[leg][b].filled /\ g[b] = 0
        BY <2>1, <2>4, <3>3, <4>1
      <4> HIDE DEF f, g, h
      <4> QED
        BY <3>1, <4>2
    <3>4. CASE b \notin 0..n
      <4>1. b # 0 /\ b \notin 1..n
        BY <2>0, <3>4
      <4>2. f[b] = 0 /\ g[b] = 0 /\ ord[leg][b].filled = 0
        BY <2>2, <2>4, <3>4, <4>1
      <4> HIDE DEF f, g, h
      <4> QED
        BY <3>1, <4>2
    <3>5. b = 0 \/ b \in 1..n \/ b \notin 0..n
      BY <2>0
    <3> HIDE DEF f, g, h
    <3> QED
      BY <3>2, <3>3, <3>4, <3>5
  <2>7. SumOf(g, Batches) = rep[leg][0].filled
    <3>1. g[0] = rep[leg][0].filled /\ \A b \in Batches \ {0} : g[b] = 0
      BY <2>0
    <3>2. rep[leg][0].filled \in Int
      BY <2>0, FieldTypes
    <3>3. IsFiniteSet(Batches \ {0})
      BY BatchesFinite, FS_RemoveElement, <2>0
    <3> HIDE DEF g
    <3>4. SumOf(g, Batches) = g[0] + SumOf(g, Batches \ {0})
      BY <2>0, <2>5, BatchesFinite, SumRemove
    <3>5. SumOf(g, Batches \ {0}) = 0
      BY <3>1, <3>3, SumZero
    <3> QED
      BY <3>1, <3>2, <3>4, <3>5
  <2>8. Fills(leg) = SumOf(h, Batches)
    BY DEF Fills
  <2>9. SumOf(h, Batches) = SumOf(f, Batches) + SumOf(g, Batches)
    <3> HIDE DEF f, g, h
    <3> QED
      BY <2>5, <2>6, BatchesFinite, SumLinear
  <2>10. rescued[leg] \in Int /\ rep[leg][0].filled \in Int /\ rescued[leg] = SumOf(f, Batches)
    BY <2>0, <2>3, FieldTypes
  <2> HIDE DEF f, g, h
  <2> QED
    BY <2>7, <2>8, <2>9, <2>10
<1> QED
  BY <1>1, Invariant, PTL

----------------------------------------------------------------------------
(* The contract *)

\* The contract's view of an execution.
Live == [leg \in Legs |-> LiveQty(leg)]
Phase == IF pc \in Outcomes THEN pc ELSE "calling"

\* An exit that reads lagging positions is the one execution that may break the
\* contract; an account nobody else trades never turns a hedge into an exit.
Hedging == Lagging => ~zero

LEMMA ContractTerms ==
  /\ Contract!Legs = Legs
  /\ \A m : /\ Contract!Abs(m) = Abs(m) /\ Contract!Sgn(m) = Sgn(m)
            /\ Contract!Hedge(m) = Hedge(m)
  /\ \A p : Contract!hedgeTargets(p) = hedgeTargets(p)
  /\ Contract!Target = IF zero THEN Flatness ELSE hedgeTargets(pos)
<1>1. Contract!Legs = Legs
  BY DEF Contract!Legs, Legs
<1>2. \A m : Contract!Abs(m) = Abs(m) /\ Contract!Sgn(m) = Sgn(m)
  BY DEF Contract!Abs, Abs, Contract!Sgn, Sgn
<1>3. \A m : Contract!Hedge(m) = Hedge(m)
  BY <1>1 DEF Contract!Hedge, Hedge
<1>4. \A p : Contract!hedgeTargets(p) = hedgeTargets(p)
  BY <1>2, <1>3 DEF Contract!hedgeTargets, hedgeTargets, Flatness, Smaller
<1>5. Contract!Target = IF zero THEN Flatness ELSE hedgeTargets(pos)
  BY <1>3, <1>4 DEF Contract!Target, Flatness
<1> QED
  BY <1>1, <1>2, <1>3, <1>4, <1>5

\* An order counts as live from its decision to its end.
LEMMA LiveValues ==
  ASSUME TypeOK, OrdersSound
  PROVE  \A leg \in Legs :
           /\ Live[leg] = LiveQty(leg)
           /\ ord[leg][n].st \in {"ready", "live"} => Live[leg] = ord[leg][n].q /\ Live[leg] # 0
           /\ ord[leg][n].st \notin {"ready", "live"} => Live[leg] = 0
<1> SUFFICES ASSUME NEW leg \in Legs
             PROVE /\ Live[leg] = LiveQty(leg)
                   /\ ord[leg][n].st \in {"ready", "live"} => Live[leg] = ord[leg][n].q /\ Live[leg] # 0
                   /\ ord[leg][n].st \notin {"ready", "live"} => Live[leg] = 0
  OBVIOUS
<1>1. Live[leg] = LiveQty(leg)
  BY DEF Live
<1>2. OrderSound(leg, n)
  BY DEF TypeOK, OrdersSound
<1> QED
  BY <1>1, <1>2 DEF LiveQty, OrderSound

\* Nothing is live while the executor decides.
LEMMA IdleAfter ==
  ASSUME TypeOK, OrdersSound, Picture, stage = "reduce"
  PROVE  Contract!Idle
<1>1. n \in 0..n
  BY ExecutorAssumption DEF TypeOK, Batches
<1>2. \A leg \in Legs : Over(leg, n)
  BY <1>1 DEF Picture, Accounted
<1>3. \A leg \in Legs : LiveQty(leg) = 0
  BY <1>2 DEF Over, LiveQty
<1> QED
  BY <1>3, ContractTerms DEF Contract!Idle

LEMMA ContractInit == Init => Contract!Init
<1> SUFFICES ASSUME Init PROVE Contract!Init
  OBVIOUS
<1>1. n = 0 /\ n \in Batches
  BY TypeInit DEF Init, TypeOK
<1>2. \A leg \in Legs : LiveQty(leg) = 0
  BY <1>1, RecordTypes DEF Init, LiveQty
<1>3. Live = Hedge(0)
  BY <1>2, HedgeType DEF Live, Flatness, Hedge, Legs
<1>4. Phase = "fresh" /\ cancelled = FALSE /\ zero \in BOOLEAN /\ \E m \in Hedges : pos = Hedge(m)
  BY DEF Init, Phase, Outcomes
<1> QED
  BY <1>3, <1>4, ContractTerms DEF Contract!Init, Live, Phase

\* The two orders of the pair are one decision.
LEMMA ContractExecute ==
  ASSUME TypeOK, OrdersSound, CallSound, Execute
  PROVE  Contract!SendPair
<1>1. n = 0 /\ n' = 0
  BY DEF Execute, CallSound
<1>2. PICK q \in 1..MaxQty, side \in {-1, 1} : \A leg \in Legs :
        ord'[leg][0] = Ready(Hedge(side * q)[leg], side * at["L"] < 0)
  BY <1>1, ExecuteEffect
<1>3. \A leg \in Legs : LiveQty(leg)' = Hedge(side * q)[leg]
  <2> TAKE leg \in Legs
  <2>1. ord'[leg][n'] = Ready(Hedge(side * q)[leg], side * at["L"] < 0)
    BY <1>1, <1>2
  <2>2. ord'[leg][n'].q = Hedge(side * q)[leg] /\ ord'[leg][n'].st = "ready"
    BY <2>1 DEF Ready
  <2> QED
    BY <2>2 DEF LiveQty
<1>4. Live' = Hedge(side * q)
  <2>1. Hedge(side * q) = [leg \in Legs |-> Hedge(side * q)[leg]]
    BY DEF Hedge
  <2> QED
    BY <1>3, <2>1 DEF Live
<1>5. /\ Phase = "fresh" /\ ~zero /\ ~cancelled /\ Phase' = "calling"
      /\ UNCHANGED <<pos, cancelled, zero>>
  BY DEF Execute, Phase, Outcomes
<1>6. \E i \in 1..MaxQty, d \in {-1, 1} : Live' = Contract!Hedge(d * i)
  BY <1>4, ContractTerms
<1> QED
  BY <1>5, <1>6 DEF Contract!SendPair, Live, Phase

\* Steps the caller does not see.
LEMMA ContractStutter ==
  ASSUME TypeOK, CallSound, Picture, Hedging',
         \/ (\E leg \in Legs : ReadPosition(leg)) \/ Collect \/ QueryTerminals \/ Confirmed
         \/ Disagree \/ Reread \/ VenueShows \/ UNCHANGED vars
  PROVE  UNCHANGED Contract!vars
<1>1. UNCHANGED <<pos, ord, n, cancelled>> /\ Phase' = Phase
  BY DEF ReadPosition, Collect, QueryTerminals, Confirmed, Disagree, Reread, VenueShows, vars,
     venueVars, callVars, resultVars, Phase, Outcomes
<1>2. zero' = zero
  <2>1. CASE Reread
    <3>1. zero \/ intervention = "asked"
      BY <2>1 DEF Reread, CallSound
    <3>2. zero
      BY <3>1 DEF Picture
    <3> QED
      BY <2>1, <3>2 DEF Reread, TypeOK
  <2>2. CASE ~Reread
    BY <2>2 DEF ReadPosition, Collect, QueryTerminals, Confirmed, Disagree, VenueShows, vars,
       resultVars
  <2> QED
    BY <2>1, <2>2
<1>3. Live' = Live
  BY <1>1 DEF Live, LiveQty
<1> QED
  BY <1>1, <1>2, <1>3 DEF Contract!vars, Live, Phase

\* Calls begin, end and are cancelled.
LEMMA ContractCalls ==
  ASSUME \/ Decline \/ EmergencyFlatten \/ Resume \/ Intervene \/ GiveUp \/ FlattenStops
         \/ RereadUnresolved \/ Cancel
  PROVE  Contract!Next
<1>1. UNCHANGED <<pos, ord, n, zero>>
  BY DEF Decline, EmergencyFlatten, Resume, Intervene, GiveUp, FlattenStops, RereadUnresolved, Cancel,
     venueVars, resultVars
<1>2. Live' = Live
  BY <1>1 DEF Live, LiveQty
<1>3. CASE Decline
  <2>1. Phase = "fresh" /\ ~zero /\ Phase' = "declined" /\ UNCHANGED cancelled
    BY <1>3 DEF Decline, callVars, Phase, Outcomes
  <2> QED
    BY <1>1, <1>2, <2>1 DEF Contract!Next, Contract!Decline, Live, Phase
<1>4. CASE EmergencyFlatten
  <2>1. Phase = "fresh" /\ zero /\ Phase' = "calling" /\ UNCHANGED cancelled
    BY <1>4 DEF EmergencyFlatten, callVars, Phase, Outcomes
  <2> QED
    BY <1>1, <1>2, <2>1 DEF Contract!Next, Contract!Call, Live, Phase
<1>5. CASE Resume \/ Intervene
  <2>1. Phase = "returned" /\ Phase' = "calling" /\ cancelled' = FALSE
    BY <1>5 DEF Resume, Intervene, Phase, Outcomes
  <2> QED
    BY <1>1, <1>2, <2>1 DEF Contract!Next, Contract!Resume, Live, Phase
<1>6. CASE GiveUp \/ FlattenStops \/ RereadUnresolved
  <2>1. Phase = "calling" /\ Phase' = "returned" /\ UNCHANGED cancelled
    BY <1>6 DEF GiveUp, FlattenStops, RereadUnresolved, Return, Phase, Outcomes
  <2> QED
    BY <1>1, <1>2, <2>1 DEF Contract!Next, Contract!Return, Live, Phase
<1>7. CASE Cancel
  <2>1. Phase' = Phase /\ cancelled' = TRUE
    BY <1>7 DEF Cancel, Phase
  <2> QED
    BY <1>1, <1>2, <2>1 DEF Contract!Next, Contract!Cancel, Live, Phase
<1> QED
  BY <1>3, <1>4, <1>5, <1>6, <1>7

\* An order that is handed over stays live; one that is refused, or lost on the way,
\* ends without a fill.
LEMMA ContractSubmit ==
  ASSUME TypeOK, OrdersSound, CallSound, NEW leg \in Legs, SubmitLeg(leg)
  PROVE  Contract!Terminate \/ UNCHANGED Contract!vars
<1>0. n \in Batches
  BY DEF TypeOK
<1>1. PICK st \in {"live", "lost", "ended"} : \A l \in Legs, c \in Batches :
         IF l = leg /\ c = n
         THEN /\ ord'[l][c] = Advanced(ord[l][c], st, 0)
              /\ rep'[l][c] = IF st = "ended" THEN NoReport ELSE rep[l][c]
         ELSE ord'[l][c] = ord[l][c] /\ rep'[l][c] = rep[l][c]
  BY SubmitEffect
<1>2. /\ UNCHANGED <<pos, n, zero, cancelled>> /\ Phase' = Phase /\ leg \in todo
  BY DEF SubmitLeg, Phase, Outcomes
<1>3. ord[leg][n].st = "ready" /\ Live[leg] # 0 /\ Live[leg] = ord[leg][n].q
  <2>1. ord[leg][n].st = "ready"
    BY <1>0, <1>2 DEF OrdersSound, OrderSound
  <2> QED
    BY <2>1, LiveValues
<1>4. ord'[leg][n].q = ord[leg][n].q /\ ord'[leg][n].st = st
  BY <1>0, <1>1, RecordTypes
<1>5. \A l \in Legs : l # leg => LiveQty(l)' = LiveQty(l)
  BY <1>0, <1>1, <1>2 DEF LiveQty
<1>6. CASE st = "live"
  <2>1. LiveQty(leg)' = LiveQty(leg)
    BY <1>2, <1>3, <1>4, <1>6 DEF LiveQty
  <2>2. Live' = Live
    BY <1>5, <2>1 DEF Live
  <2> QED
    BY <1>2, <2>2 DEF Contract!vars, Live, Phase
<1>7. CASE st \in {"lost", "ended"}
  <2>1. LiveQty(leg)' = 0
    BY <1>2, <1>4, <1>7 DEF LiveQty
  <2>2. Live' = [Live EXCEPT ![leg] = 0]
    BY <1>5, <2>1 DEF Live
  <2>3. pos' = [pos EXCEPT ![leg] = pos[leg] + Sgn(Live[leg]) * 0]
    <3>1. Live[leg] \in Int /\ pos[leg] \in Int
      BY <1>0, <1>3, FieldTypes
    <3>2. Sgn(Live[leg]) * 0 = 0
      BY <3>1, Signs
    <3>3. pos[leg] + Sgn(Live[leg]) * 0 = pos[leg]
      BY <3>1, <3>2
    <3> QED
      BY <1>2, <3>3 DEF TypeOK
  <2>4. 0 \in 0..Abs(Live[leg])
    BY <1>0, <1>3, FieldTypes, Signs
  <2>5. \E k \in 0..Abs(Live[leg]) : pos' = [pos EXCEPT ![leg] = pos[leg] + Sgn(Live[leg]) * k]
    BY <2>3, <2>4
  <2> QED
    BY <1>2, <1>3, <2>2, <2>5, ContractTerms DEF Contract!Terminate, Live, Phase
<1> QED
  BY <1>6, <1>7

\* A batch brings every leg it is sent for exactly to its target.
LEMMA ContractRescue ==
  ASSUME TypeOK, OrdersSound, CallSound, TargetsSound, Picture, SendBatch
  PROVE  Contract!Rescue
<1>1. /\ UNCHANGED <<pos, zero, cancelled>> /\ ~cancelled /\ stage = "reduce"
      /\ Phase = "calling" /\ Phase' = "calling"
  BY DEF SendBatch, CallSound, Phase, Outcomes
<1>2. PICK sent \in SUBSET Away :
         /\ sent # {} /\ n' = n + 1 /\ n' \in Batches
         /\ \A leg \in Legs, b \in Batches :
              ord'[leg][b] = IF b # n + 1 THEN ord[leg][b]
                             ELSE IF leg \in sent THEN Ready(target[leg] - at[leg], TRUE)
                             ELSE NoOrder
  BY SendBatchEffect
<1>3. Contract!Idle
  BY <1>1, IdleAfter
<1>4. target = Contract!Target
  <2>1. zero => target = Flatness
    BY DEF TargetsSound
  <2>2. ~zero => target = hedgeTargets(pos)
    BY <1>1 DEF Picture
  <2> QED
    BY <2>1, <2>2, ContractTerms
<1>5. \A leg \in Legs : at[leg] = pos[leg]
  BY <1>1 DEF Picture, Confident
<1>6. sent \in (SUBSET {leg \in Legs : pos[leg] # target[leg]}) \ {{}}
  BY <1>2, <1>5 DEF Away
<1>7. \A leg \in Legs : LiveQty(leg)' = IF leg \in sent THEN target[leg] - pos[leg] ELSE 0
  <2> TAKE leg \in Legs
  <2>1. ord'[leg][n'] = IF leg \in sent THEN Ready(target[leg] - at[leg], TRUE) ELSE NoOrder
    BY <1>2
  <2>2. /\ Ready(target[leg] - at[leg], TRUE).q = target[leg] - at[leg]
        /\ Ready(target[leg] - at[leg], TRUE).st = "ready" /\ NoOrder.st = "none"
    BY DEF Ready, NoOrder
  <2>3. CASE leg \in sent
    <3>1. ord'[leg][n'].q = target[leg] - at[leg] /\ ord'[leg][n'].st = "ready"
      BY <2>1, <2>2, <2>3
    <3>2. LiveQty(leg)' = target[leg] - at[leg]
      BY <3>1 DEF LiveQty
    <3> QED
      BY <1>5, <2>3, <3>2
  <2>4. CASE leg \notin sent
    <3>1. ord'[leg][n'].st = "none"
      BY <2>1, <2>2, <2>4
    <3> QED
      BY <2>4, <3>1 DEF LiveQty
  <2> QED
    BY <2>3, <2>4
<1>8. Live' = [leg \in Legs |-> IF leg \in sent THEN target[leg] - pos[leg] ELSE 0]
  BY <1>7 DEF Live
<1> QED
  BY <1>1, <1>3, <1>4, <1>6, <1>8, ContractTerms DEF Contract!Rescue, Live, Phase

\* A settlement is reported at the target with nothing live.
LEMMA ContractDone ==
  ASSUME TypeOK, OrdersSound, CallSound, TargetsSound, Picture, FlattenDone
  PROVE  Contract!Settle \/ Contract!Return
<1>1. /\ UNCHANGED <<pos, ord, n, zero, cancelled>> /\ stage = "reduce"
      /\ Phase = "calling" /\ Phase' = pc' /\ pc' \in {"settled", "returned"}
  BY DEF FlattenDone, CallSound, Phase, Outcomes, venueVars, callVars, resultVars
<1>2. Live' = Live
  BY <1>1 DEF Live, LiveQty
<1>3. Contract!Idle
  BY <1>1, IdleAfter
<1>4. pos = Contract!Target
  <2>1. at = target
    BY DEF FlattenDone, Reached, Away, TypeOK
  <2>2. at = pos
    BY <1>1 DEF Picture, Confident, TypeOK
  <2>3. zero => target = Flatness
    BY DEF TargetsSound
  <2>4. ~zero => target = hedgeTargets(pos)
    BY <1>1 DEF Picture
  <2> QED
    BY <2>1, <2>2, <2>3, <2>4, ContractTerms
<1>5. CASE pc' = "settled"
  BY <1>1, <1>2, <1>3, <1>4, <1>5 DEF Contract!Settle, Live, Phase
<1>6. CASE pc' = "returned"
  BY <1>1, <1>2, <1>6 DEF Contract!Return, Live, Phase
<1> QED
  BY <1>1, <1>5, <1>6

\* An order that ends at the venue is the live one of its leg.
LEMMA ContractTerminate ==
  ASSUME TypeOK, OrdersSound, CallSound, Picture, VenueTerminate
  PROVE  Contract!Terminate
<1>0. n \in Batches /\ n \in Nat /\ 0..n \subseteq Batches /\ \A b \in Batches : b \in Nat
  BY ExecutorAssumption DEF TypeOK, Batches
<1>1. PICK leg \in Legs, b \in Batches :
         /\ ord[leg][b].st = "live"
         /\ \E k \in 0..Fillable(leg, ord[leg][b]) :
              /\ pos' = [pos EXCEPT ![leg] = pos[leg] + Sgn(ord[leg][b].q) * k]
              /\ \A l \in Legs, c \in Batches :
                   ord'[l][c] = IF l = leg /\ c = b THEN Advanced(ord[leg][b], "ended", k)
                                ELSE ord[l][c]
              /\ shown' = Publish(pos', leg)
  BY TerminateEffect
<1>2. PICK k \in 0..Fillable(leg, ord[leg][b]) :
        /\ pos' = [pos EXCEPT ![leg] = pos[leg] + Sgn(ord[leg][b].q) * k]
        /\ \A l \in Legs, c \in Batches :
             ord'[l][c] = IF l = leg /\ c = b THEN Advanced(ord[leg][b], "ended", k)
                          ELSE ord[l][c]
  BY <1>1
<1>3. UNCHANGED <<n, zero, cancelled>> /\ Phase' = Phase
  BY DEF VenueTerminate, callVars, resultVars, Phase
<1>4. b = n
  <2>1. b \in Nat /\ n \in Nat /\ ~(b > n)
    BY <1>0, <1>1 DEF OrdersSound, OrderSound
  <2>2. b \in 0..n
    BY <2>1
  <2>3. ~(b < n)
    BY <1>1, <2>2 DEF Picture, Accounted, Over
  <2> QED
    BY <2>1, <2>3
<1>5. Live[leg] = ord[leg][n].q /\ Live[leg] # 0
  BY <1>1, <1>4, LiveValues
<1>6. k \in 0..Abs(Live[leg])
  BY <1>0, <1>4, <1>5, FillableBounds, FieldTypes, Signs
<1>7. pos' = [pos EXCEPT ![leg] = pos[leg] + Sgn(Live[leg]) * k]
  BY <1>2, <1>4, <1>5
<1>8. LiveQty(leg)' = 0
  <2>1. ord'[leg][n'].st = "ended"
    BY <1>0, <1>2, <1>3, <1>4, RecordTypes
  <2> QED
    BY <2>1 DEF LiveQty
<1>9. \A l \in Legs : l # leg => LiveQty(l)' = LiveQty(l)
  BY <1>0, <1>2, <1>3, <1>4 DEF LiveQty
<1>10. Live' = [Live EXCEPT ![leg] = 0]
  BY <1>8, <1>9 DEF Live
<1>11. \E i \in 0..Abs(Live[leg]) : pos' = [pos EXCEPT ![leg] = pos[leg] + Sgn(Live[leg]) * i]
  BY <1>6, <1>7
<1> QED
  BY <1>3, <1>5, <1>10, <1>11, ContractTerms DEF Contract!Terminate, Live, Phase

\* On an account nobody else trades every step of an execution is one of the contract,
\* and a hedge is never turned into an exit.
LEMMA ContractStep ==
  ASSUME IInv, Undisturbed, Undisturbed', Hedging, [Next]_vars
  PROVE  Hedging' /\ [Contract!Next]_(Contract!vars)
<1>1. TypeOK /\ OrdersSound /\ CallSound /\ TargetsSound /\ Picture
  BY DEF IInv, Tracked, Picture, Hedging
<1>2. Hedging'
  <2>1. CASE Reread
    <3>1. zero \/ intervention = "asked"
      BY <1>1, <2>1 DEF Reread, CallSound
    <3>2. zero
      BY <1>1, <3>1 DEF Picture
    <3> QED
      BY <3>2 DEF Hedging
  <2>2. CASE ~Reread
    <3>1. zero' = zero
      BY <2>2 DEF Next, Execute, Decline, EmergencyFlatten, Resume, Intervene, SubmitLeg, ReadPosition,
         Collect, Confirmed, Disagree, GiveUp, FlattenDone, FlattenStops, SendBatch, External,
         QueryTerminals, RereadUnresolved, VenueTerminate, VenueShows, Cancel, vars, resultVars
    <3> QED
      BY <3>1 DEF Hedging
  <2> QED
    BY <2>1, <2>2
<1>3. ~External
  <2>1. TypeOK
    BY <1>1
  <2> QED
    BY <2>1, Backwards
<1>4. CASE Execute
  BY <1>1, <1>2, <1>4, ContractExecute DEF Contract!Next
<1>5. CASE \/ Decline \/ EmergencyFlatten \/ Resume \/ Intervene \/ GiveUp \/ FlattenStops
           \/ RereadUnresolved \/ Cancel
  BY <1>2, <1>5, ContractCalls
<1>6. ASSUME NEW leg \in Legs, SubmitLeg(leg) PROVE Contract!Next \/ UNCHANGED Contract!vars
  BY <1>1, <1>6, ContractSubmit DEF Contract!Next
<1>7. CASE \/ (\E leg \in Legs : ReadPosition(leg)) \/ Collect \/ QueryTerminals \/ Confirmed
           \/ Disagree \/ Reread \/ VenueShows \/ UNCHANGED vars
  BY <1>1, <1>2, <1>7, ContractStutter
<1>8. CASE SendBatch
  BY <1>1, <1>2, <1>8, ContractRescue DEF Contract!Next
<1>9. CASE FlattenDone
  BY <1>1, <1>2, <1>9, ContractDone DEF Contract!Next
<1>10. CASE VenueTerminate
  BY <1>1, <1>2, <1>10, ContractTerminate DEF Contract!Next
<1> QED
  BY <1>2, <1>3, <1>4, <1>5, <1>6, <1>7, <1>8, <1>9, <1>10 DEF Next

\* The executor keeps the contract the actor is written against, on an account nobody
\* else trades, unless it is an exit that reads positions before they are current: any
\* number of batches, orders lost, late or inferred, calls cancelled and resumed.
THEOREM ContractKept ==
  ASSUME MaxExternal = 0
  PROVE  Spec /\ (Lagging => ~zero) => KeepsContract
<1>1. Init => Contract!Init /\ Undisturbed
  BY ContractInit DEF Init, Undisturbed
<1>2. IInv /\ Undisturbed /\ [Next]_vars => Undisturbed'
  <2> SUFFICES ASSUME IInv, Undisturbed, [Next]_vars PROVE Undisturbed'
    OBVIOUS
  <2>1. ~External
    <3>1. ext["L"] = 0 /\ ext["R"] = 0
      BY HedgeType DEF Undisturbed, Legs
    <3> QED
      BY <3>1 DEF External
  <2>2. ext' = ext
    BY <2>1 DEF Next, Execute, Decline, EmergencyFlatten, Resume, Intervene, SubmitLeg, ReadPosition,
       Collect, Confirmed, Disagree, GiveUp, FlattenDone, FlattenStops, SendBatch,
       QueryTerminals, Reread, RereadUnresolved, VenueTerminate, VenueShows, Cancel, vars, venueVars
  <2> QED
    BY <2>2 DEF Undisturbed
<1>3. IInv /\ Undisturbed /\ Undisturbed' /\ Hedging /\ [Next]_vars
        => Hedging' /\ [Contract!Next]_(Contract!vars)
  BY ContractStep
<1>4. (Lagging => ~zero) <=> Hedging
  BY DEF Hedging
<1> QED
  BY <1>1, <1>2, <1>3, <1>4, Invariant, PTL DEF Spec, KeepsContract, Contract!Spec

=============================================================================

-------------------------- MODULE PairActorProofs --------------------------
(* Theorems about PairActor, for every value of its constants. *)
EXTENDS PairActor, TLAPS

\* The quantities the actions compute are integers.
LEMMA SmallTypes ==
  /\ \A n \in Int : Abs(n) \in Nat /\ Sgn(n) \in {-1, 0, 1} /\ Hedge(n) \in [Legs -> Int]
  /\ \A a, b \in Nat : Smaller(a, b) \in Nat
<1>1. \A n \in Int : Abs(n) \in Nat /\ Sgn(n) \in {-1, 0, 1}
  BY DEF Abs, Sgn
<1>2. \A n \in Int : Hedge(n) \in [Legs -> Int]
  BY DEF Hedge, Legs
<1>3. \A a, b \in Nat : Smaller(a, b) \in Nat
  BY DEF Smaller
<1> QED
  BY <1>1, <1>2, <1>3

\* The rescue targets of two integer positions are integers.
LEMMA TargetType ==
  ASSUME pos \in [Legs -> Int]
  PROVE  Target \in [Legs -> Int]
<1>1. pos["L"] \in Int /\ pos["R"] \in Int
  BY DEF Legs
<1>2. Flatness \in [Legs -> Int]
  BY SmallTypes DEF Flatness
<1>3. hedgeTargets(pos) \in [Legs -> Int]
  <2>1. Smaller(Abs(pos["L"]), Abs(pos["R"])) \in Nat
    BY <1>1, SmallTypes
  <2>2. Sgn(pos["L"]) \in {-1, 0, 1}
    BY <1>1, SmallTypes
  <2>3. Sgn(pos["L"]) * Smaller(Abs(pos["L"]), Abs(pos["R"])) \in Int
    BY <2>1, <2>2
  <2>4. Hedge(Sgn(pos["L"]) * Smaller(Abs(pos["L"]), Abs(pos["R"]))) \in [Legs -> Int]
    BY <2>3, SmallTypes
  <2> QED
    BY <2>4, <1>2 DEF hedgeTargets
<1> QED
  BY <1>2, <1>3 DEF Target

----------------------------------------------------------------------------
(* Type correctness *)

\* What a save writes has the type of the state file.
LEMMA ImageType ==
  ASSUME TypeOK
  PROVE  Image \in [led : Int, unresolved : BOOLEAN, exit : BOOLEAN, unpriced : BOOLEAN]
  BY DEF TypeOK, VenueTypes, PointTypes, ActorFlags, Image, Unpriced

\* The first process starts with the right types.
LEMMA TypeInit == Init => TypeOK
<1> SUFFICES ASSUME Init PROVE TypeOK
  OBVIOUS
<1> USE ConstantsAssumption DEF Init
<1>1. PICK n \in {0, StepQty} : pos = Hedge(n) /\ led = n /\ disk.led = n
  OBVIOUS
<1>2. n \in Int
  BY <1>1
<1>3. VenueTypes
  BY <1>1, <1>2, SmallTypes DEF VenueTypes, NoOrder, Orders, Gens
<1>4. PointTypes
  BY <1>1, <1>2 DEF PointTypes, NoEx, Executions, Modes, Kinds, Stages, Points, BusyPoints, SavePoints
<1>5. ActorFlags /\ SharedFlags
  BY DEF ActorFlags, SharedFlags
<1> QED
  BY <1>3, <1>4, <1>5 DEF TypeOK

\* What this process sends is an order.
LEMMA TypeSend ==
  ASSUME TypeOK, ExecSubmit \/ ExecRescue
  PROVE  TypeOK'
<1> DEFINE Sent(n, b) == [q |-> n, ro |-> b]
<1>1. /\ orders \in [Gens -> [Legs -> Orders]] /\ gen \in Gens
      /\ ex.side \in Int /\ ex.qty \in Nat /\ \A leg \in Legs : pos[leg] \in Int
  BY DEF TypeOK, VenueTypes, PointTypes, Executions
<1>2. NoOrder \in Orders /\ \A n \in Int, b \in BOOLEAN : Sent(n, b) \in Orders
  BY DEF NoOrder, Orders
<1>3. orders' \in [Gens -> [Legs -> Orders]]
  <2>1. CASE ExecSubmit
    <3> DEFINE Batch(sent, q) == [leg \in Legs |->
                 IF leg \in sent
                   THEN [q |-> IF leg = "L" THEN ex.side * q ELSE -ex.side * q,
                         ro |-> ex.kind = "close"]
                   ELSE NoOrder]
    <3>1. PICK sent \in SUBSET Legs, q \in 1..ex.qty :
            orders' = [orders EXCEPT ![gen] = Batch(sent, q)]
      BY <2>1 DEF ExecSubmit
    <3>2. ex.side * q \in Int /\ -ex.side * q \in Int
      BY <1>1
    <3>3. (ex.kind = "close") \in BOOLEAN
      OBVIOUS
    <3>4. Batch(sent, q) \in [Legs -> Orders]
      BY <1>2, <3>2, <3>3
    <3> QED
      BY <1>1, <3>1, <3>4
  <2>2. CASE ExecRescue
    <3> DEFINE Batch(sent) == [leg \in Legs |->
                 IF leg \in sent THEN [q |-> Target[leg] - pos[leg], ro |-> TRUE] ELSE NoOrder]
    <3>1. PICK sent \in SUBSET Legs : orders' = [orders EXCEPT ![gen] = Batch(sent)]
      BY <2>2 DEF ExecRescue
    <3>2. \A leg \in Legs : Target[leg] - pos[leg] \in Int
      BY <1>1, TargetType DEF TypeOK, VenueTypes
    <3>3. Batch(sent) \in [Legs -> Orders]
      BY <1>2, <3>2
    <3> QED
      BY <1>1, <3>1, <3>3
  <2> QED
    BY <2>1, <2>2
<1> USE DEF TypeOK, procVars, actorVars, sharedVars, otherVars
<1>4. VenueTypes'
  BY <1>3 DEF ExecSubmit, ExecRescue, VenueTypes, Gens
<1>5. PointTypes'
  BY DEF ExecSubmit, ExecRescue, PointTypes, Points, BusyPoints
<1>6. ActorFlags' /\ SharedFlags'
  BY DEF ExecSubmit, ExecRescue, ActorFlags, SharedFlags
<1> QED
  BY <1>4, <1>5, <1>6

\* What the venues do to a position is adding an integer.
LEMMA TypeTerminate ==
  ASSUME TypeOK, VenueTerminate
  PROVE  TypeOK'
<1>1. pos \in [Legs -> Int] /\ orders \in [Gens -> [Legs -> Orders]]
  BY DEF TypeOK, VenueTypes
<1>2. PICK g \in Gens, leg \in Legs :
        /\ \E k \in 0..Fillable(leg, orders[g][leg]) :
             pos' = [pos EXCEPT ![leg] = @ + Sgn(orders[g][leg].q) * k]
        /\ orders' = [orders EXCEPT ![g][leg] = NoOrder]
  BY DEF VenueTerminate
<1>3. PICK k \in 0..Fillable(leg, orders[g][leg]) :
        pos' = [pos EXCEPT ![leg] = @ + Sgn(orders[g][leg].q) * k]
  BY <1>2
<1>4. k \in Int /\ Sgn(orders[g][leg].q) \in {-1, 0, 1}
  BY <1>1, SmallTypes DEF Orders
<1>5. Sgn(orders[g][leg].q) * k \in Int
  BY <1>4
<1>6. pos' \in [Legs -> Int] /\ orders' \in [Gens -> [Legs -> Orders]]
  BY <1>1, <1>2, <1>3, <1>5 DEF NoOrder, Orders
<1> USE DEF TypeOK, procVars, actorVars, sharedVars, otherVars
<1>7. VenueTypes'
  BY <1>6 DEF VenueTerminate, VenueTypes, Gens
<1>8. PointTypes' /\ ActorFlags' /\ SharedFlags'
  BY DEF VenueTerminate, PointTypes, ActorFlags, SharedFlags
<1> QED
  BY <1>7, <1>8

\* An execution is begun with a known kind, side and quantity.
LEMMA TypeDecide ==
  ASSUME TypeOK, DecideOpen \/ DecideClose
  PROVE  PointTypes'
<1>1. led \in Int /\ mode \in Modes
  BY DEF TypeOK, PointTypes
<1>2. ex' \in Executions
  <2>1. CASE DecideOpen
    <3>1. PICK side \in {-1, 1} :
            ex' = [NoEx EXCEPT !.kind = "open", !.side = side, !.qty = StepQty]
      BY <2>1 DEF DecideOpen, BeginApply
    <3> QED
      BY <3>1, ConstantsAssumption DEF NoEx, Executions, Kinds, Stages
  <2>2. CASE DecideClose
    <3>1. PICK qty \in 1..Smaller(StepQty, Abs(led)) :
            ex' = [NoEx EXCEPT !.kind = "close", !.side = -Sgn(led), !.qty = qty]
      BY <2>2 DEF DecideClose, BeginApply
    <3>2. qty \in Nat
      OBVIOUS
    <3>3. Sgn(led) \in {-1, 0, 1}
      BY <1>1, SmallTypes
    <3>4. -Sgn(led) \in {-1, 0, 1}
      BY <3>3
    <3> QED
      BY <3>1, <3>2, <3>4 DEF NoEx, Executions, Kinds, Stages
  <2> QED
    BY <2>1, <2>2
<1>3. mode' \in Modes
  BY <1>1 DEF DecideOpen, DecideClose, NextMode, Modes
<1> QED
  BY <1>2, <1>3 DEF DecideOpen, DecideClose, BeginApply, TypeOK, PointTypes, sharedVars, otherVars,
     Points, SavePoints

\* A failed settlement changes the stage of the execution and counts its stalls.
LEMMA TypeReturn ==
  ASSUME TypeOK, ReturnMisaccounted \/ ReturnUnresolved
  PROVE  PointTypes'
<1>1. ex \in Executions /\ mode \in Modes
  BY DEF TypeOK, PointTypes
<1>2. ex.stalls + 1 \in Nat
  BY <1>1 DEF Executions
<1>3. \A n \in {0, ex.stalls + 1} :
        /\ [ex EXCEPT !.stage = "terminals", !.stalls = n] \in Executions
        /\ [ex EXCEPT !.stalls = n] \in Executions
  <2> SUFFICES ASSUME NEW n \in Nat
               PROVE  /\ [ex EXCEPT !.stage = "terminals", !.stalls = n] \in Executions
                      /\ [ex EXCEPT !.stalls = n] \in Executions
    BY <1>2
  <2> QED
    BY <1>1 DEF Executions, Stages
<1> USE DEF Stalled, Retried, FailSettlement
<1>4. ex' \in Executions
  BY <1>1, <1>3 DEF ReturnMisaccounted, ReturnUnresolved
<1>5. CASE ReturnMisaccounted
  BY <1>1, <1>4, <1>5 DEF ReturnMisaccounted, TypeOK, PointTypes, Modes, sharedVars, otherVars,
     Points, SavePoints, BusyPoints
<1>6. CASE ReturnUnresolved
  BY <1>1, <1>4, <1>6 DEF ReturnUnresolved, TypeOK, PointTypes, Modes, sharedVars, otherVars,
     Points, SavePoints, BusyPoints
<1> QED
  BY <1>5, <1>6

\* Every action keeps the types.
LEMMA TypeStep ==
  ASSUME TypeOK, Next
  PROVE  TypeOK'
<1> USE ConstantsAssumption
    DEF TypeOK, VenueTypes, PointTypes, ActorFlags, SharedFlags, Executions, Modes, Points,
        BusyPoints, SavePoints
<1>0. /\ Image \in [led : Int, unresolved : BOOLEAN, exit : BOOLEAN, unpriced : BOOLEAN]
      /\ \A leg \in Legs : pos[leg] \in Int
      /\ "L" \in Legs /\ "R" \in Legs
  BY ImageType DEF Legs
<1>1. CASE ReadLeft
  BY <1>0, <1>1 DEF ReadLeft, venueVars, procVars, actorVars, sharedVars, otherVars
<1>2. CASE ReadFailed
  <2> USE <1>0, <1>2 DEF ReadFailed, ReconcileFailed, venueVars, procVars, actorVars,
         sharedVars, otherVars
  <2>1. VenueTypes'
    OBVIOUS
  <2>2. PointTypes'
    OBVIOUS
  <2>3. ActorFlags'
    OBVIOUS
  <2>4. SharedFlags'
    OBVIOUS
  <2> QED
    BY <2>1, <2>2, <2>3, <2>4
<1>3. CASE ReadMismatch
  <2> USE <1>0, <1>3 DEF ReadMismatch, ReconcileFailed, venueVars, procVars, actorVars,
         sharedVars, otherVars
  <2>1. VenueTypes'
    OBVIOUS
  <2>2. PointTypes'
    OBVIOUS
  <2>3. ActorFlags'
    OBVIOUS
  <2>4. SharedFlags'
    OBVIOUS
  <2> QED
    BY <2>1, <2>2, <2>3, <2>4
<1>4. CASE ReadMatch
  <2> USE <1>0, <1>4 DEF ReadMatch, venueVars, procVars, actorVars, sharedVars, otherVars
  <2>1. VenueTypes'
    OBVIOUS
  <2>2. PointTypes'
    OBVIOUS
  <2>3. ActorFlags'
    OBVIOUS
  <2>4. SharedFlags'
    OBVIOUS
  <2> QED
    BY <2>1, <2>2, <2>3, <2>4
<1>5. CASE Reconciled
  <2> USE <1>0, <1>5 DEF Reconciled, venueVars, procVars, actorVars, sharedVars, otherVars
  <2>1. VenueTypes'
    OBVIOUS
  <2>2. PointTypes'
    OBVIOUS
  <2>3. ActorFlags'
    OBVIOUS
  <2>4. SharedFlags'
    OBVIOUS
  <2> QED
    BY <2>1, <2>2, <2>3, <2>4
<1>6. CASE ReconciledQuarantined
  <2> USE <1>0, <1>6 DEF ReconciledQuarantined, venueVars, procVars, actorVars, sharedVars,
         otherVars
  <2>1. VenueTypes'
    OBVIOUS
  <2>2. PointTypes'
    OBVIOUS
  <2>3. ActorFlags'
    OBVIOUS
  <2>4. SharedFlags'
    OBVIOUS
  <2> QED
    BY <2>1, <2>2, <2>3, <2>4
<1>7. CASE ResolvePending
  <2> USE <1>0, <1>7 DEF ResolvePending, AtLoop, venueVars, procVars, actorVars, sharedVars,
         otherVars
  <2>1. VenueTypes'
    OBVIOUS
  <2>2. PointTypes'
    OBVIOUS
  <2>3. ActorFlags'
    OBVIOUS
  <2>4. SharedFlags'
    OBVIOUS
  <2> QED
    BY <2>1, <2>2, <2>3, <2>4
<1>8. CASE RecoverCheckpoint
  BY <1>0, <1>8 DEF RecoverCheckpoint, AtLoop, WantsExit, venueVars, procVars, actorVars,
         sharedVars, otherVars
<1>9. CASE RecoverCheckpointExit
  <2> USE <1>0, <1>9 DEF RecoverCheckpointExit, AtLoop, WantsExit, venueVars, procVars,
         actorVars, sharedVars, otherVars
  <2>1. VenueTypes'
    OBVIOUS
  <2>2. PointTypes'
    OBVIOUS
  <2>3. ActorFlags'
    OBVIOUS
  <2>4. SharedFlags'
    OBVIOUS
  <2> QED
    BY <2>1, <2>2, <2>3, <2>4
<1>10. CASE ExitReadLeft
  BY <1>0, <1>10 DEF ExitReadLeft, venueVars, procVars, actorVars, sharedVars, otherVars
<1>11. CASE ExitReadFailed
  <2> USE <1>0, <1>11 DEF ExitReadFailed, venueVars, procVars, actorVars, sharedVars, otherVars
  <2>1. VenueTypes'
    OBVIOUS
  <2>2. PointTypes'
    OBVIOUS
  <2>3. ActorFlags'
    OBVIOUS
  <2>4. SharedFlags'
    OBVIOUS
  <2> QED
    BY <2>1, <2>2, <2>3, <2>4
<1>12. CASE ExitReadRight
  <2> USE <1>0, <1>12 DEF ExitReadRight, BeginUnwind, NoEx, Kinds, Stages, venueVars, procVars,
         actorVars, sharedVars, otherVars
  <2>1. VenueTypes'
    OBVIOUS
  <2>2. PointTypes'
    OBVIOUS
  <2>3. ActorFlags'
    OBVIOUS
  <2>4. SharedFlags'
    OBVIOUS
  <2> QED
    BY <2>1, <2>2, <2>3, <2>4
<1>13. CASE Emergency
  <2> USE <1>0, <1>13 DEF Emergency, AtLoop, BeginUnwind, NoEx, Kinds, Stages, venueVars,
         procVars, actorVars, sharedVars, otherVars
  <2>1. VenueTypes'
    OBVIOUS
  <2>2. PointTypes'
    OBVIOUS
  <2>3. ActorFlags'
    OBVIOUS
  <2>4. SharedFlags'
    OBVIOUS
  <2> QED
    BY <2>1, <2>2, <2>3, <2>4
<1>14. CASE DrainStep
  <2> USE <1>0, <1>14 DEF DrainStep, AtLoop, BeginUnwind, NoEx, Kinds, Stages, venueVars,
         procVars, actorVars, sharedVars, otherVars
  <2>1. VenueTypes'
    OBVIOUS
  <2>2. PointTypes'
    OBVIOUS
  <2>3. ActorFlags'
    OBVIOUS
  <2>4. SharedFlags'
    OBVIOUS
  <2> QED
    BY <2>1, <2>2, <2>3, <2>4
<1>15. CASE DrainWake
  <2> USE <1>0, <1>15 DEF DrainWake, AtLoop, venueVars, procVars, actorVars, sharedVars,
         otherVars
  <2>1. VenueTypes'
    OBVIOUS
  <2>2. PointTypes'
    OBVIOUS
  <2>3. ActorFlags'
    OBVIOUS
  <2>4. SharedFlags'
    OBVIOUS
  <2> QED
    BY <2>1, <2>2, <2>3, <2>4
<1>16. CASE DecideNone
  BY <1>0, <1>16 DEF DecideNone, Trading, AtLoop, NextMode, venueVars, procVars, actorVars,
         sharedVars, otherVars
<1>17. CASE DecideOpen
  <2> USE <1>0, <1>17 DEF DecideOpen, Trading, AtLoop, BeginApply, NextMode, NoEx, Kinds,
         Stages, venueVars, procVars, actorVars, sharedVars, otherVars
  <2>1. VenueTypes'
    OBVIOUS
  <2>2. PointTypes'
    BY <1>17, TypeDecide
  <2>3. ActorFlags'
    OBVIOUS
  <2>4. SharedFlags'
    OBVIOUS
  <2> QED
    BY <2>1, <2>2, <2>3, <2>4
<1>18. CASE DecideClose
  <2> USE <1>0, <1>18 DEF DecideClose, Trading, AtLoop, BeginApply, NextMode, NoEx, Kinds,
         Stages, venueVars, procVars, actorVars, sharedVars, otherVars
  <2>1. VenueTypes'
    OBVIOUS
  <2>2. PointTypes'
    BY <1>18, TypeDecide
  <2>3. ActorFlags'
    OBVIOUS
  <2>4. SharedFlags'
    OBVIOUS
  <2> QED
    BY <2>1, <2>2, <2>3, <2>4
<1>19. CASE Register
  <2> USE <1>0, <1>19 DEF Register, venueVars, procVars, actorVars, sharedVars, otherVars
  <2>1. VenueTypes'
    OBVIOUS
  <2>2. PointTypes'
    OBVIOUS
  <2>3. ActorFlags'
    OBVIOUS
  <2>4. SharedFlags'
    OBVIOUS
  <2> QED
    BY <2>1, <2>2, <2>3, <2>4
<1>20. CASE Recheck
  BY <1>0, <1>20 DEF Recheck, venueVars, procVars, actorVars, sharedVars, otherVars
<1>21. CASE ExecSubmit
  BY <1>21, TypeSend
<1>22. CASE ExecDecline
  BY <1>0, <1>22 DEF ExecDecline, venueVars, procVars, actorVars, sharedVars, otherVars
<1>23. CASE ExecRescue
  BY <1>23, TypeSend
<1>24. CASE ReturnSettled
  <2> USE <1>0, <1>24 DEF ReturnSettled, AtTarget, Booked, venueVars, procVars, actorVars,
         sharedVars, otherVars
  <2>1. VenueTypes'
    OBVIOUS
  <2>2. PointTypes'
    OBVIOUS
  <2>3. ActorFlags'
    OBVIOUS
  <2>4. SharedFlags'
    OBVIOUS
  <2> QED
    BY <2>1, <2>2, <2>3, <2>4
<1>25. CASE ReturnMisaccounted
  <2> USE <1>0, <1>25 DEF ReturnMisaccounted, AtTarget, FailSettlement, Stalled, Retried,
         Stages, venueVars, procVars, actorVars, sharedVars, otherVars
  <2>1. VenueTypes'
    OBVIOUS
  <2>2. PointTypes'
    BY <1>25, TypeReturn
  <2>3. ActorFlags'
    OBVIOUS
  <2>4. SharedFlags'
    OBVIOUS
  <2> QED
    BY <2>1, <2>2, <2>3, <2>4
<1>26. CASE ReturnUnresolved
  <2> USE <1>0, <1>26 DEF ReturnUnresolved, FailSettlement, Stalled, Retried, Stages,
         venueVars, procVars, actorVars, sharedVars, otherVars
  <2>1. VenueTypes'
    OBVIOUS
  <2>2. PointTypes'
    BY <1>26, TypeReturn
  <2>3. ActorFlags'
    OBVIOUS
  <2>4. SharedFlags'
    OBVIOUS
  <2> QED
    BY <2>1, <2>2, <2>3, <2>4
<1>27. CASE TerminalsConfirmed
  BY <1>0, <1>27 DEF TerminalsConfirmed, Stages, venueVars, procVars, actorVars, sharedVars,
         otherVars
<1>28. CASE SaveSend
  BY <1>0, <1>28 DEF SaveSend, SaveOK, venueVars, procVars, actorVars, sharedVars, otherVars
<1>29. CASE SaveDone
  BY <1>0, <1>29 DEF SaveDone, NoEx, Kinds, Stages, SaveOK, venueVars, procVars, actorVars,
         sharedVars, otherVars
<1>30. CASE SaveFail
  BY <1>0, <1>30 DEF SaveFail, SaveOK, venueVars, procVars, actorVars, sharedVars, otherVars
<1>31. CASE SaveClear
  BY <1>0, <1>31 DEF SaveClear, SaveOK, venueVars, procVars, actorVars, sharedVars, otherVars
<1>32. CASE SaveMark
  BY <1>0, <1>32 DEF SaveMark, SaveOK, venueVars, procVars, actorVars, sharedVars, otherVars
<1>33. CASE SaveRelease
  <2> USE <1>0, <1>33 DEF SaveRelease, SaveOK, venueVars, procVars, actorVars, sharedVars,
         otherVars
  <2>1. VenueTypes'
    OBVIOUS
  <2>2. PointTypes'
    OBVIOUS
  <2>3. ActorFlags'
    OBVIOUS
  <2>4. SharedFlags'
    OBVIOUS
  <2> QED
    BY <2>1, <2>2, <2>3, <2>4
<1>34. CASE SaveErr
  <2> USE <1>0, <1>34 DEF SaveErr, venueVars, procVars, actorVars, sharedVars, otherVars
  <2>1. VenueTypes'
    OBVIOUS
  <2>2. PointTypes'
    OBVIOUS
  <2>3. ActorFlags'
    OBVIOUS
  <2>4. SharedFlags'
    OBVIOUS
  <2> QED
    BY <2>1, <2>2, <2>3, <2>4
<1>35. CASE SaveFinal
  <2> USE <1>0, <1>35 DEF SaveFinal, Vanish, NoEx, Kinds, Stages, venueVars, procVars,
         actorVars, sharedVars, otherVars
  <2>1. VenueTypes'
    OBVIOUS
  <2>2. PointTypes'
    OBVIOUS
  <2>3. ActorFlags'
    OBVIOUS
  <2>4. SharedFlags'
    OBVIOUS
  <2> QED
    BY <2>1, <2>2, <2>3, <2>4
<1>36. CASE Exit
  BY <1>0, <1>36 DEF Exit, venueVars, procVars, actorVars, sharedVars, otherVars
<1>37. CASE VenueTerminate
  BY <1>37, TypeTerminate
<1>38. CASE External
  BY <1>0, <1>38 DEF External, venueVars, procVars, actorVars, sharedVars, otherVars
<1>39. CASE GraceElapses
  BY <1>0, <1>39 DEF GraceElapses, venueVars, procVars, actorVars, sharedVars, otherVars
<1>40. CASE DrainSet
  BY <1>0, <1>40 DEF DrainSet, venueVars, procVars, actorVars, sharedVars, otherVars
<1>41. CASE DrainCancel
  BY <1>0, <1>41 DEF DrainCancel, venueVars, procVars, actorVars, sharedVars, otherVars
<1>42. CASE PickerPoll
  <2> USE <1>0, <1>42 DEF PickerPoll, venueVars, procVars, actorVars, sharedVars, otherVars
  <2>1. VenueTypes'
    OBVIOUS
  <2>2. PointTypes'
    OBVIOUS
  <2>3. ActorFlags'
    OBVIOUS
  <2>4. SharedFlags'
    OBVIOUS
  <2> QED
    BY <2>1, <2>2, <2>3, <2>4
<1>43. CASE Stop
  BY <1>0, <1>43 DEF Stop, venueVars, procVars, actorVars, sharedVars, otherVars
<1>44. CASE RiskAssess
  BY <1>0, <1>44 DEF RiskAssess, venueVars, procVars, actorVars, sharedVars, otherVars
<1>45. CASE RiskTrigger
  BY <1>0, <1>45 DEF RiskTrigger, venueVars, procVars, actorVars, sharedVars, otherVars
<1>46. CASE RiskCancel
  BY <1>0, <1>46 DEF RiskCancel, venueVars, procVars, actorVars, sharedVars, otherVars
<1>47. CASE Crash
  <2> USE <1>0, <1>47 DEF Crash, Vanish, NoEx, Kinds, Stages, venueVars, procVars, actorVars,
         sharedVars, otherVars
  <2>1. VenueTypes'
    OBVIOUS
  <2>2. PointTypes'
    OBVIOUS
  <2>3. ActorFlags'
    OBVIOUS
  <2>4. SharedFlags'
    OBVIOUS
  <2> QED
    BY <2>1, <2>2, <2>3, <2>4
<1>48. CASE Restart
  <2> USE <1>0, <1>48 DEF Restart, Load, NoEx, Kinds, Stages, Gens, venueVars, procVars,
         actorVars, sharedVars, otherVars
  <2>1. VenueTypes'
    OBVIOUS
  <2>2. PointTypes'
    OBVIOUS
  <2>3. ActorFlags'
    OBVIOUS
  <2>4. SharedFlags'
    OBVIOUS
  <2> QED
    BY <2>1, <2>2, <2>3, <2>4
<1> QED
  BY <1>1, <1>2, <1>3, <1>4, <1>5, <1>6, <1>7, <1>8, <1>9, <1>10, <1>11, <1>12, <1>13,
         <1>14, <1>15, <1>16, <1>17, <1>18, <1>19, <1>20, <1>21, <1>22, <1>23, <1>24, <1>25,
         <1>26, <1>27, <1>28, <1>29, <1>30, <1>31, <1>32, <1>33, <1>34, <1>35, <1>36, <1>37,
         <1>38, <1>39, <1>40, <1>41, <1>42, <1>43, <1>44, <1>45, <1>46, <1>47, <1>48,
         ConstantsAssumption DEF Next, Actor, Environment

LEMMA TypeStutter ==
  ASSUME TypeOK, UNCHANGED vars
  PROVE  TypeOK'
  BY DEF TypeOK, VenueTypes, PointTypes, ActorFlags, SharedFlags, vars, venueVars, procVars,
     actorVars, sharedVars, otherVars, Gens, Points, BusyPoints, SavePoints

\* Every variable keeps the type its declaration in the code gives it.
THEOREM TypeCorrect == Spec => []TypeOK
<1>1. TypeOK /\ [Next]_vars => TypeOK'
  <2> SUFFICES ASSUME TypeOK, [Next]_vars PROVE TypeOK'
    OBVIOUS
  <2>1. CASE Next
    BY <2>1, TypeStep
  <2>2. CASE UNCHANGED vars
    BY <2>2, TypeStutter
  <2> QED
    BY <2>1, <2>2
<1> QED
  BY TypeInit, <1>1, PTL DEF Spec

----------------------------------------------------------------------------
(* The mark in the state file *)

\* Which orders are live depends on orders and gen alone.
LEMMA OrdersKept ==
  ASSUME UNCHANGED orders
  PROVE  /\ \A g \in Gens : Idle(g)' <=> Idle(g)
         /\ NothingLive' <=> NothingLive
         /\ gen' = gen => (OldIdle' <=> OldIdle)
  BY DEF Idle, NothingLive, OldIdle

\* Nothing is live iff neither this process nor an earlier one has a live order.
LEMMA OrdersSplit ==
  ASSUME gen \in Gens
  PROVE  NothingLive <=> (OldIdle /\ Idle(gen))
  BY DEF NothingLive, OldIdle

\* Initially no order exists.
LEMMA CheckpointInit == Init => CheckpointInv
<1> SUFFICES ASSUME Init PROVE CheckpointInv
  OBVIOUS
<1>1. \A g \in Gens : Idle(g)
  BY DEF Init, Idle, Gens, NoOrder, Legs
<1>2. NothingLive /\ OldIdle
  BY <1>1 DEF NothingLive, OldIdle
<1>3. gen \in Gens
  BY ConstantsAssumption DEF Init, Gens
<1> QED
  BY <1>1, <1>2, <1>3 DEF Init, CheckpointInv, LiveOrderIsCheckpointed, MemoryMarked, SendMarked,
     PendingMarked, OwnOrders, OldOrders, ClockSound, FutureIdle

\* No step that leaves the orders alone disturbs it, except a restart.
LEMMA CheckpointQuietStep ==
  ASSUME TypeOK, CheckpointInv, UNCHANGED <<orders, gen>>, Next
  PROVE  CheckpointInv'
<1> USE DEF CheckpointInv, LiveOrderIsCheckpointed, MemoryMarked, SendMarked, PendingMarked,
            OwnOrders, OldOrders, ClockSound, FutureIdle, Up
<1>0. /\ \A g \in Gens : Idle(g)' <=> Idle(g)
      /\ NothingLive' <=> NothingLive
      /\ OldIdle' <=> OldIdle
      /\ NothingLive <=> (OldIdle /\ Idle(gen))
      /\ gen \in Gens
  BY OrdersKept, OrdersSplit DEF TypeOK, VenueTypes
<1>1. CASE ReadLeft
  BY <1>0, <1>1 DEF ReadLeft, venueVars, procVars, actorVars, sharedVars, otherVars
<1>2. CASE ReadFailed
  BY <1>0, <1>2 DEF ReadFailed, ReconcileFailed, venueVars, procVars, actorVars, sharedVars,
         otherVars
<1>3. CASE ReadMismatch
  BY <1>0, <1>3 DEF ReadMismatch, ReconcileFailed, venueVars, procVars, actorVars, sharedVars,
         otherVars
<1>4. CASE ReadMatch
  BY <1>0, <1>4 DEF ReadMatch, venueVars, procVars, actorVars, sharedVars, otherVars
<1>5. CASE Reconciled
  BY <1>0, <1>5 DEF Reconciled, venueVars, procVars, actorVars, sharedVars, otherVars
<1>6. CASE ReconciledQuarantined
  BY <1>0, <1>6 DEF ReconciledQuarantined, venueVars, procVars, actorVars, sharedVars, otherVars
<1>7. CASE ResolvePending
  BY <1>0, <1>7 DEF ResolvePending, AtLoop, venueVars, procVars, actorVars, sharedVars,
         otherVars
<1>8. CASE RecoverCheckpoint
  BY <1>0, <1>8 DEF RecoverCheckpoint, AtLoop, WantsExit, venueVars, procVars, actorVars,
         sharedVars, otherVars
<1>9. CASE RecoverCheckpointExit
  BY <1>0, <1>9 DEF RecoverCheckpointExit, AtLoop, WantsExit, venueVars, procVars, actorVars,
         sharedVars, otherVars
<1>10. CASE ExitReadLeft
  BY <1>0, <1>10 DEF ExitReadLeft, venueVars, procVars, actorVars, sharedVars, otherVars
<1>11. CASE ExitReadFailed
  BY <1>0, <1>11 DEF ExitReadFailed, venueVars, procVars, actorVars, sharedVars, otherVars
<1>12. CASE ExitReadRight
  BY <1>0, <1>12 DEF ExitReadRight, BeginUnwind, venueVars, procVars, actorVars, sharedVars,
         otherVars
<1>13. CASE Emergency
  BY <1>0, <1>13 DEF Emergency, AtLoop, BeginUnwind, venueVars, procVars, actorVars,
         sharedVars, otherVars
<1>14. CASE DrainStep
  BY <1>0, <1>14 DEF DrainStep, AtLoop, BeginUnwind, venueVars, procVars, actorVars,
         sharedVars, otherVars
<1>15. CASE DrainWake
  BY <1>0, <1>15 DEF DrainWake, AtLoop, venueVars, procVars, actorVars, sharedVars, otherVars
<1>16. CASE DecideNone
  BY <1>0, <1>16 DEF DecideNone, Trading, AtLoop, venueVars, procVars, actorVars, sharedVars,
         otherVars
<1>17. CASE DecideOpen
  BY <1>0, <1>17 DEF DecideOpen, Trading, AtLoop, BeginApply, venueVars, procVars, actorVars,
         sharedVars, otherVars
<1>18. CASE DecideClose
  BY <1>0, <1>18 DEF DecideClose, Trading, AtLoop, BeginApply, venueVars, procVars, actorVars,
         sharedVars, otherVars
<1>19. CASE Register
  BY <1>0, <1>19 DEF Register, venueVars, procVars, actorVars, sharedVars, otherVars
<1>20. CASE Recheck
  BY <1>0, <1>20 DEF Recheck, venueVars, procVars, actorVars, sharedVars, otherVars
<1>21. CASE ExecDecline
  BY <1>0, <1>21 DEF ExecDecline, venueVars, procVars, actorVars, sharedVars, otherVars
<1>22. CASE ReturnSettled
  BY <1>0, <1>22 DEF ReturnSettled, AtTarget, venueVars, procVars, actorVars, sharedVars,
         otherVars
<1>23. CASE ReturnMisaccounted
  BY <1>0, <1>23 DEF ReturnMisaccounted, AtTarget, FailSettlement, Stalled, Retried, venueVars,
         procVars, actorVars, sharedVars, otherVars
<1>24. CASE ReturnUnresolved
  <2>1. \/ pending' /\ checkpoint' /\ pc' = "saveFail"
        \/ pending /\ pc' \in {"loop", "exec"} /\ UNCHANGED <<pending, checkpoint>>
    BY <1>24 DEF ReturnUnresolved, FailSettlement, Stalled, Retried
  <2> QED
    BY <1>0, <1>24, <2>1 DEF ReturnUnresolved, venueVars, procVars, sharedVars, otherVars
<1>25. CASE TerminalsConfirmed
  BY <1>0, <1>25 DEF TerminalsConfirmed, venueVars, procVars, actorVars, sharedVars, otherVars
<1>26. CASE SaveSend
  BY <1>0, <1>26 DEF SaveSend, SaveOK, Image, venueVars, procVars, actorVars, sharedVars,
         otherVars
<1>27. CASE SaveDone
  BY <1>0, <1>27 DEF SaveDone, SaveOK, Image, venueVars, procVars, actorVars, sharedVars,
         otherVars
<1>28. CASE SaveFail
  BY <1>0, <1>28 DEF SaveFail, SaveOK, Image, venueVars, procVars, actorVars, sharedVars,
         otherVars
<1>29. CASE SaveClear
  BY <1>0, <1>29 DEF SaveClear, SaveOK, Image, venueVars, procVars, actorVars, sharedVars,
         otherVars
<1>30. CASE SaveMark
  BY <1>0, <1>30 DEF SaveMark, SaveOK, Image, venueVars, procVars, actorVars, sharedVars,
         otherVars
<1>31. CASE SaveRelease
  BY <1>0, <1>31 DEF SaveRelease, SaveOK, Image, venueVars, procVars, actorVars, sharedVars,
         otherVars
<1>32. CASE SaveErr
  BY <1>0, <1>32 DEF SaveErr, SavePoints, Image, venueVars, procVars, actorVars, sharedVars,
         otherVars
<1>33. CASE SaveFinal
  BY <1>0, <1>33 DEF SaveFinal, Vanish, SavePoints, Image, venueVars, procVars, actorVars,
         sharedVars, otherVars
<1>34. CASE Exit
  BY <1>0, <1>34 DEF Exit, venueVars, procVars, actorVars, sharedVars, otherVars
<1>35. CASE External
  BY <1>0, <1>35 DEF External, venueVars, procVars, actorVars, sharedVars, otherVars
<1>36. CASE GraceElapses
  BY <1>0, <1>36 DEF GraceElapses, venueVars, procVars, actorVars, sharedVars, otherVars
<1>37. CASE DrainSet
  BY <1>0, <1>37 DEF DrainSet, venueVars, procVars, actorVars, sharedVars, otherVars
<1>38. CASE DrainCancel
  BY <1>0, <1>38 DEF DrainCancel, venueVars, procVars, actorVars, sharedVars, otherVars
<1>39. CASE PickerPoll
  BY <1>0, <1>39 DEF PickerPoll, venueVars, procVars, actorVars, sharedVars, otherVars
<1>40. CASE Stop
  BY <1>0, <1>40 DEF Stop, venueVars, procVars, actorVars, sharedVars, otherVars
<1>41. CASE RiskAssess
  BY <1>0, <1>41 DEF RiskAssess, venueVars, procVars, actorVars, sharedVars, otherVars
<1>42. CASE RiskTrigger
  BY <1>0, <1>42 DEF RiskTrigger, venueVars, procVars, actorVars, sharedVars, otherVars
<1>43. CASE RiskCancel
  BY <1>0, <1>43 DEF RiskCancel, venueVars, procVars, actorVars, sharedVars, otherVars
<1>44. CASE Crash
  BY <1>0, <1>44 DEF Crash, Vanish, SavePoints, Image, venueVars, procVars, actorVars,
         sharedVars, otherVars
<1>45. CASE ExecSubmit \/ ExecRescue \/ VenueTerminate
  BY <1>0, <1>45 DEF ExecSubmit, ExecRescue, VenueTerminate, procVars, actorVars, sharedVars, otherVars
<1>46. CASE Restart
  BY <1>0, <1>46 DEF Restart, TypeOK, Gens
<1> QED
  BY <1>1, <1>2, <1>3, <1>4, <1>5, <1>6, <1>7, <1>8, <1>9, <1>10, <1>11, <1>12, <1>13,
         <1>14, <1>15, <1>16, <1>17, <1>18, <1>19, <1>20, <1>21, <1>22, <1>23, <1>24, <1>25,
         <1>26, <1>27, <1>28, <1>29, <1>30, <1>31, <1>32, <1>33, <1>34, <1>35, <1>36, <1>37,
         <1>38, <1>39, <1>40, <1>41, <1>42, <1>43, <1>44, <1>45, <1>46,
         ConstantsAssumption DEF Next, Actor, Environment

\* An order is sent by this process only, and only where both marks are up.
LEMMA CheckpointSend ==
  ASSUME TypeOK, CheckpointInv, ExecSubmit \/ ExecRescue
  PROVE  CheckpointInv'
<1> USE DEF CheckpointInv, LiveOrderIsCheckpointed, MemoryMarked, SendMarked, PendingMarked,
            OwnOrders, OldOrders, ClockSound, FutureIdle, Up
<1>1. /\ gen \in Gens /\ gen' = gen
      /\ pc \in {"submit", "exec"} /\ pc' = "exec"
      /\ disk' = disk /\ checkpoint' = checkpoint /\ exit' = exit /\ pending' = pending
      /\ due' = due /\ clock' = clock
      /\ \A g \in Gens \ {gen} : orders'[g] = orders[g]
  BY DEF TypeOK, VenueTypes, ExecSubmit, ExecRescue, procVars, actorVars, sharedVars, otherVars
<1>2. \A g \in Gens \ {gen} : Idle(g)' <=> Idle(g)
  BY <1>1 DEF Idle
<1>3. OldIdle' <=> OldIdle
  BY <1>1, <1>2 DEF OldIdle
<1>4. \A g \in Gens : g > gen => g # gen
  BY <1>1 DEF Gens
<1> QED
  BY <1>1, <1>2, <1>3, <1>4

\* An order that ends leaves fewer orders live.
LEMMA CheckpointTerminate ==
  ASSUME TypeOK, CheckpointInv, VenueTerminate
  PROVE  CheckpointInv'
<1> USE DEF CheckpointInv, LiveOrderIsCheckpointed, MemoryMarked, SendMarked, PendingMarked,
            OwnOrders, OldOrders, ClockSound, FutureIdle, Up
<1>1. /\ gen \in Gens /\ gen' = gen /\ pc' = pc
      /\ disk' = disk /\ checkpoint' = checkpoint /\ exit' = exit /\ pending' = pending
      /\ due' = due /\ clock' = clock
  BY DEF TypeOK, VenueTypes, VenueTerminate, procVars, actorVars, sharedVars, otherVars
<1>2. ASSUME NEW g \in Gens, Idle(g)
      PROVE  Idle(g)'
  <2> SUFFICES ASSUME NEW leg \in Legs PROVE orders'[g][leg].q = 0
    BY DEF Idle
  <2>1. PICK h \in Gens, l \in Legs : orders' = [orders EXCEPT ![h][l] = NoOrder]
    BY DEF VenueTerminate
  <2>2. orders[g][leg].q = 0
    BY <1>2 DEF Idle
  <2> QED
    BY <2>1, <2>2 DEF NoOrder, TypeOK
<1>3. (NothingLive => NothingLive') /\ (OldIdle => OldIdle')
  BY <1>1, <1>2 DEF NothingLive, OldIdle
<1> QED
  BY <1>1, <1>2, <1>3

\* A new process loads the mark: it has sent nothing itself, and with an order of
\* an earlier one live it starts in quarantine.
LEMMA CheckpointRestart ==
  ASSUME TypeOK, CheckpointInv, Restart
  PROVE  CheckpointInv'
<1> USE DEF CheckpointInv, LiveOrderIsCheckpointed, MemoryMarked, SendMarked, PendingMarked,
            OwnOrders, OldOrders, ClockSound, FutureIdle, Up
<1>1. /\ gen \in Gens /\ gen' \in Gens /\ gen' > gen /\ gen' = gen + 1
      /\ \A g \in Gens : g > gen' => g > gen
  BY ConstantsAssumption DEF TypeOK, VenueTypes, Restart, Gens
<1>2. (\A g \in Gens : Idle(g)' <=> Idle(g)) /\ (NothingLive' <=> NothingLive)
  BY OrdersKept DEF Restart, venueVars
<1>3. Idle(gen)'
  BY <1>1, <1>2
<1> QED
  BY <1>1, <1>2, <1>3 DEF Restart, Load, venueVars

\* Orders change where one is sent or ends, the process where one is started.
LEMMA OrdersGen ==
  ASSUME Next, ~(ExecSubmit \/ ExecRescue \/ VenueTerminate \/ Restart)
  PROVE  UNCHANGED <<orders, gen>>
<1> USE DEF venueVars, procVars
<1>1. CASE ReadLeft \/ ReadFailed \/ ReadMismatch \/ ReadMatch \/ Reconciled \/
          ReconciledQuarantined
  BY <1>1 DEF ReadLeft, ReadFailed, ReadMismatch, ReadMatch, Reconciled, ReconciledQuarantined
<1>2. CASE ResolvePending \/ RecoverCheckpoint \/ RecoverCheckpointExit \/ ExitReadLeft \/
          ExitReadFailed \/ ExitReadRight
  BY <1>2 DEF ResolvePending, RecoverCheckpoint, RecoverCheckpointExit, ExitReadLeft,
     ExitReadFailed, ExitReadRight
<1>3. CASE Emergency \/ DrainStep \/ DrainWake \/ DecideNone \/ DecideOpen \/ DecideClose
  BY <1>3 DEF Emergency, DrainStep, DrainWake, DecideNone, DecideOpen, DecideClose, BeginApply
<1>4. CASE Register \/ Recheck \/ ExecDecline \/ ReturnSettled \/ ReturnMisaccounted \/
          ReturnUnresolved \/ TerminalsConfirmed
  BY <1>4 DEF Register, Recheck, ExecDecline, ReturnSettled, ReturnMisaccounted,
     ReturnUnresolved, TerminalsConfirmed
<1>5. CASE SaveSend \/ SaveDone \/ SaveFail \/ SaveClear \/ SaveMark \/ SaveRelease \/
          SaveErr \/ SaveFinal \/ Exit
  BY <1>5 DEF SaveSend, SaveDone, SaveFail, SaveClear, SaveMark, SaveRelease, SaveErr,
     SaveFinal, Exit
<1>6. CASE External \/ GraceElapses \/ DrainSet \/ DrainCancel \/ PickerPoll \/ Stop \/
          RiskAssess \/ RiskTrigger \/ RiskCancel \/ Crash
  BY <1>6 DEF External, GraceElapses, DrainSet, DrainCancel, PickerPoll, Stop, RiskAssess,
     RiskTrigger, RiskCancel, Crash
<1> QED
  BY <1>1, <1>2, <1>3, <1>4, <1>5, <1>6 DEF Next, Actor, Environment

\* Every action preserves the invariant.
LEMMA CheckpointStep ==
  ASSUME TypeOK, CheckpointInv, Next
  PROVE  CheckpointInv'
<1>1. CASE ExecSubmit \/ ExecRescue
  BY <1>1, CheckpointSend
<1>2. CASE VenueTerminate
  BY <1>2, CheckpointTerminate
<1>3. CASE Restart
  BY <1>3, CheckpointRestart
<1>4. CASE ~(ExecSubmit \/ ExecRescue \/ VenueTerminate \/ Restart)
  <2>1. UNCHANGED <<orders, gen>>
    BY <1>4, OrdersGen
  <2> QED
    BY <2>1, CheckpointQuietStep
<1> QED
  BY <1>1, <1>2, <1>3, <1>4

LEMMA CheckpointStutter ==
  ASSUME TypeOK, CheckpointInv, UNCHANGED vars
  PROVE  CheckpointInv'
<1>1. /\ \A g \in Gens : Idle(g)' <=> Idle(g)
      /\ NothingLive' <=> NothingLive
      /\ OldIdle' <=> OldIdle
      /\ gen \in Gens /\ gen' = gen
  BY OrdersKept DEF TypeOK, VenueTypes, vars, venueVars, procVars
<1> QED
  BY <1>1 DEF vars, venueVars, procVars, actorVars, sharedVars, otherVars, CheckpointInv,
     LiveOrderIsCheckpointed, MemoryMarked, SendMarked, PendingMarked, OwnOrders, OldOrders,
     ClockSound, FutureIdle, Up

\* As long as any order, of this process or of a dead one, can still change a
\* position, the state file says the execution is unresolved.
THEOREM LiveOrdersCheckpointed == Spec => []LiveOrderIsCheckpointed
<1>1. TypeOK /\ CheckpointInv /\ [Next]_vars => CheckpointInv'
  <2> SUFFICES ASSUME TypeOK, CheckpointInv, [Next]_vars PROVE CheckpointInv'
    OBVIOUS
  <2>1. CASE Next
    BY <2>1, CheckpointStep
  <2>2. CASE UNCHANGED vars
    BY <2>2, CheckpointStutter
  <2> QED
    BY <2>1, <2>2
<1>2. CheckpointInv => LiveOrderIsCheckpointed
  BY DEF CheckpointInv
<1> QED
  BY CheckpointInit, TypeCorrect, <1>1, <1>2, PTL DEF Spec

----------------------------------------------------------------------------
(* The account *)

\* Positions that oppose each other equally are a hedge.
LEMMA HedgeIs ==
  /\ \A n \in Int : pos \in [Legs -> Int] /\ pos["L"] = n /\ pos["R"] = -n => pos = Hedge(n)
  /\ \A n \in Int : Hedge(n)["L"] = n /\ Hedge(n)["R"] = -n
  BY DEF Hedge, Legs

\* What an execution begins as.
LEMMA UnwindEx ==
  ASSUME BeginUnwind
  PROVE  ex'.kind = "unwind" /\ ex'.stage = "settle"
  BY DEF BeginUnwind, NoEx

LEMMA DecisionEx ==
  ASSUME TypeOK, DecideOpen \/ DecideClose
  PROVE  /\ ex'.kind = (IF DecideOpen THEN "open" ELSE ex'.kind)
         /\ ex'.kind \in {"open", "close"} /\ ex'.stage = "settle" /\ ex'.side # 0
         /\ Trading /\ pc' = "saveSend" /\ checkpoint' /\ ~settled'
         /\ UNCHANGED <<venueVars, disk, procVars, boot, led, exit, reconciled, legacy, pending,
                 clock, due, rl, flatPos, drain, drainConfirmed, wake, emergency, riskBlocked,
                 startupRecovered, cancelled, otherVars>>
<1>1. \E k \in {"open", "close"}, s \in {-1, 1}, q \in Nat :
        /\ BeginApply([NoEx EXCEPT !.kind = k, !.side = s, !.qty = q]) /\ Trading
        /\ DecideOpen => k = "open"
  <2>1. CASE DecideOpen
    BY <2>1, ConstantsAssumption DEF DecideOpen
  <2>2. CASE DecideClose /\ ~DecideOpen
    <3>1. PICK q \in 1..Smaller(StepQty, Abs(led)) :
            BeginApply([NoEx EXCEPT !.kind = "close", !.side = -Sgn(led), !.qty = q]) /\ Trading
      BY <2>2 DEF DecideClose
    <3>2. led \in Int /\ led # 0
      BY <3>1, ConstantsAssumption DEF TypeOK, PointTypes, Smaller, Abs
    <3>3. -Sgn(led) \in {-1, 1}
      <4>1. Sgn(led) = 1 \/ Sgn(led) = -1
        BY <3>2 DEF Sgn
      <4> QED
        BY <4>1
    <3>4. q \in Nat
      <4>1. Smaller(StepQty, Abs(led)) \in Nat
        BY <3>2, ConstantsAssumption, SmallTypes
      <4> QED
        BY <4>1
    <3> QED
      BY <2>2, <3>1, <3>3, <3>4
  <2> QED
    BY <2>1, <2>2
<1>2. PICK k \in {"open", "close"}, s \in {-1, 1}, q \in Nat :
        /\ BeginApply([NoEx EXCEPT !.kind = k, !.side = s, !.qty = q]) /\ Trading
        /\ DecideOpen => k = "open"
  BY <1>1
<1>3. ex' = [kind |-> k, side |-> s, qty |-> q, stage |-> "settle", stalls |-> 0]
  BY <1>2 DEF BeginApply, NoEx
<1>4. ex'.kind = k /\ ex'.stage = "settle" /\ ex'.side = s
  BY <1>3
<1> QED
  BY <1>2, <1>4 DEF BeginApply

\* Steps of the actor, of the picker and of the risk watcher: the venues' and the outside world's are
\* treated apart.
Quiet == ~(ExecSubmit \/ ExecRescue \/ VenueTerminate \/ External \/ Restart)

\* What the actor's control says of its flags, and what it says of the account.
ControlInv ==
  /\ Undisturbed /\ Unread /\ SettledUnmarked /\ ReadsMarked /\ Chosen /\ SavesSound /\ RecoveredFirst /\ StopSeen
HeldInv == ReadsSound /\ Untouched /\ LedgerHeld /\ FileMatchesAccount /\ DrainSound /\ ReleasedIsFlat

\* They keep the control.
LEMMA ControlQuietStep ==
  ASSUME TypeOK, CheckpointInv, CheckpointInv', AccountInv,
         UNCHANGED <<pos, orders, gen>>, Next, Quiet
  PROVE  ControlInv'
<1> USE DEF ControlInv, Undisturbed, Unread, SettledUnmarked, ReadsMarked, Chosen, SavesSound, RecoveredFirst,
            StopSeen, Up, Draining, Flattening
<1>0. /\ ControlInv /\ SendMarked /\ PendingMarked /\ SendMarked' /\ PendingMarked'
  BY DEF AccountInv, CheckpointInv
<1>1. CASE ReadLeft
  BY <1>0, <1>1 DEF ReadLeft, venueVars, procVars, actorVars, sharedVars, otherVars, SendMarked, PendingMarked
<1>2. CASE ReadFailed
  BY <1>0, <1>2 DEF ReadFailed, ReconcileFailed, venueVars, procVars, actorVars, sharedVars, otherVars,
     SendMarked, PendingMarked
<1>3. CASE ReadMismatch
  BY <1>0, <1>3 DEF ReadMismatch, ReconcileFailed, venueVars, procVars, actorVars, sharedVars, otherVars,
     SendMarked, PendingMarked
<1>4. CASE ReadMatch
  BY <1>0, <1>4 DEF ReadMatch, venueVars, procVars, actorVars, sharedVars, otherVars, SendMarked, PendingMarked
<1>5. CASE Reconciled
  BY <1>0, <1>5 DEF Reconciled, venueVars, procVars, actorVars, sharedVars, otherVars, SendMarked, PendingMarked
<1>6. CASE ReconciledQuarantined
  BY <1>0, <1>6 DEF ReconciledQuarantined, venueVars, procVars, actorVars, sharedVars, otherVars, SendMarked,
     PendingMarked
<1>7. CASE ResolvePending
  BY <1>0, <1>7 DEF ResolvePending, AtLoop, venueVars, procVars, actorVars, sharedVars, otherVars, SendMarked,
     PendingMarked
<1>8. CASE RecoverCheckpoint
  BY <1>0, <1>8 DEF RecoverCheckpoint, AtLoop, WantsExit, venueVars, procVars, actorVars, sharedVars,
     otherVars, SendMarked, PendingMarked
<1>9. CASE RecoverCheckpointExit
  BY <1>0, <1>9 DEF RecoverCheckpointExit, AtLoop, WantsExit, venueVars, procVars, actorVars, sharedVars,
     otherVars, SendMarked, PendingMarked
<1>10. CASE ExitReadLeft
  BY <1>0, <1>10 DEF ExitReadLeft, venueVars, procVars, actorVars, sharedVars, otherVars, SendMarked, PendingMarked
<1>11. CASE ExitReadFailed
  BY <1>0, <1>11 DEF ExitReadFailed, venueVars, procVars, actorVars, sharedVars, otherVars, SendMarked, PendingMarked
<1>12. CASE ExitReadRight
  <2>1. /\ pc = "exR" /\ reconciled' /\ nExt' = nExt /\ led' = led /\ drift' \subseteq drift
        /\ (pending' <=> pending) /\ (startupRecovered' <=> startupRecovered)
        /\ \/ BeginUnwind /\ (exit' <=> exit)
           \/ pc' = "loop" /\ (checkpoint' <=> checkpoint) /\ (exit' <=> exit) /\ (settled' <=> settled)
           \/ pc' = "saveRelease" /\ ~checkpoint' /\ (settled' <=> settled) /\ led = 0
    BY <1>12 DEF ExitReadRight
  <2>2. BeginUnwind => pc' = "saveSend" /\ ex'.kind = "unwind" /\ ex'.stage = "settle" /\ checkpoint' /\ ~settled'
    BY UnwindEx DEF BeginUnwind
  <2>3. checkpoint /\ exit /\ ~settled /\ ~pending
    BY <1>0, <2>1 DEF PendingMarked
  <2> QED
    BY <1>0, <2>1, <2>2, <2>3
<1>13. CASE Emergency
  <2>1. ex'.kind = "unwind" /\ ex'.stage = "settle"
    BY <1>13, UnwindEx DEF Emergency
  <2> QED
    BY <1>0, <1>13, <2>1 DEF Emergency, AtLoop, BeginUnwind, venueVars, procVars, actorVars, sharedVars,
       otherVars, SendMarked, PendingMarked
<1>14. CASE DrainStep
  <2>1. pc' = "saveSend" => ex'.kind = "unwind" /\ ex'.stage = "settle"
    BY <1>14, UnwindEx DEF DrainStep, AtLoop
  <2> QED
    BY <1>0, <1>14, <2>1 DEF DrainStep, AtLoop, BeginUnwind, venueVars, procVars, actorVars, sharedVars,
       otherVars, SendMarked, PendingMarked
<1>15. CASE DrainWake
  BY <1>0, <1>15 DEF DrainWake, AtLoop, venueVars, procVars, actorVars, sharedVars, otherVars, SendMarked,
     PendingMarked
<1>16. CASE DecideNone
  BY <1>0, <1>16 DEF DecideNone, Trading, AtLoop, venueVars, procVars, actorVars, sharedVars, otherVars,
     SendMarked, PendingMarked
<1>17. CASE DecideOpen
  BY <1>0, <1>17, DecisionEx DEF Trading, AtLoop, venueVars, procVars, otherVars, SendMarked, PendingMarked
<1>18. CASE DecideClose
  BY <1>0, <1>18, DecisionEx DEF Trading, AtLoop, venueVars, procVars, otherVars, SendMarked, PendingMarked
<1>19. CASE Register
  BY <1>0, <1>19 DEF Register, venueVars, procVars, actorVars, sharedVars, otherVars, SendMarked, PendingMarked
<1>20. CASE Recheck
  BY <1>0, <1>20 DEF Recheck, venueVars, procVars, actorVars, sharedVars, otherVars, SendMarked, PendingMarked
<1>21. CASE ExecDecline
  BY <1>0, <1>21 DEF ExecDecline, venueVars, procVars, actorVars, sharedVars, otherVars, SendMarked, PendingMarked
<1>22. CASE ReturnSettled
  <2>1. Flattening => led' = 0
    BY <1>22, HedgeIs DEF ReturnSettled, AtTarget, Target, Flatness, Booked
  <2>2. Flattening' <=> Flattening
    BY <1>22 DEF ReturnSettled
  <2> HIDE DEF Flattening
  <2> QED
    BY <1>0, <1>22, <2>1, <2>2 DEF ReturnSettled, AtTarget, venueVars, procVars, actorVars, sharedVars,
       otherVars, SendMarked, PendingMarked
<1>23. CASE ReturnMisaccounted
  BY <1>0, <1>23 DEF ReturnMisaccounted, AtTarget, FailSettlement, Stalled, Retried, venueVars, procVars,
     actorVars, sharedVars, otherVars, SendMarked, PendingMarked
<1>24. CASE ReturnUnresolved
  <2>1. \/ pending' /\ checkpoint' /\ ~settled' /\ pc' = "saveFail"
        \/ pending /\ pc' \in {"loop", "exec"} /\ (pending' <=> pending)
           /\ (checkpoint' <=> checkpoint) /\ (settled' <=> settled)
    BY <1>24 DEF ReturnUnresolved, FailSettlement, Stalled, Retried
  <2>2. pc = "exec" /\ UNCHANGED <<nExt, exit, reconciled, led, startupRecovered>> /\ (drift' = drift \/ drift' = {})
    BY <1>24 DEF ReturnUnresolved, FailSettlement, Stalled, Retried
  <2>3. checkpoint /\ reconciled /\ ~settled /\ (startupRecovered \/ exit)
    BY <1>0, <2>2 DEF SendMarked
  <2>4. checkpoint' /\ ~settled' /\ pc' \in {"saveFail", "loop", "exec"}
    BY <2>1, <2>3
  <2> QED
    BY <1>0, <2>2, <2>3, <2>4
<1>25. CASE TerminalsConfirmed
  BY <1>0, <1>25 DEF TerminalsConfirmed, venueVars, procVars, actorVars, sharedVars, otherVars, SendMarked,
     PendingMarked
<1>26. CASE SaveSend
  BY <1>0, <1>26 DEF SaveSend, SaveOK, Image, venueVars, procVars, actorVars, sharedVars, otherVars,
     SendMarked, PendingMarked
<1>27. CASE SaveDone
  BY <1>0, <1>27 DEF SaveDone, SaveOK, Image, venueVars, procVars, actorVars, sharedVars, otherVars,
     SendMarked, PendingMarked
<1>28. CASE SaveFail
  BY <1>0, <1>28 DEF SaveFail, SaveOK, Image, venueVars, procVars, actorVars, sharedVars, otherVars,
     SendMarked, PendingMarked
<1>29. CASE SaveClear
  BY <1>0, <1>29 DEF SaveClear, SaveOK, Image, venueVars, procVars, actorVars, sharedVars, otherVars,
     SendMarked, PendingMarked
<1>30. CASE SaveMark
  BY <1>0, <1>30 DEF SaveMark, SaveOK, Image, venueVars, procVars, actorVars, sharedVars, otherVars,
     SendMarked, PendingMarked
<1>31. CASE SaveRelease
  BY <1>0, <1>31 DEF SaveRelease, SaveOK, Image, venueVars, procVars, actorVars, sharedVars, otherVars,
     SendMarked, PendingMarked
<1>32. CASE SaveErr
  BY <1>0, <1>32 DEF SaveErr, SavePoints, Image, venueVars, procVars, actorVars, sharedVars, otherVars,
     SendMarked, PendingMarked
<1>33. CASE SaveFinal
  BY <1>0, <1>33 DEF SaveFinal, Vanish, SavePoints, Image, venueVars, procVars, actorVars, sharedVars,
     otherVars, SendMarked, PendingMarked
<1>34. CASE Exit
  BY <1>0, <1>34 DEF Exit, venueVars, procVars, actorVars, sharedVars, otherVars, SendMarked, PendingMarked
<1>35. CASE GraceElapses
  BY <1>0, <1>35 DEF GraceElapses, venueVars, procVars, actorVars, sharedVars, otherVars, SendMarked, PendingMarked
<1>36. CASE DrainSet
  BY <1>0, <1>36 DEF DrainSet, venueVars, procVars, actorVars, sharedVars, otherVars, SendMarked, PendingMarked
<1>37. CASE DrainCancel
  BY <1>0, <1>37 DEF DrainCancel, Registered, venueVars, procVars, actorVars, sharedVars, otherVars,
     SendMarked, PendingMarked
<1>38. CASE PickerPoll
  BY <1>0, <1>38 DEF PickerPoll, venueVars, procVars, actorVars, sharedVars, otherVars, SendMarked, PendingMarked
<1>39. CASE Stop
  BY <1>0, <1>39 DEF Stop, venueVars, procVars, actorVars, sharedVars, otherVars, SendMarked, PendingMarked
<1>40. CASE RiskAssess
  BY <1>0, <1>40 DEF RiskAssess, venueVars, procVars, actorVars, sharedVars, otherVars, SendMarked, PendingMarked
<1>41. CASE RiskTrigger
  BY <1>0, <1>41 DEF RiskTrigger, venueVars, procVars, actorVars, sharedVars, otherVars, SendMarked, PendingMarked
<1>42. CASE RiskCancel
  BY <1>0, <1>42 DEF RiskCancel, Registered, venueVars, procVars, actorVars, sharedVars, otherVars, SendMarked,
     PendingMarked
<1>43. CASE Crash
  BY <1>0, <1>43 DEF Crash, Vanish, SavePoints, Image, venueVars, procVars, actorVars, sharedVars, otherVars,
     SendMarked, PendingMarked
<1> QED
  BY <1>1, <1>2, <1>3, <1>4, <1>5, <1>6, <1>7, <1>8, <1>9, <1>10, <1>11, <1>12, <1>13, <1>14, <1>15, <1>16,
     <1>17, <1>18, <1>19, <1>20, <1>21, <1>22, <1>23, <1>24, <1>25, <1>26, <1>27, <1>28, <1>29, <1>30, <1>31, <1>32,
     <1>33, <1>34, <1>35, <1>36, <1>37, <1>38, <1>39, <1>40, <1>41, <1>42, <1>43 DEF Next, Actor, Environment, Quiet

\* They keep what is known of the account.
LEMMA HeldQuietStep ==
  ASSUME TypeOK, CheckpointInv, CheckpointInv', AccountInv,
         UNCHANGED <<pos, orders, gen>>, Next, Quiet
  PROVE  HeldInv'
<1> USE DEF HeldInv, ReadsSound, Untouched, LedgerHeld, FileMatchesAccount, DrainSound, ReleasedIsFlat, Up,
            Draining, Flattening,
            SavesSound, Undisturbed, ReadsMarked, Unread, SettledUnmarked, ControlInv
<1>0. /\ NothingLive' <=> NothingLive
      /\ Up /\ ~checkpoint => NothingLive
      /\ pc \in {"recL", "recR", "recS", "exL", "exR"} /\ due => NothingLive
      /\ HeldInv /\ ControlInv /\ ControlInv' /\ LiveOrderIsCheckpointed /\ SendMarked /\ Flatness = Hedge(0)
  BY OrdersKept, OrdersSplit, ControlQuietStep DEF TypeOK, VenueTypes, CheckpointInv, AccountInv, ControlInv, HeldInv,
     MemoryMarked, OwnOrders, ClockSound, PendingMarked, Flatness
<1>1. CASE ReadLeft
  BY <1>0, <1>1 DEF ReadLeft, venueVars, procVars, actorVars, sharedVars, otherVars, SendMarked, PendingMarked
<1>2. CASE ReadFailed
  BY <1>0, <1>2 DEF ReadFailed, ReconcileFailed, venueVars, procVars, actorVars, sharedVars, otherVars,
     SendMarked, PendingMarked
<1>3. CASE ReadMismatch
  BY <1>0, <1>3 DEF ReadMismatch, ReconcileFailed, venueVars, procVars, actorVars, sharedVars, otherVars,
     SendMarked, PendingMarked
<1>4. CASE ReadMatch
  <2>1. (due \/ ~checkpoint) /\ drift' = {} => pos = Hedge(led)
    <3>1. pc = "recR" /\ rl = led /\ pos["R"] = -led /\ drift' = drift \ {"R"}
      BY <1>4 DEF ReadMatch
    <3>2. (due \/ ~checkpoint) /\ drift' = {} => pos["L"] = led
      BY <1>0, <3>1
    <3> QED
      BY <3>1, <3>2, HedgeIs DEF TypeOK, VenueTypes, PointTypes
  <2> QED
    BY <1>0, <1>4, <2>1 DEF ReadMatch, venueVars, procVars, actorVars, sharedVars, otherVars, SendMarked,
       PendingMarked
<1>5. CASE Reconciled
  BY <1>0, <1>5 DEF Reconciled, venueVars, procVars, actorVars, sharedVars, otherVars, SendMarked, PendingMarked
<1>6. CASE ReconciledQuarantined
  BY <1>0, <1>6 DEF ReconciledQuarantined, venueVars, procVars, actorVars, sharedVars, otherVars, SendMarked,
     PendingMarked
<1>7. CASE ResolvePending
  BY <1>0, <1>7 DEF ResolvePending, AtLoop, venueVars, procVars, actorVars, sharedVars, otherVars, SendMarked,
     PendingMarked
<1>8. CASE RecoverCheckpoint
  BY <1>0, <1>8 DEF RecoverCheckpoint, AtLoop, WantsExit, venueVars, procVars, actorVars, sharedVars,
     otherVars, SendMarked, PendingMarked
<1>9. CASE RecoverCheckpointExit
  BY <1>0, <1>9 DEF RecoverCheckpointExit, AtLoop, WantsExit, venueVars, procVars, actorVars, sharedVars,
     otherVars, SendMarked, PendingMarked
<1>10. CASE ExitReadLeft
  BY <1>0, <1>10 DEF ExitReadLeft, venueVars, procVars, actorVars, sharedVars, otherVars, SendMarked, PendingMarked
<1>11. CASE ExitReadFailed
  BY <1>0, <1>11 DEF ExitReadFailed, venueVars, procVars, actorVars, sharedVars, otherVars, SendMarked, PendingMarked
<1>12. CASE ExitReadRight
  <2>1. pc' = "saveRelease" => led = 0 /\ due /\ (drift' = {} => pos = Hedge(led))
    <3>1. pc = "exR" /\ drift' = drift \ {"R"} /\ (pc' = "saveRelease" => led = 0 /\ due /\ rl = 0 /\ pos["R"] = 0)
      BY <1>12 DEF ExitReadRight, BeginUnwind
    <3>2. pc' = "saveRelease" /\ drift' = {} => pos["L"] = 0
      BY <1>0, <3>1
    <3> QED
      BY <3>1, <3>2, HedgeIs DEF TypeOK, VenueTypes, PointTypes
  <2>2. pc = "exR" /\ pc' \in {"saveRelease", "saveSend", "loop"} /\ (~checkpoint' => pc' = "saveRelease")
    BY <1>0, <1>12 DEF ExitReadRight, BeginUnwind
  <2>3. pc' = "saveSend" => ex'.kind = "unwind"
    BY <1>12, UnwindEx DEF ExitReadRight
  <2>4. UNCHANGED <<nExt, disk, led, drainConfirmed, drain, rd, retired>>
    BY <1>12 DEF ExitReadRight, otherVars
  <2> QED
    BY <1>0, <2>1, <2>2, <2>3, <2>4
<1>13. CASE Emergency
  BY <1>0, <1>13 DEF Emergency, AtLoop, BeginUnwind, venueVars, procVars, actorVars, sharedVars, otherVars,
     SendMarked, PendingMarked
<1>14. CASE DrainStep
  BY <1>0, <1>14 DEF DrainStep, AtLoop, BeginUnwind, venueVars, procVars, actorVars, sharedVars, otherVars,
     SendMarked, PendingMarked
<1>15. CASE DrainWake
  BY <1>0, <1>15 DEF DrainWake, AtLoop, venueVars, procVars, actorVars, sharedVars, otherVars, SendMarked,
     PendingMarked
<1>16. CASE DecideNone
  BY <1>0, <1>16 DEF DecideNone, Trading, AtLoop, venueVars, procVars, actorVars, sharedVars, otherVars,
     SendMarked, PendingMarked
<1>17. CASE DecideOpen
  BY <1>0, <1>17 DEF DecideOpen, Trading, AtLoop, BeginApply, venueVars, procVars, actorVars, sharedVars,
     otherVars, SendMarked, PendingMarked
<1>18. CASE DecideClose
  BY <1>0, <1>18 DEF DecideClose, Trading, AtLoop, BeginApply, venueVars, procVars, actorVars, sharedVars,
     otherVars, SendMarked, PendingMarked
<1>19. CASE Register
  BY <1>0, <1>19 DEF Register, venueVars, procVars, actorVars, sharedVars, otherVars, SendMarked, PendingMarked
<1>20. CASE Recheck
  BY <1>0, <1>20 DEF Recheck, Chosen, venueVars, procVars, actorVars, sharedVars, otherVars, SendMarked, PendingMarked
<1>21. CASE ExecDecline
  BY <1>0, <1>21 DEF ExecDecline, venueVars, procVars, actorVars, sharedVars, otherVars, SendMarked, PendingMarked
<1>22. CASE ReturnSettled
  <2>1. pos = Hedge(led')
    BY <1>22, HedgeIs DEF ReturnSettled, Booked, Accountable, TypeOK, VenueTypes, Legs
  <2>2. pc = "exec" /\ pc' = "saveDone" /\ UNCHANGED <<nExt, disk, drainConfirmed, drain, rd, retired>>
    BY <1>22 DEF ReturnSettled, AtTarget, otherVars
  <2> QED
    BY <1>0, <2>1, <2>2
<1>23. CASE ReturnMisaccounted
  <2>1. /\ pc = "exec" /\ pc' \in {"saveFail", "loop", "exec"} /\ (checkpoint => checkpoint')
        /\ UNCHANGED <<nExt, disk, led, drainConfirmed, drain, rd, retired>>
    BY <1>23 DEF ReturnMisaccounted, AtTarget, FailSettlement, Stalled, Retried, otherVars
  <2>2. checkpoint'
    BY <1>0, <2>1 DEF SendMarked
  <2> QED
    BY <1>0, <2>1, <2>2
<1>24. CASE ReturnUnresolved
  <2>1. /\ pc = "exec" /\ pc' \in {"saveFail", "loop", "exec"} /\ (checkpoint => checkpoint')
        /\ UNCHANGED <<nExt, disk, led, drainConfirmed, drain, rd, retired>>
    BY <1>24 DEF ReturnUnresolved, AtTarget, FailSettlement, Stalled, Retried, otherVars
  <2>2. checkpoint'
    BY <1>0, <2>1 DEF SendMarked
  <2> QED
    BY <1>0, <2>1, <2>2
<1>25. CASE TerminalsConfirmed
  BY <1>0, <1>25 DEF TerminalsConfirmed, venueVars, procVars, actorVars, sharedVars, otherVars, SendMarked,
     PendingMarked
<1>26. CASE SaveSend
  BY <1>0, <1>26 DEF SaveSend, SaveOK, Image, venueVars, procVars, actorVars, sharedVars, otherVars,
     SendMarked, PendingMarked
<1>27. CASE SaveDone
  BY <1>0, <1>27 DEF SaveDone, SaveOK, Image, venueVars, procVars, actorVars, sharedVars, otherVars,
     SendMarked, PendingMarked
<1>28. CASE SaveFail
  BY <1>0, <1>28 DEF SaveFail, SaveOK, Image, venueVars, procVars, actorVars, sharedVars, otherVars,
     SendMarked, PendingMarked
<1>29. CASE SaveClear
  BY <1>0, <1>29 DEF SaveClear, SaveOK, Image, venueVars, procVars, actorVars, sharedVars, otherVars,
     SendMarked, PendingMarked
<1>30. CASE SaveMark
  BY <1>0, <1>30 DEF SaveMark, SaveOK, Image, venueVars, procVars, actorVars, sharedVars, otherVars,
     SendMarked, PendingMarked
<1>31. CASE SaveRelease
  BY <1>0, <1>31 DEF SaveRelease, SaveOK, Image, venueVars, procVars, actorVars, sharedVars, otherVars,
     SendMarked, PendingMarked
<1>32. CASE SaveErr
  BY <1>0, <1>32 DEF SaveErr, SavePoints, Image, venueVars, procVars, actorVars, sharedVars, otherVars,
     SendMarked, PendingMarked
<1>33. CASE SaveFinal
  BY <1>0, <1>33 DEF SaveFinal, Vanish, SavePoints, Image, venueVars, procVars, actorVars, sharedVars,
     otherVars, SendMarked, PendingMarked
<1>34. CASE Exit
  BY <1>0, <1>34 DEF Exit, venueVars, procVars, actorVars, sharedVars, otherVars, SendMarked, PendingMarked
<1>35. CASE GraceElapses
  BY <1>0, <1>35 DEF GraceElapses, venueVars, procVars, actorVars, sharedVars, otherVars, SendMarked, PendingMarked
<1>36. CASE DrainSet
  BY <1>0, <1>36 DEF DrainSet, venueVars, procVars, actorVars, sharedVars, otherVars, SendMarked, PendingMarked
<1>37. CASE DrainCancel
  BY <1>0, <1>37 DEF DrainCancel, venueVars, procVars, actorVars, sharedVars, otherVars, SendMarked, PendingMarked
<1>38. CASE PickerPoll
  <2>1. DrainedRead[rd + 1] => drainConfirmed
    <3>1. rd = 0 \/ rd > 0
      BY DEF TypeOK, PointTypes
    <3>2. DrainedRead[1] <=> Draining /\ drainConfirmed
      BY DEF DrainedRead
    <3> QED
      BY <1>0, <3>1, <3>2
  <2>2. retired' = retired \/ (rd = 4 /\ drainConfirmed)
    BY <1>38, <2>1 DEF PickerPoll
  <2>3. rd' > 0 => drainConfirmed
    BY <1>38, <2>1 DEF PickerPoll
  <2> QED
    BY <1>0, <1>38, <2>2, <2>3 DEF PickerPoll, venueVars, procVars, actorVars, sharedVars
<1>39. CASE Stop
  BY <1>0, <1>39 DEF Stop, venueVars, procVars, actorVars, sharedVars, otherVars, SendMarked, PendingMarked
<1>40. CASE RiskAssess
  BY <1>0, <1>40 DEF RiskAssess, venueVars, procVars, actorVars, sharedVars, otherVars, SendMarked, PendingMarked
<1>41. CASE RiskTrigger
  BY <1>0, <1>41 DEF RiskTrigger, venueVars, procVars, actorVars, sharedVars, otherVars, SendMarked, PendingMarked
<1>42. CASE RiskCancel
  BY <1>0, <1>42 DEF RiskCancel, venueVars, procVars, actorVars, sharedVars, otherVars, SendMarked, PendingMarked
<1>43. CASE Crash
  BY <1>0, <1>43 DEF Crash, Vanish, SavePoints, Image, venueVars, procVars, actorVars, sharedVars, otherVars,
     SendMarked, PendingMarked
<1> QED
  BY <1>1, <1>2, <1>3, <1>4, <1>5, <1>6, <1>7, <1>8, <1>9, <1>10, <1>11, <1>12, <1>13, <1>14, <1>15, <1>16,
     <1>17, <1>18, <1>19, <1>20, <1>21, <1>22, <1>23, <1>24, <1>25, <1>26, <1>27, <1>28, <1>29, <1>30, <1>31, <1>32,
     <1>33, <1>34, <1>35, <1>36, <1>37, <1>38, <1>39, <1>40, <1>41, <1>42, <1>43 DEF Next, Actor, Environment, Quiet

\* Orders and the start-up recovery, in the same steps.
LEMMA OrdersQuietStep ==
  ASSUME TypeOK, AccountInv, UNCHANGED <<pos, orders, gen>>, Next, Quiet
  PROVE  OrdersProper' /\ OpeningNeedsCleanAccount'
<1>1. OrdersProper'
  BY DEF AccountInv, OrdersProper
<1>2. ~Up' \/ (Up /\ (startupRecovered => startupRecovered'))
  BY DEF Next, Actor, Environment, Quiet, Up, ReadLeft, ReadFailed, ReadMismatch, ReadMatch, ReconcileFailed,
     Reconciled,
         ReconciledQuarantined, ResolvePending, RecoverCheckpoint, RecoverCheckpointExit, ExitReadLeft,
         ExitReadFailed, ExitReadRight, Emergency, DrainStep, DrainWake, DecideNone, DecideOpen, DecideClose,
         Trading, AtLoop, BeginApply, BeginUnwind, Register, Recheck, ExecDecline, ReturnSettled, AtTarget,
         ReturnMisaccounted, ReturnUnresolved, TerminalsConfirmed, SaveSend, SaveDone, SaveFail, SaveClear, SaveMark,
         SaveRelease, SaveOK, SaveErr, SavePoints, SaveFinal, Exit, Vanish, GraceElapses, DrainSet, DrainCancel,
         PickerPoll, Stop, RiskAssess, RiskTrigger, RiskCancel, Crash, actorVars, sharedVars, procVars
<1>3. OldIdle' <=> OldIdle
  BY OrdersKept
<1> QED
  BY <1>1, <1>2, <1>3 DEF AccountInv, OpeningNeedsCleanAccount

\* What is sent: nothing of quantity zero, and openings only into a clean account.
LEMMA SentProper ==
  ASSUME TypeOK, CheckpointInv, AccountInv, ExecSubmit \/ ExecRescue
  PROVE  /\ OrdersProper' /\ OpeningNeedsCleanAccount'
         /\ nExt = 0 => ~drainConfirmed
<1>0. /\ gen \in Gens /\ gen' = gen /\ ex.kind \in Kinds /\ ex.side \in {-1, 0, 1} /\ ex.qty \in Nat
      /\ orders \in [Gens -> [Legs -> Orders]] /\ \A leg \in Legs : pos[leg] \in Int /\ Target[leg] \in Int
  BY TargetType DEF TypeOK, VenueTypes, PointTypes, Executions, ExecSubmit, ExecRescue, procVars
<1>1. Up /\ Up' /\ startupRecovered' = startupRecovered
  BY DEF ExecSubmit, ExecRescue, Up, sharedVars
<1>2. PICK batch \in [Legs -> Orders] :
        /\ orders' = [orders EXCEPT ![gen] = batch]
        /\ \A leg \in Legs : batch[leg].q = 0 => batch[leg] = NoOrder
        /\ \A leg \in Legs : batch[leg].q # 0 /\ ~batch[leg].ro => startupRecovered /\ OldIdle
  <2>1. CASE ExecSubmit
    <3>1. PICK sent \in SUBSET Legs, q \in 1..ex.qty :
            orders' = [orders EXCEPT ![gen] = [leg \in Legs |->
              IF leg \in sent
                THEN [q |-> IF leg = "L" THEN ex.side * q ELSE -ex.side * q, ro |-> ex.kind = "close"]
                ELSE NoOrder]]
      BY <2>1 DEF ExecSubmit
    <3>2. PICK a, b \in Int : a = ex.side * q /\ b = -ex.side * q
      BY <1>0
    <3>3. pc = "submit" /\ ex.kind \notin {"none", "unwind"} /\ ex.side # 0
      BY <2>1 DEF ExecSubmit, AccountInv, Chosen
    <3>4. a # 0 /\ b # 0
      <4>1. ex.side = 1 \/ ex.side = -1
        BY <1>0, <3>3
      <4>2. CASE ex.side = 1
        BY <3>2, <4>2
      <4>3. CASE ex.side = -1
        BY <3>2, <4>3
      <4> QED
        BY <4>1, <4>2, <4>3
    <3>5. PICK close \in BOOLEAN : close = (ex.kind = "close")
      OBVIOUS
    <3>6. PICK batch : batch = [leg \in Legs |->
              IF leg \in sent THEN [q |-> IF leg = "L" THEN a ELSE b, ro |-> close] ELSE NoOrder]
      OBVIOUS
    <3>7. orders' = [orders EXCEPT ![gen] = batch]
      BY <3>1, <3>2, <3>5, <3>6
    <3>8. batch \in [Legs -> Orders] /\ \A leg \in Legs : batch[leg].q = 0 => batch[leg] = NoOrder
      BY <3>4, <3>6 DEF NoOrder, Orders
    <3>9. ~close => startupRecovered /\ OldIdle
      <4>1. ~close => ex.kind = "open"
        BY <1>0, <3>3, <3>5 DEF Kinds
      <4>2. NothingLive
        BY <3>3 DEF AccountInv, Untouched
      <4> QED
        BY <1>0, <3>3, <4>1, <4>2, OrdersSplit DEF AccountInv, RecoveredFirst
    <3>10. \A leg \in Legs : batch[leg].q # 0 /\ ~batch[leg].ro => ~close
      BY <3>6 DEF NoOrder
    <3> QED
      BY <3>7, <3>8, <3>9, <3>10
  <2>2. CASE ExecRescue
    <3>1. PICK d : d = [leg \in Legs |-> Target[leg] - pos[leg]]
      OBVIOUS
    <3>2. \A leg \in Legs : d[leg] \in Int /\ (pos[leg] # Target[leg] => d[leg] # 0)
      BY <1>0, <3>1
    <3>3. PICK sent \in SUBSET {leg \in Legs : pos[leg] # Target[leg]} :
            orders' = [orders EXCEPT ![gen] = [leg \in Legs |->
              IF leg \in sent THEN [q |-> Target[leg] - pos[leg], ro |-> TRUE] ELSE NoOrder]]
      BY <2>2 DEF ExecRescue
    <3>4. PICK batch : batch = [leg \in Legs |-> IF leg \in sent THEN [q |-> d[leg], ro |-> TRUE] ELSE NoOrder]
      OBVIOUS
    <3>5. orders' = [orders EXCEPT ![gen] = batch]
      BY <3>1, <3>3, <3>4
    <3>6. batch \in [Legs -> Orders] /\ \A leg \in Legs : batch[leg].q = 0 => batch[leg] = NoOrder
      BY <3>2, <3>3, <3>4 DEF NoOrder, Orders
    <3>7. \A leg \in Legs : batch[leg].q # 0 => batch[leg].ro
      BY <3>4 DEF NoOrder
    <3> QED
      BY <3>5, <3>6, <3>7
  <2> QED
    BY <2>1, <2>2
<1>3. OrdersProper'
  BY <1>0, <1>2 DEF AccountInv, OrdersProper
<1>4. OpeningNeedsCleanAccount'
  <2>1. orders'[gen'] = batch
    BY <1>0, <1>2
  <2>2. OldIdle' <=> OldIdle
    BY <1>0, <1>2 DEF OldIdle, Idle
  <2> QED
    BY <1>1, <1>2, <2>1, <2>2 DEF OpeningNeedsCleanAccount
<1>5. nExt = 0 => ~drainConfirmed
  <2> SUFFICES ASSUME nExt = 0, drainConfirmed PROVE FALSE
    OBVIOUS
  <2>1. pc # "submit" /\ pos = Flatness
    BY <1>1 DEF AccountInv, DrainSound
  <2>2. Target = Flatness
    BY <2>1, HedgeIs DEF Target, hedgeTargets, Flatness
  <2>3. {leg \in Legs : pos[leg] # Target[leg]} = {}
    BY <2>1, <2>2
  <2>4. ExecRescue
    BY <2>1 DEF ExecSubmit
  <2> QED
    BY <2>3, <2>4 DEF ExecRescue
<1> QED
  BY <1>3, <1>4, <1>5

\* Sending keeps the account's invariant: both marks are up.
LEMMA AccountSend ==
  ASSUME TypeOK, CheckpointInv, CheckpointInv', AccountInv, ExecSubmit \/ ExecRescue
  PROVE  AccountInv'
<1>1. /\ pc \in {"submit", "exec"} /\ pc' = "exec" /\ checkpoint' /\ checkpoint /\ disk' = disk /\ disk.unresolved
      /\ UNCHANGED <<pos, nExt, actorVars, sharedVars, otherVars>> /\ (drift' = drift \/ drift' = {})
  BY DEF ExecSubmit, ExecRescue, CheckpointInv, SendMarked, actorVars
<1>2. OrdersProper' /\ OpeningNeedsCleanAccount' /\ (nExt = 0 => ~drainConfirmed)
  BY SentProper
<1>3. /\ Undisturbed' /\ Unread' /\ SettledUnmarked' /\ ReadsMarked'
      /\ Chosen' /\ SavesSound' /\ RecoveredFirst' /\ StopSeen'
  BY <1>1 DEF AccountInv, Undisturbed, Unread, SettledUnmarked, ReadsMarked, Chosen, SavesSound,
     RecoveredFirst, StopSeen,
              Up, actorVars, sharedVars, otherVars
<1>4. ReadsSound' /\ Untouched' /\ LedgerHeld' /\ FileMatchesAccount'
  BY <1>1 DEF ReadsSound, Untouched, LedgerHeld, FileMatchesAccount
<1>5. DrainSound' /\ ReleasedIsFlat'
  <2>1. ~drainConfirmed' \/ nExt' # 0
    BY <1>1, <1>2 DEF sharedVars
  <2>2. retired => drainConfirmed
    BY <1>1 DEF AccountInv, DrainSound, Up
  <2> QED
    BY <1>1, <2>1, <2>2 DEF AccountInv, DrainSound, ReleasedIsFlat, sharedVars, otherVars, Draining, Up
<1> QED
  BY <1>2, <1>3, <1>4, <1>5 DEF AccountInv

\* An order that ends was live: nothing is concluded from the account while one is.
LEMMA AccountTerminate ==
  ASSUME TypeOK, CheckpointInv, CheckpointInv', AccountInv, VenueTerminate
  PROVE  AccountInv'
<1>0. gen \in Gens /\ orders \in [Gens -> [Legs -> Orders]]
  BY DEF TypeOK, VenueTypes
<1>1. UNCHANGED <<nExt, drift, disk, procVars, pc, actorVars, sharedVars, otherVars>>
  BY DEF VenueTerminate
<1>2. PICK h \in Gens, l \in Legs : orders[h][l].q # 0 /\ orders' = [orders EXCEPT ![h][l] = NoOrder]
  BY DEF VenueTerminate
<1>3. ~NothingLive
  BY <1>2 DEF NothingLive, Idle
<1>4. disk.unresolved /\ (Up => checkpoint)
  BY <1>3 DEF CheckpointInv, LiveOrderIsCheckpointed, MemoryMarked
<1>5. ~(pc \in {"recL", "recR", "recS", "exL", "exR"} /\ due)
  BY <1>0, <1>3, OrdersSplit DEF CheckpointInv, OwnOrders, ClockSound, PendingMarked, Up
<1>6. \A g \in Gens, leg \in Legs : orders'[g][leg] = orders[g][leg] \/ orders'[g][leg] = NoOrder
  BY <1>0, <1>2
<1>7. OrdersProper'
  BY <1>6 DEF AccountInv, OrdersProper
<1>8. OpeningNeedsCleanAccount'
  <2>1. OldIdle => OldIdle'
    <3>1. \A g \in Gens : Idle(g) => Idle(g)'
      BY <1>6 DEF Idle, NoOrder
    <3> QED
      BY <1>1, <3>1 DEF OldIdle, procVars
  <2>2. NoOrder.q = 0
    BY DEF NoOrder
  <2> QED
    BY <1>0, <1>1, <1>6, <2>1, <2>2 DEF AccountInv, OpeningNeedsCleanAccount, Up, procVars, sharedVars
<1>9. /\ Undisturbed' /\ Unread' /\ SettledUnmarked' /\ ReadsMarked'
      /\ Chosen' /\ SavesSound' /\ RecoveredFirst' /\ StopSeen'
  BY <1>1 DEF AccountInv, Undisturbed, Unread, SettledUnmarked, ReadsMarked, Chosen, SavesSound,
     RecoveredFirst, StopSeen,
              Up, Flattening, actorVars, sharedVars, otherVars, procVars
<1>10. ReadsSound' /\ Untouched' /\ LedgerHeld' /\ FileMatchesAccount'
  BY <1>1, <1>3, <1>4, <1>5 DEF AccountInv, ReadsSound, Untouched, LedgerHeld, FileMatchesAccount, Up, actorVars
<1>11. DrainSound' /\ ReleasedIsFlat'
  BY <1>1, <1>3 DEF AccountInv, DrainSound, ReleasedIsFlat, Draining, Up, sharedVars, otherVars
<1> QED
  BY <1>7, <1>8, <1>9, <1>10, <1>11 DEF AccountInv

\* A change from outside is marked, on the leg it is made.
LEMMA AccountExternal ==
  ASSUME TypeOK, CheckpointInv, AccountInv, External
  PROVE  AccountInv'
<1>1. /\ UNCHANGED <<orders, disk, procVars, pc, actorVars, sharedVars, otherVars>>
      /\ nExt' = nExt + 1 /\ nExt' # 0
  BY DEF External, TypeOK, VenueTypes
<1>2. PICK leg \in Legs : drift' = drift \cup {leg} /\ \E d \in {-1, 1} : pos' = [pos EXCEPT ![leg] = @ + d]
  BY DEF External
<1>3. drift' # {} /\ ("L" \notin drift' => "L" \notin drift /\ pos'["L"] = pos["L"])
  BY <1>2 DEF TypeOK, VenueTypes, Legs
<1>4. (NothingLive' <=> NothingLive) /\ (OldIdle' <=> OldIdle)
  BY <1>1, OrdersKept DEF procVars
<1>5. OrdersProper' /\ OpeningNeedsCleanAccount'
  BY <1>1, <1>4 DEF AccountInv, OrdersProper, OpeningNeedsCleanAccount, Up, procVars, sharedVars
<1>6. /\ Undisturbed' /\ Unread' /\ SettledUnmarked' /\ ReadsMarked'
      /\ Chosen' /\ SavesSound' /\ RecoveredFirst' /\ StopSeen'
  BY <1>1 DEF AccountInv, Undisturbed, Unread, SettledUnmarked, ReadsMarked, Chosen, SavesSound,
     RecoveredFirst, StopSeen,
              Up, Flattening, actorVars, sharedVars, otherVars, procVars
<1>7. ReadsSound' /\ Untouched' /\ LedgerHeld' /\ FileMatchesAccount'
  BY <1>1, <1>3, <1>4 DEF AccountInv, ReadsSound, Untouched, LedgerHeld, FileMatchesAccount, actorVars
<1>8. DrainSound' /\ ReleasedIsFlat'
  BY <1>1 DEF AccountInv, DrainSound, ReleasedIsFlat, Draining, Up, sharedVars, otherVars
<1> QED
  BY <1>5, <1>6, <1>7, <1>8 DEF AccountInv

\* A new process knows what the file says and certifies nothing.
LEMMA AccountRestart ==
  ASSUME TypeOK, CheckpointInv, AccountInv, Restart
  PROVE  AccountInv'
<1>1. /\ gen \in Gens /\ gen' \in Gens /\ gen' > gen
      /\ pc' = "recL" /\ led' = disk.led /\ checkpoint' = disk.unresolved /\ disk' = disk
      /\ UNCHANGED <<pos, orders, nExt, drift>>
      /\ startupRecovered' = ~disk.unresolved /\ mode' = "PAUSED"
      /\ ~reconciled' /\ ~settled' /\ ~pending' /\ ~due' /\ ~drainConfirmed' /\ rd' = 0 /\ ~retired'
  BY ConstantsAssumption DEF TypeOK, VenueTypes, Restart, Load, Gens, venueVars
<1>2. NothingLive' <=> NothingLive
  BY <1>1, OrdersKept
<1>3. \A leg \in Legs : orders'[gen'][leg].q = 0
  BY <1>1 DEF CheckpointInv, FutureIdle, Idle
<1>4. OrdersProper' /\ OpeningNeedsCleanAccount'
  BY <1>1, <1>3 DEF AccountInv, OrdersProper, OpeningNeedsCleanAccount
<1>5. /\ Undisturbed' /\ Unread' /\ SettledUnmarked' /\ ReadsMarked'
      /\ Chosen' /\ SavesSound' /\ RecoveredFirst' /\ StopSeen'
  BY <1>1 DEF AccountInv, Undisturbed, Unread, SettledUnmarked, ReadsMarked, Chosen, SavesSound,
     RecoveredFirst, StopSeen
<1>6. FileMatchesAccount'
  BY <1>1, <1>2 DEF AccountInv, FileMatchesAccount
<1>7. ReadsSound' /\ Untouched' /\ LedgerHeld'
  BY <1>1 DEF AccountInv, ReadsSound, Untouched, LedgerHeld, FileMatchesAccount
<1>8. DrainSound' /\ ReleasedIsFlat'
  BY <1>1 DEF DrainSound, ReleasedIsFlat
<1> QED
  BY <1>4, <1>5, <1>6, <1>7, <1>8 DEF AccountInv

LEMMA AccountInit == Init => AccountInv
<1> SUFFICES ASSUME Init PROVE AccountInv
  OBVIOUS
<1>1. pos = Hedge(led) /\ disk.led = led /\ pc = "recL" /\ ~settled /\ ~reconciled /\ ~retired /\ ~drainConfirmed
      /\ rd = 0 /\ drift = {} /\ mode = "PAUSED" /\ ~pending /\ startupRecovered /\ ~due
  BY DEF Init
<1>2. gen \in Gens /\ \A g \in Gens, leg \in Legs : orders[g][leg] = NoOrder
  BY ConstantsAssumption DEF Init, Gens
<1>3. NothingLive /\ NoOrder.q = 0
  BY <1>2 DEF NothingLive, Idle, NoOrder
<1>4. OrdersProper /\ OpeningNeedsCleanAccount
  BY <1>2, <1>3 DEF OrdersProper, OpeningNeedsCleanAccount
<1>5. Undisturbed /\ Unread /\ SettledUnmarked /\ ReadsMarked /\ Chosen /\ SavesSound /\ RecoveredFirst /\ StopSeen
  BY <1>1 DEF Undisturbed, Unread, SettledUnmarked, ReadsMarked, Chosen, SavesSound, RecoveredFirst, StopSeen
<1>6. ReadsSound /\ Untouched /\ LedgerHeld /\ FileMatchesAccount /\ DrainSound /\ ReleasedIsFlat
  BY <1>1, <1>3 DEF ReadsSound, Untouched, LedgerHeld, FileMatchesAccount, DrainSound, ReleasedIsFlat
<1> QED
  BY <1>4, <1>5, <1>6 DEF AccountInv

\* Positions change where an order ends or somebody else trades.
LEMMA PositionsKept ==
  ASSUME Next, Quiet
  PROVE  UNCHANGED <<pos, orders, gen>>
<1>1. UNCHANGED <<orders, gen>>
  BY OrdersGen DEF Quiet
<1>2. UNCHANGED pos
  BY DEF Next, Actor, Environment, Quiet, ReadLeft, ReadFailed, ReadMismatch, ReadMatch, Reconciled,
         ReconciledQuarantined, ResolvePending, RecoverCheckpoint, RecoverCheckpointExit, ExitReadLeft,
         ExitReadFailed, ExitReadRight, Emergency, DrainStep, DrainWake, DecideNone, DecideOpen, DecideClose,
         BeginApply, Register, Recheck, ExecDecline, ReturnSettled, ReturnMisaccounted, ReturnUnresolved,
         TerminalsConfirmed, SaveSend, SaveDone, SaveFail, SaveClear, SaveMark, SaveRelease, SaveErr, SaveFinal, Exit,
         GraceElapses, DrainSet, DrainCancel, PickerPoll, Stop, RiskAssess, RiskTrigger, RiskCancel, Crash, venueVars
<1> QED
  BY <1>1, <1>2

LEMMA AccountStep ==
  ASSUME TypeOK, CheckpointInv, CheckpointInv', AccountInv, Next
  PROVE  AccountInv'
<1>1. CASE ExecSubmit \/ ExecRescue
  BY <1>1, AccountSend
<1>2. CASE VenueTerminate
  BY <1>2, AccountTerminate
<1>3. CASE External
  BY <1>3, AccountExternal
<1>4. CASE Restart
  BY <1>4, AccountRestart
<1>5. CASE Quiet
  <2>1. UNCHANGED <<pos, orders, gen>>
    BY <1>5, PositionsKept
  <2>2. ControlInv'
    BY <1>5, <2>1, ControlQuietStep
  <2>3. HeldInv'
    BY <1>5, <2>1, HeldQuietStep
  <2>4. OrdersProper' /\ OpeningNeedsCleanAccount'
    BY <1>5, <2>1, OrdersQuietStep
  <2> QED
    BY <2>2, <2>3, <2>4 DEF AccountInv, ControlInv, HeldInv
<1> QED
  BY <1>1, <1>2, <1>3, <1>4, <1>5 DEF Quiet

\* The inductive invariant: what memory, file, orders and account have to do with each other.
THEOREM Invariant == Spec => [](TypeOK /\ CheckpointInv /\ AccountInv)
<1>1. Init => TypeOK /\ CheckpointInv /\ AccountInv
  BY TypeInit, CheckpointInit, AccountInit
<1>2. TypeOK /\ CheckpointInv /\ AccountInv /\ [Next]_vars => (TypeOK /\ CheckpointInv /\ AccountInv)'
  <2> SUFFICES ASSUME TypeOK, CheckpointInv, AccountInv, [Next]_vars
               PROVE  (TypeOK /\ CheckpointInv /\ AccountInv)'
    OBVIOUS
  <2>1. CASE Next
    BY <2>1, TypeStep, CheckpointStep, AccountStep
  <2>2. CASE UNCHANGED vars
    <3>1. TypeOK' /\ CheckpointInv'
      BY <2>2, TypeStutter, CheckpointStutter
    <3>2. (NothingLive' <=> NothingLive) /\ (OldIdle' <=> OldIdle)
      BY <2>2, OrdersKept DEF vars, venueVars, procVars
    <3> QED
      BY <2>2, <3>1, <3>2 DEF vars, venueVars, procVars, actorVars, sharedVars, otherVars, AccountInv, OrdersProper,
         Undisturbed, Unread, SettledUnmarked, ReadsMarked, ReadsSound, Chosen, Untouched, LedgerHeld, SavesSound,
         FileMatchesAccount, DrainSound, ReleasedIsFlat, RecoveredFirst, OpeningNeedsCleanAccount, StopSeen, Up,
         Draining, Flattening
  <2> QED
    BY <2>1, <2>2
<1> QED
  BY <1>1, <1>2, PTL DEF Spec

\* A state file without the mark describes the account exactly (persist, checkpoint.go).
THEOREM FileTrue == Spec => []FileMatchesAccount
<1>1. AccountInv => FileMatchesAccount
  BY DEF AccountInv
<1> QED
  BY <1>1, Invariant, PTL

\* An idle, settled actor holds exactly its ledger, hedged, with nothing live (Settled, Busy).
THEOREM SettledHedged == Spec => []SettledMeansHedged
<1>1. CheckpointInv /\ AccountInv => SettledMeansHedged
  BY DEF CheckpointInv, MemoryMarked, AccountInv, SettledUnmarked, LedgerHeld, SettledMeansHedged, Busy, BusyPoints
<1> QED
  BY <1>1, Invariant, PTL

\* Openings are sent after start-up recovery, into an account without orders of the dead.
THEOREM OpeningsClean == Spec => []OpeningNeedsCleanAccount
<1>1. AccountInv => OpeningNeedsCleanAccount
  BY DEF AccountInv
<1> QED
  BY <1>1, Invariant, PTL

\* A slot given back is flat and free of orders (Drained).
THEOREM ReleasedFlat == Spec => []ReleasedIsFlat
<1>1. AccountInv => ReleasedIsFlat
  BY DEF AccountInv
<1> QED
  BY <1>1, Invariant, PTL

\* A drain or an emergency that has returned stops every decision made before it (executionContext, apply).
THEOREM StopBinds == Spec => StopRequestsBind
<1>1. TypeOK /\ CheckpointInv /\ AccountInv /\ [Next]_vars =>
        [(pc = "submit" /\ (drain = "done" \/ (emergency /\ watch = "idle")))
           => orders' = orders \/ pc' = "submit"]_vars
  <2> SUFFICES ASSUME TypeOK, CheckpointInv, AccountInv, Next,
                      pc = "submit", drain = "done" \/ (emergency /\ watch = "idle"), pc' # "submit"
               PROVE  orders' = orders
    OBVIOUS
  <2>1. cancelled
    BY DEF AccountInv, StopSeen
  <2>2. CASE ExecSubmit
    <3>0. gen \in Gens /\ orders \in [Gens -> [Legs -> Orders]]
      BY DEF TypeOK, VenueTypes
    <3>1. orders' = [orders EXCEPT ![gen] = [leg \in Legs |-> NoOrder]]
      BY <2>1, <2>2 DEF ExecSubmit, CtxDone
    <3>2. Idle(gen)
      BY DEF CheckpointInv, OwnOrders, PendingMarked, Up
    <3>3. orders[gen] = [leg \in Legs |-> NoOrder]
      BY <3>0, <3>2 DEF AccountInv, OrdersProper, Idle
    <3> QED
      BY <3>0, <3>1, <3>3
  <2>3. CASE ~ExecSubmit
    <3>1. ~ExecRescue /\ ~Restart
      BY DEF ExecRescue, Restart
    <3>2. ~VenueTerminate
      BY DEF VenueTerminate
    <3> QED
      BY <2>3, <3>1, <3>2, OrdersGen
  <2> QED
    BY <2>2, <2>3
<1> QED
  BY <1>1, Invariant, PTL DEF Spec, StopRequestsBind

----------------------------------------------------------------------------
(* A requested exit *)

\* Every step keeps an exit that is in the file in memory too, until it is released.
LEMMA ExitStep ==
  ASSUME TypeOK, CheckpointInv, AccountInv, ExitInv, Next
  PROVE  ExitInv'
<1> USE DEF ExitInv, Up
<1>0. /\ PendingMarked /\ SendMarked /\ ReadsMarked /\ SavesSound
  BY DEF CheckpointInv, AccountInv
<1>1. CASE ReadLeft
  BY <1>0, <1>1 DEF ReadLeft, SendMarked, ReadsMarked, SavesSound, venueVars, procVars, actorVars, sharedVars, otherVars
<1>2. CASE ReadFailed
  BY <1>0, <1>2 DEF ReadFailed, ReconcileFailed, SendMarked, ReadsMarked, SavesSound, venueVars, procVars, actorVars, sharedVars, otherVars
<1>3. CASE ReadMismatch
  BY <1>0, <1>3 DEF ReadMismatch, ReconcileFailed, SendMarked, ReadsMarked, SavesSound, venueVars, procVars, actorVars, sharedVars, otherVars
<1>4. CASE ReadMatch
  BY <1>0, <1>4 DEF ReadMatch, SendMarked, ReadsMarked, SavesSound, venueVars, procVars, actorVars, sharedVars, otherVars
<1>5. CASE Reconciled
  BY <1>0, <1>5 DEF Reconciled, SendMarked, ReadsMarked, SavesSound, venueVars, procVars, actorVars, sharedVars, otherVars
<1>6. CASE ReconciledQuarantined
  BY <1>0, <1>6 DEF ReconciledQuarantined, SendMarked, ReadsMarked, SavesSound, venueVars, procVars, actorVars, sharedVars, otherVars
<1>7. CASE ResolvePending
  BY <1>0, <1>7 DEF ResolvePending, AtLoop, SendMarked, ReadsMarked, SavesSound, venueVars, procVars, actorVars, sharedVars, otherVars
<1>8. CASE RecoverCheckpoint
  BY <1>0, <1>8 DEF RecoverCheckpoint, AtLoop, WantsExit, SendMarked, ReadsMarked, SavesSound, venueVars, procVars, actorVars, sharedVars, otherVars
<1>9. CASE RecoverCheckpointExit
  BY <1>0, <1>9 DEF RecoverCheckpointExit, AtLoop, WantsExit, SendMarked, ReadsMarked, SavesSound, venueVars, procVars, actorVars, sharedVars, otherVars
<1>10. CASE ExitReadLeft
  BY <1>0, <1>10 DEF ExitReadLeft, SendMarked, ReadsMarked, SavesSound, venueVars, procVars, actorVars, sharedVars, otherVars
<1>11. CASE ExitReadFailed
  BY <1>0, <1>11 DEF ExitReadFailed, SendMarked, ReadsMarked, SavesSound, venueVars, procVars, actorVars, sharedVars, otherVars
<1>12. CASE ExitReadRight
  <2>1. /\ pc = "exR" /\ UNCHANGED <<disk, boot, led>>
        /\ \/ BeginUnwind /\ (exit' <=> exit)
           \/ pc' = "loop" /\ (checkpoint' <=> checkpoint) /\ (exit' <=> exit)
           \/ pc' = "saveRelease" /\ ~checkpoint' /\ ~exit' /\ led = 0
    BY <1>12 DEF ExitReadRight
  <2>2. BeginUnwind => pc' = "saveSend" /\ ex'.kind = "unwind" /\ checkpoint'
    BY UnwindEx DEF BeginUnwind
  <2>3. checkpoint /\ exit
    BY <1>0, <2>1 DEF ReadsMarked
  <2> QED
    BY <2>1, <2>2, <2>3
<1>13. CASE Emergency
  <2>1. pc' = "saveSend" => ex'.kind = "unwind"
    BY <1>13, UnwindEx DEF Emergency, AtLoop
  <2> QED
    BY <1>13, <2>1 DEF Emergency, AtLoop, BeginUnwind, venueVars, procVars, actorVars, sharedVars, otherVars
<1>14. CASE DrainStep
  <2>1. pc' = "saveSend" => ex'.kind = "unwind"
    BY <1>14, UnwindEx DEF DrainStep, AtLoop
  <2> QED
    BY <1>14, <2>1 DEF DrainStep, AtLoop, BeginUnwind, venueVars, procVars, actorVars, sharedVars, otherVars
<1>15. CASE DrainWake
  BY <1>0, <1>15 DEF DrainWake, AtLoop, SendMarked, ReadsMarked, SavesSound, venueVars, procVars, actorVars, sharedVars, otherVars
<1>16. CASE DecideNone
  BY <1>0, <1>16 DEF DecideNone, Trading, AtLoop, SendMarked, ReadsMarked, SavesSound, venueVars, procVars, actorVars, sharedVars, otherVars
<1>17. CASE DecideOpen
  BY <1>17, DecisionEx DEF Trading, AtLoop, venueVars, procVars, actorVars, sharedVars, otherVars
<1>18. CASE DecideClose
  BY <1>18, DecisionEx DEF Trading, AtLoop, venueVars, procVars, actorVars, sharedVars, otherVars
<1>19. CASE Register
  BY <1>0, <1>19 DEF Register, SendMarked, ReadsMarked, SavesSound, venueVars, procVars, actorVars, sharedVars, otherVars
<1>20. CASE Recheck
  BY <1>0, <1>20 DEF Recheck, SendMarked, ReadsMarked, SavesSound, venueVars, procVars, actorVars, sharedVars, otherVars
<1>21. CASE ExecSubmit
  BY <1>0, <1>21 DEF ExecSubmit, SendMarked, ReadsMarked, SavesSound, venueVars, procVars, actorVars, sharedVars, otherVars
<1>22. CASE ExecRescue
  BY <1>0, <1>22 DEF ExecRescue, SendMarked, ReadsMarked, SavesSound, venueVars, procVars, actorVars, sharedVars, otherVars
<1>23. CASE ExecDecline
  BY <1>0, <1>23 DEF ExecDecline, SendMarked, ReadsMarked, SavesSound, venueVars, procVars, actorVars, sharedVars, otherVars
<1>24. CASE ReturnSettled
  BY <1>0, <1>24 DEF ReturnSettled, AtTarget, SendMarked, ReadsMarked, SavesSound, venueVars, procVars, actorVars, sharedVars, otherVars
<1>25. CASE ReturnMisaccounted
  BY <1>0, <1>25 DEF ReturnMisaccounted, AtTarget, FailSettlement, Stalled, Retried, SendMarked, ReadsMarked, SavesSound, venueVars, procVars, actorVars, sharedVars, otherVars
<1>26. CASE ReturnUnresolved
  <2>1. pc = "exec" /\ UNCHANGED <<disk, exit, boot, led>>
    BY <1>26 DEF ReturnUnresolved, FailSettlement, Stalled, Retried
  <2>2. pc' \in {"saveFail", "loop", "exec"} /\ (checkpoint' \/ (checkpoint' <=> checkpoint))
    BY <1>26 DEF ReturnUnresolved, FailSettlement, Stalled, Retried
  <2> QED
    BY <2>1, <2>2
<1>27. CASE TerminalsConfirmed
  BY <1>0, <1>27 DEF TerminalsConfirmed, SendMarked, ReadsMarked, SavesSound, venueVars, procVars, actorVars, sharedVars, otherVars
<1>28. CASE SaveSend
  BY <1>0, <1>28 DEF SaveSend, SaveOK, Image, SendMarked, ReadsMarked, SavesSound, venueVars, procVars, actorVars, sharedVars, otherVars
<1>29. CASE SaveDone
  BY <1>0, <1>29 DEF SaveDone, SaveOK, Image, SendMarked, ReadsMarked, SavesSound, venueVars, procVars, actorVars, sharedVars, otherVars
<1>30. CASE SaveFail
  BY <1>0, <1>30 DEF SaveFail, SaveOK, Image, SendMarked, ReadsMarked, SavesSound, venueVars, procVars, actorVars, sharedVars, otherVars
<1>31. CASE SaveClear
  BY <1>0, <1>31 DEF SaveClear, SaveOK, Image, SendMarked, ReadsMarked, SavesSound, venueVars, procVars, actorVars, sharedVars, otherVars
<1>32. CASE SaveMark
  BY <1>0, <1>32 DEF SaveMark, SaveOK, Image, SendMarked, ReadsMarked, SavesSound, venueVars, procVars, actorVars, sharedVars, otherVars
<1>33. CASE SaveRelease
  BY <1>0, <1>33 DEF SaveRelease, SaveOK, Image, SendMarked, ReadsMarked, SavesSound, venueVars, procVars, actorVars, sharedVars, otherVars
<1>34. CASE SaveErr
  BY <1>0, <1>34 DEF SaveErr, SavePoints, Image, SendMarked, ReadsMarked, SavesSound, venueVars, procVars, actorVars, sharedVars, otherVars
<1>35. CASE SaveFinal
  BY <1>0, <1>35 DEF SaveFinal, Vanish, Image, SendMarked, ReadsMarked, SavesSound, venueVars, procVars, actorVars, sharedVars, otherVars
<1>36. CASE Exit
  BY <1>0, <1>36 DEF Exit, SendMarked, ReadsMarked, SavesSound, venueVars, procVars, actorVars, sharedVars, otherVars
<1>37. CASE VenueTerminate
  BY <1>0, <1>37 DEF VenueTerminate, SendMarked, ReadsMarked, SavesSound, venueVars, procVars, actorVars, sharedVars, otherVars
<1>38. CASE External
  BY <1>0, <1>38 DEF External, SendMarked, ReadsMarked, SavesSound, venueVars, procVars, actorVars, sharedVars, otherVars
<1>39. CASE GraceElapses
  BY <1>0, <1>39 DEF GraceElapses, SendMarked, ReadsMarked, SavesSound, venueVars, procVars, actorVars, sharedVars, otherVars
<1>40. CASE DrainSet
  BY <1>0, <1>40 DEF DrainSet, SendMarked, ReadsMarked, SavesSound, venueVars, procVars, actorVars, sharedVars, otherVars
<1>41. CASE DrainCancel
  BY <1>0, <1>41 DEF DrainCancel, SendMarked, ReadsMarked, SavesSound, venueVars, procVars, actorVars, sharedVars, otherVars
<1>42. CASE PickerPoll
  BY <1>0, <1>42 DEF PickerPoll, SendMarked, ReadsMarked, SavesSound, venueVars, procVars, actorVars, sharedVars, otherVars
<1>43. CASE Stop
  BY <1>0, <1>43 DEF Stop, SendMarked, ReadsMarked, SavesSound, venueVars, procVars, actorVars, sharedVars, otherVars
<1>44. CASE RiskAssess
  BY <1>0, <1>44 DEF RiskAssess, SendMarked, ReadsMarked, SavesSound, venueVars, procVars, actorVars, sharedVars, otherVars
<1>45. CASE RiskTrigger
  BY <1>0, <1>45 DEF RiskTrigger, SendMarked, ReadsMarked, SavesSound, venueVars, procVars, actorVars, sharedVars, otherVars
<1>46. CASE RiskCancel
  BY <1>0, <1>46 DEF RiskCancel, SendMarked, ReadsMarked, SavesSound, venueVars, procVars, actorVars, sharedVars, otherVars
<1>47. CASE Crash
  BY <1>0, <1>47 DEF Crash, Vanish, SavePoints, Image, SendMarked, ReadsMarked, SavesSound, venueVars, procVars, actorVars, sharedVars, otherVars
<1>48. CASE Restart
  BY <1>0, <1>48 DEF Restart, Load, SendMarked, ReadsMarked, SavesSound, venueVars, procVars, actorVars, sharedVars, otherVars
<1> QED
  BY <1>1, <1>2, <1>3, <1>4, <1>5, <1>6, <1>7, <1>8, <1>9, <1>10, <1>11, <1>12, <1>13, <1>14, <1>15, <1>16, <1>17, <1>18, <1>19, <1>20, <1>21, <1>22, <1>23, <1>24, <1>25, <1>26, <1>27, <1>28, <1>29, <1>30, <1>31, <1>32, <1>33, <1>34, <1>35, <1>36, <1>37, <1>38, <1>39, <1>40, <1>41, <1>42, <1>43, <1>44, <1>45, <1>46, <1>47, <1>48 DEF Next, Actor, Environment

\* The inductive invariant of the actor, with that of a requested exit.
LEMMA ExitInvariant == Spec => [](TypeOK /\ CheckpointInv /\ AccountInv /\ ExitInv)
<1>1. Init => ExitInv
  BY DEF Init, ExitInv, Up
<1>2. TypeOK /\ CheckpointInv /\ AccountInv /\ ExitInv /\ [Next]_vars => ExitInv'
  <2>1. ASSUME ExitInv, UNCHANGED vars PROVE ExitInv'
    BY <2>1 DEF ExitInv, Up, vars, procVars, actorVars
  <2> QED
    BY <2>1, ExitStep
<1> QED
  BY <1>1, <1>2, Invariant, PTL DEF Spec

\* The exit leaves the file by a save of a memory without it.
LEMMA ExitLeaves ==
  ASSUME Next, disk' # disk
  PROVE  Up /\ disk' = Image
  BY DEF Next, Actor, Environment, Up, SavePoints, SaveOK,
         ReadLeft, ReadFailed, ReadMismatch, ReadMatch, Reconciled,
         ReconciledQuarantined, ResolvePending, RecoverCheckpoint, RecoverCheckpointExit, ExitReadLeft,
         ExitReadFailed, ExitReadRight, Emergency, DrainStep, DrainWake, DecideNone, DecideOpen, DecideClose,
         BeginApply, Register, Recheck, ExecSubmit, ExecRescue, ExecDecline, ReturnSettled, ReturnMisaccounted,
         ReturnUnresolved, TerminalsConfirmed, SaveSend, SaveDone, SaveFail, SaveClear, SaveMark, SaveRelease,
         SaveErr, SaveFinal, Exit, VenueTerminate, External, GraceElapses, DrainSet, DrainCancel, PickerPoll,
         Stop, RiskAssess, RiskTrigger, RiskCancel, Crash, Restart

\* An exit that was asked for survives crashes and restarts until it is carried through, and nothing is
\* opened before (recoverCheckpointExit, completeExecutionCheckpoint, NewPairActor).
THEOREM ExitKept == Spec => ExitSurvives
<1>1. TypeOK /\ CheckpointInv /\ AccountInv /\ ExitInv /\ [Next]_vars =>
        [disk.exit =>
           /\ ~disk'.exit /\ nExt = 0 => pos = Flatness /\ NothingLive
           /\ \A g \in Gens, leg \in Legs :
                orders[g][leg].q = 0 /\ orders'[g][leg].q # 0 => orders'[g][leg].ro]_vars
  <2> SUFFICES ASSUME TypeOK, CheckpointInv, AccountInv, ExitInv, Next, disk.exit
               PROVE  /\ ~disk'.exit /\ nExt = 0 => pos = Flatness /\ NothingLive
                      /\ \A g \in Gens, leg \in Legs :
                           orders[g][leg].q = 0 /\ orders'[g][leg].q # 0 => orders'[g][leg].ro
    OBVIOUS
  <2>1. ASSUME ~disk'.exit, nExt = 0 PROVE pos = Flatness /\ NothingLive
    <3>1. Up /\ ~exit
      BY <2>1, ExitLeaves DEF Image
    <3>2. ~checkpoint /\ led = 0
      BY <3>1 DEF ExitInv
    <3> QED
      BY <2>1, <3>1, <3>2 DEF AccountInv, LedgerHeld, CheckpointInv, MemoryMarked, Flatness
  <2>2. ASSUME NEW g \in Gens, NEW leg \in Legs, orders[g][leg].q = 0, orders'[g][leg].q # 0
        PROVE  orders'[g][leg].ro
    <3>0. gen \in Gens /\ orders \in [Gens -> [Legs -> Orders]] /\ NoOrder.q = 0
      BY DEF TypeOK, VenueTypes, NoOrder
    <3>1. CASE ExecSubmit
      <4>1. ex.kind = "close"
        <5>1. pc = "submit" /\ ex.kind \in {"open", "close"}
          BY <3>1 DEF ExecSubmit, AccountInv, Chosen, TypeOK, PointTypes, Executions, Kinds
        <5> QED
          BY <5>1 DEF ExitInv, Up
      <4>2. PICK sent \in SUBSET Legs, q \in 1..ex.qty :
              orders' = [orders EXCEPT ![gen] = [l \in Legs |->
                IF l \in sent THEN [q |-> IF l = "L" THEN ex.side * q ELSE -ex.side * q, ro |-> ex.kind = "close"]
                ELSE NoOrder]]
        BY <3>1 DEF ExecSubmit
      <4>3. orders'[g][leg] = NoOrder \/ orders'[g][leg].ro = (ex.kind = "close")
        BY <2>2, <3>0, <4>2
      <4> QED
        BY <2>2, <3>0, <4>1, <4>3
    <3>2. CASE ExecRescue
      <4>1. PICK sent \in SUBSET Legs :
              orders' = [orders EXCEPT ![gen] = [l \in Legs |->
                IF l \in sent THEN [q |-> Target[l] - pos[l], ro |-> TRUE] ELSE NoOrder]]
        BY <3>2 DEF ExecRescue
      <4> QED
        BY <2>2, <3>0, <4>1
    <3>3. CASE VenueTerminate
      <4>1. PICK h \in Gens, l \in Legs : orders' = [orders EXCEPT ![h][l] = NoOrder]
        BY <3>3 DEF VenueTerminate
      <4> QED
        BY <2>2, <3>0, <4>1
    <3>4. CASE ~(ExecSubmit \/ ExecRescue \/ VenueTerminate)
      <4>1. orders' = orders
        BY <3>4, OrdersGen DEF Restart, venueVars
      <4> QED
        BY <2>2, <4>1
    <3> QED
      BY <3>1, <3>2, <3>3, <3>4
  <2> QED
    BY <2>1, <2>2
<1> QED
  BY <1>1, ExitInvariant, PTL DEF Spec, ExitSurvives
=============================================================================

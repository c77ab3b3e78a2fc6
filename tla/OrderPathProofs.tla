--------------------------- MODULE OrderPathProofs ---------------------------
(* Theorems about OrderPath, for every value of its constants. *)
EXTENDS OrderPath, TLAPS

-----------------------------------------------------------------------------
(* Type correctness *)

\* A report of a status and a fill.
LEMMA ReportTypes ==
  /\ None \in Report /\ None.status = "none" /\ None.fill = 0
  /\ Unsent.status = "unsent" /\ Unsent # None /\ Unsent \notin Report
  /\ \A s \in {"none", "open", "filled", "canceled"}, k \in 0..Qty :
       [status |-> s, fill |-> k] \in Report
  /\ \A r \in Report : r.status \in {"none", "open", "filled", "canceled"} /\ r.fill \in 0..Qty
                       /\ r = [status |-> r.status, fill |-> r.fill]
  BY PathAssumption DEF Report, None, Unsent, Ended

Controls == {"new", "lock", "nonce", "sign", "reply", "wait", "active", "inactive", "pause", "done"}

\* A call that ends, or goes on elsewhere, keeps the types of what it changes.
LEMMA FinishType ==
  ASSUME TypeOK, NEW c \in Calls, NEW r \in Report \cup {Unsent}, Finish(c, r)
  PROVE  /\ pc' \in [Calls -> Controls] /\ result' \in [Calls -> Report \cup {Unsent}]
         /\ watch' \in [Calls -> {"none", "open", "closed"}] /\ held' \in [Calls -> Report]
  BY ReportTypes DEF Finish, TypeOK, Controls

LEMMA GotoType ==
  ASSUME TypeOK, NEW c \in Calls, NEW l \in Controls, Goto(c, l)
  PROVE  /\ pc' \in [Calls -> Controls] /\ result' \in [Calls -> Report \cup {Unsent}]
         /\ watch' \in [Calls -> {"none", "open", "closed"}] /\ held' \in [Calls -> Report]
  BY DEF Goto, trackVars, TypeOK, Controls

LEMMA AwaitType ==
  ASSUME TypeOK, NEW c \in Calls, Await(c)
  PROVE  /\ pc' \in [Calls -> Controls] /\ result' \in [Calls -> Report \cup {Unsent}]
         /\ watch' \in [Calls -> {"none", "open", "closed"}] /\ held' \in [Calls -> Report]
<1>1. CASE c \in Orders
  BY <1>1, GotoType DEF Await, Controls
<1>2. CASE c \notin Orders
  BY <1>2, FinishType, ReportTypes DEF Await
<1> QED
  BY <1>1, <1>2

\* What the venue sends is a report.
LEMMA EmitType ==
  ASSUME TypeOK, NEW c \in Orders, NEW o \in Report, o.status # "none", Emit(c, o)
  PROVE  reports' \subseteq [call : Orders, status : {"open"} \cup Ended, fill : 0..Qty]
<1>1. o.status \in {"open"} \cup Ended /\ o.fill \in 0..Qty
  BY ReportTypes DEF Ended
<1> DEFINE T == [call : Orders, status : {"open"} \cup Ended, fill : 0..Qty]
<1>2. PICK m : m = [call |-> c, status |-> o.status, fill |-> o.fill]
  OBVIOUS
<1>3. m \in T
  BY <1>1, <1>2
<1>4. reports \subseteq T
  BY DEF TypeOK
<1>5. reports' = reports \/ reports' = reports \cup {m}
  BY <1>2 DEF Emit
<1> HIDE DEF T
<1>6. reports' \subseteq T
  BY <1>3, <1>4, <1>5
<1> QED
  BY <1>6 DEF T

LEMMA PreferredType ==
  ASSUME NEW old \in Report, NEW new \in Report
  PROVE  Preferred(old, new) \in {old, new}
  BY DEF Preferred

LEMMA TypeInit == Init => TypeOK
<1> SUFFICES ASSUME Init PROVE TypeOK
  OBVIOUS
<1> USE PathAssumption, ReportTypes DEF Init
<1>1. ord \in [Orders -> Report] /\ reports = {}
  OBVIOUS
<1>2. held \in [Calls -> Report] /\ result \in [Calls -> Report \cup {Unsent}]
  OBVIOUS
<1>3. tries \in [Orders -> 0..Retries] /\ again \in [Orders -> 0..MaxAgain]
  OBVIOUS
<1>4. unknowns \in 0..MaxUnknown
  OBVIOUS
<1> QED
  BY <1>1, <1>2, <1>3, <1>4 DEF TypeOK

\* Calls whose rounds are not used up; needed to bound the rounds.
RoundsLeft == \A c \in Orders : pc[c] # "done" => tries[c] < Retries

LEMMA TypeStep ==
  ASSUME TypeOK, RoundsLeft, [Next]_vars
  PROVE  TypeOK'
<1> USE PathAssumption
<1>0. Orders \subseteq Calls
  BY DEF Calls
<1>1. ASSUME NEW c \in Calls, Start(c) PROVE TypeOK'
  BY <1>1 DEF Start, Watch, TypeOK, sendVars, venueVars, callVars, endVars, trackVars
<1>2. ASSUME NEW c \in Calls, lockSend(c) PROVE TypeOK'
  <2>1. /\ pc' \in [Calls -> Controls] /\ result' \in [Calls -> Report \cup {Unsent}]
        /\ watch' \in [Calls -> {"none", "open", "closed"}] /\ held' \in [Calls -> Report]
    BY <1>2, GotoType DEF lockSend, Controls
  <2> QED
    BY <1>2, <2>1 DEF lockSend, TypeOK, Controls, venueVars, endVars
<1>3. ASSUME NEW c \in Calls, take(c) PROVE TypeOK'
  <2>1. /\ pc' \in [Calls -> Controls] /\ result' \in [Calls -> Report \cup {Unsent}]
        /\ watch' \in [Calls -> {"none", "open", "closed"}] /\ held' \in [Calls -> Report]
    BY <1>3, GotoType DEF take, Controls
  <2>2. PICK n \in Nat : nonce' = [nonce EXCEPT ![c] = n] /\ next' = n + 1 /\ valid' = TRUE
    BY <1>3 DEF take, TypeOK
  <2>3. nonce' \in [Calls -> Nat] /\ next' \in Nat /\ valid' \in BOOLEAN
    BY <2>2 DEF TypeOK
  <2> QED
    BY <1>3, <2>1, <2>3 DEF take, TypeOK, Controls, venueVars, endVars
<1>4. ASSUME NEW c \in Calls, takeFails(c) \/ signFails(c) \/ Refuse(c) PROVE TypeOK'
  <2>1. Finish(c, Unsent)
    BY <1>4 DEF takeFails, signFails, Refuse
  <2>2. /\ pc' \in [Calls -> Controls] /\ result' \in [Calls -> Report \cup {Unsent}]
        /\ watch' \in [Calls -> {"none", "open", "closed"}] /\ held' \in [Calls -> Report]
    BY <2>1, FinishType
  <2> QED
    BY <1>4, <2>2 DEF takeFails, signFails, Refuse, Dropped, TypeOK, Controls, sendVars, venueVars, endVars
<1>5. ASSUME NEW c \in Calls, sendTx(c) PROVE TypeOK'
  <2>1. /\ pc' \in [Calls -> Controls] /\ result' \in [Calls -> Report \cup {Unsent}]
        /\ watch' \in [Calls -> {"none", "open", "closed"}] /\ held' \in [Calls -> Report]
    BY <1>5, GotoType DEF sendTx, Controls
  <2> QED
    BY <1>5, <2>1 DEF sendTx, TypeOK, Controls, sendVars
<1>6. ASSUME NEW c \in Calls, Reply(c) \/ Unknown(c) PROVE TypeOK'
  <2>1. Await(c)
    BY <1>6 DEF Reply, Unknown, Unclear
  <2>2. /\ pc' \in [Calls -> Controls] /\ result' \in [Calls -> Report \cup {Unsent}]
        /\ watch' \in [Calls -> {"none", "open", "closed"}] /\ held' \in [Calls -> Report]
    BY <2>1, AwaitType
  <2>3. unknowns' \in 0..MaxUnknown
    BY <1>6 DEF Reply, Unknown, TypeOK, endVars
  <2>4. lock' \in SUBSET Calls /\ valid' \in BOOLEAN /\ next' = next /\ nonce' = nonce
        /\ UNCHANGED <<venueVars, reports, tries, again, stopped>>
    BY <1>6 DEF Reply, Unknown, TypeOK, endVars
  <2> QED
    BY <2>2, <2>3, <2>4 DEF Reply, Unknown, TypeOK, Controls, venueVars, endVars
<1>7. ASSUME NEW c \in Calls, Arrive(c) PROVE TypeOK'
  <2>1. CASE nonce[c] = account /\ c \in Orders
    <3>1. ord' = [ord EXCEPT ![c] = [status |-> "open", fill |-> 0]] /\ Emit(c, ord'[c])
      BY <1>7, <2>1 DEF Arrive
    <3>2. ord' \in [Orders -> Report] /\ ord'[c] \in Report /\ ord'[c].status # "none"
      BY <2>1, <3>1, ReportTypes DEF TypeOK
    <3>3. reports' \subseteq [call : Orders, status : {"open"} \cup Ended, fill : 0..Qty]
      BY <2>1, <3>1, <3>2, EmitType
    <3> QED
      BY <1>7, <2>1, <3>2, <3>3 DEF Arrive, TypeOK, sendVars, trackVars, callVars, endVars
  <2>2. CASE ~(nonce[c] = account /\ c \in Orders)
    BY <1>7, <2>2 DEF Arrive, TypeOK, sendVars, trackVars, callVars, endVars
  <2> QED
    BY <2>1, <2>2
<1>8. ASSUME NEW c \in Orders, Match(c) \/ End(c) PROVE TypeOK'
  <2>1. ord[c] \in Report /\ ord[c].fill \in 0..Qty
    BY ReportTypes DEF TypeOK
  <2>2. \E s \in {"open", "filled", "canceled"}, k \in 0..Qty :
          ord' = [ord EXCEPT ![c] = [status |-> s, fill |-> k]] /\ Emit(c, ord'[c])
    <3>1. CASE Match(c)
      <4>1. ord' = [ord EXCEPT ![c] = [status |-> "open", fill |-> ord[c].fill + 1]]
            /\ Emit(c, ord'[c]) /\ ord[c].fill + 1 \in 0..Qty
        BY <2>1, <3>1 DEF Match
      <4> QED
        BY <4>1
    <3>2. CASE End(c)
      <4>1. ord' = [ord EXCEPT ![c] =
                     [status |-> IF ord[c].fill = Qty THEN "filled" ELSE "canceled", fill |-> ord[c].fill]]
            /\ Emit(c, ord'[c])
        BY <3>2 DEF End
      <4> QED
        BY <2>1, <4>1
    <3> QED
      BY <1>8, <3>1, <3>2
  <2>3. PICK s \in {"open", "filled", "canceled"}, k \in 0..Qty :
          ord' = [ord EXCEPT ![c] = [status |-> s, fill |-> k]] /\ Emit(c, ord'[c])
    BY <2>2
  <2>4. ord' \in [Orders -> Report] /\ ord'[c] \in Report /\ ord'[c].status # "none"
    BY <2>3, ReportTypes DEF TypeOK
  <2>5. reports' \subseteq [call : Orders, status : {"open"} \cup Ended, fill : 0..Qty]
    BY <2>3, <2>4, EmitType
  <2> QED
    BY <1>8, <2>4, <2>5 DEF Match, End, TypeOK, sendVars, trackVars, callVars, endVars
<1>9. ASSUME NEW r \in reports, dispatch(r) PROVE TypeOK'
  <2>1. r.call \in Orders /\ r.status \in {"open"} \cup Ended /\ r.fill \in 0..Qty
    BY DEF TypeOK
  <2>2. held[r.call] \in Report /\ [status |-> r.status, fill |-> r.fill] \in Report
    BY <1>0, <2>1, ReportTypes DEF TypeOK, Ended
  <2>3. held' \in [Calls -> Report]
    <3>1. Preferred(held[r.call], [status |-> r.status, fill |-> r.fill]) \in Report
      BY <2>2, PreferredType
    <3> QED
      BY <1>9, <3>1 DEF dispatch, TypeOK
  <2> QED
    BY <1>9, <2>3 DEF dispatch, TypeOK, sendVars, venueVars, callVars, endVars
<1>10. CASE stopVenue
  BY <1>10 DEF stopVenue, TypeOK, sendVars, venueVars, callVars
<1>11. ASSUME NEW c \in Orders, Hear(c) PROVE TypeOK'
  <2>1. CASE held[c].status \in Ended
    <3>1. Finish(c, held[c]) /\ held[c] \in Report
      BY <1>0, <1>11, <2>1 DEF Hear, Resolve, TypeOK
    <3>2. /\ pc' \in [Calls -> Controls] /\ result' \in [Calls -> Report \cup {Unsent}]
          /\ watch' \in [Calls -> {"none", "open", "closed"}] /\ held' \in [Calls -> Report]
      BY <1>0, <3>1, FinishType
    <3> QED
      BY <1>11, <2>1, <3>2 DEF Hear, Resolve, TypeOK, Controls, sendVars, venueVars, endVars
  <2>2. CASE held[c].status \notin Ended
    <3>1. held' \in [Calls -> Report] /\ result' = result /\ again' = again
          /\ UNCHANGED <<sendVars, venueVars, reports, endVars>>
      BY <1>0, <1>11, <2>2, ReportTypes DEF Hear, TypeOK
    <3>2. tries[c] < Retries /\ tries[c] \in Nat
      BY <1>11 DEF Hear, RoundsLeft, TypeOK
    <3>3. tries' \in [Orders -> 0..Retries]
      BY <1>11, <2>2, <3>2 DEF Hear, TypeOK
    <3>4. pc' \in [Calls -> Controls] /\ watch' \in [Calls -> {"none", "open", "closed"}]
      BY <1>0, <1>11, <2>2 DEF Hear, TypeOK, Controls
    <3> QED
      BY <3>1, <3>3, <3>4 DEF TypeOK, Controls, sendVars, venueVars, endVars
  <2> QED
    BY <2>1, <2>2
<1>12. ASSUME NEW c \in Orders, Timeout(c) PROVE TypeOK'
  <2>1. Goto(c, "active") \/ Finish(c, None)
    BY <1>12 DEF Timeout, NextTry
  <2>2. /\ pc' \in [Calls -> Controls] /\ result' \in [Calls -> Report \cup {Unsent}]
        /\ watch' \in [Calls -> {"none", "open", "closed"}] /\ held' \in [Calls -> Report]
    BY <1>0, <2>1, FinishType, GotoType, ReportTypes DEF Controls
  <2>3. tries[c] < Retries /\ tries[c] \in Nat
    BY <1>12 DEF Timeout, RoundsLeft, TypeOK
  <2>4. tries' \in [Orders -> 0..Retries] /\ again' = again
    BY <1>12, <2>3 DEF Timeout, NextTry, TypeOK
  <2> QED
    BY <1>12, <2>2, <2>4 DEF Timeout, TypeOK, Controls, sendVars, venueVars, endVars
<1>13. ASSUME NEW c \in Orders, QueryActive(c) \/ QueryInactive(c) \/ QueryFails(c) \/ Abandon(c)
       PROVE  TypeOK'
  <2>1. \/ Goto(c, "pause") \/ Goto(c, "inactive") \/ Finish(c, ord[c]) \/ Finish(c, None)
    BY <1>13, ReportTypes DEF QueryActive, QueryInactive, QueryFails, Abandon, NotFound, Resolve, Ended
  <2>2. ord[c] \in Report
    BY DEF TypeOK
  <2>3. /\ pc' \in [Calls -> Controls] /\ result' \in [Calls -> Report \cup {Unsent}]
        /\ watch' \in [Calls -> {"none", "open", "closed"}] /\ held' \in [Calls -> Report]
    BY <1>0, <2>1, <2>2, FinishType, GotoType, ReportTypes DEF Controls
  <2>4. UNCHANGED <<tries, again, sendVars, venueVars, reports, endVars>>
    BY <1>13 DEF QueryActive, QueryInactive, QueryFails, Abandon, Resolve
  <2> QED
    BY <2>3, <2>4 DEF TypeOK, Controls, sendVars, venueVars, endVars
<1>14. ASSUME NEW c \in Orders, queryExisting(c) PROVE TypeOK'
  BY <1>0, <1>14 DEF queryExisting, Watch, FreshTries, TypeOK, sendVars, venueVars
<1>15. CASE UNCHANGED vars
  BY <1>15 DEF vars, TypeOK, sendVars, venueVars, trackVars, callVars, endVars
<1> QED
  BY <1>1, <1>2, <1>3, <1>4, <1>5, <1>6, <1>7, <1>8, <1>9, <1>10, <1>11, <1>12, <1>13, <1>14, <1>15
     DEF Next, Sending, Waiting

-----------------------------------------------------------------------------
(* The lock *)

Inside == {"nonce", "sign", "reply"}

\* A step that moves one call keeps the lock with the calls inside.
LEMMA OneMoves ==
  ASSUME TypeOK, Locked, NEW c \in Calls, NEW l \in Controls, pc' = [pc EXCEPT ![c] = l],
         \/ lock' = lock \cup {c} /\ lock = {} /\ l \in Inside
         \/ lock' = lock \ {c} /\ l \notin Inside
         \/ lock' = lock /\ (l \in Inside <=> pc[c] \in Inside)
  PROVE  Locked'
<1>1. \A d \in Calls : pc'[d] = IF d = c THEN l ELSE pc[d]
  BY DEF TypeOK
<1>2. \A d \in Calls : d \in lock' <=> pc'[d] \in Inside
  BY <1>1 DEF Locked, Inside
<1>3. \A d, e \in lock' : d = e
  BY DEF Locked
<1> QED
  BY <1>2, <1>3 DEF Locked, Inside

LEMMA LockedStep ==
  ASSUME TypeOK, Locked, [Next]_vars
  PROVE  Locked'
<1>0. Orders \subseteq Calls
  BY DEF Calls
<1>1. ASSUME NEW c \in Calls, Sending(c) \/ Refuse(c) PROVE Locked'
  <2>1. \E l \in Controls :
          /\ pc' = [pc EXCEPT ![c] = l]
          /\ \/ lock' = lock \cup {c} /\ lock = {} /\ l \in Inside
             \/ lock' = lock \ {c} /\ l \notin Inside
             \/ lock' = lock /\ (l \in Inside <=> pc[c] \in Inside)
    BY <1>1 DEF Sending, Start, Refuse, lockSend, LockFree, take, takeFails, signFails, sendTx, Reply, Unknown,
                Unclear, Await, Goto, Finish, Controls, Inside, sendVars
  <2> QED
    BY <2>1, OneMoves
<1>2. ASSUME NEW c \in Orders, Waiting(c) \/ Abandon(c) \/ queryExisting(c) PROVE Locked'
  <2>1. lock' = lock
    BY <1>2 DEF Waiting, Hear, Timeout, QueryActive, QueryInactive, QueryFails, Abandon, queryExisting, sendVars
  <2>2. pc[c] \in {"wait", "active", "inactive", "pause", "done"}
    BY <1>2 DEF Waiting, Hear, Timeout, QueryActive, QueryInactive, QueryFails, Abandon, queryExisting
  <2>3. pc' = pc \/ \E l \in {"active", "inactive", "pause", "done"} : pc' = [pc EXCEPT ![c] = l]
    BY <1>2 DEF Waiting, Hear, Timeout, QueryActive, QueryInactive, QueryFails, Abandon, queryExisting,
                Resolve, NextTry, Goto, Finish
  <2>4. CASE pc' = pc
    BY <2>1, <2>4 DEF Locked
  <2>5. ASSUME NEW l \in {"active", "inactive", "pause", "done"}, pc' = [pc EXCEPT ![c] = l] PROVE Locked'
    <3>1. l \in Controls /\ l \notin Inside /\ pc[c] \notin Inside
      BY <2>2 DEF Controls, Inside
    <3> QED
      BY <1>0, <2>1, <2>5, <3>1, OneMoves
  <2> QED
    BY <2>3, <2>4, <2>5
<1>3. CASE UNCHANGED <<pc, lock>>
  BY <1>3 DEF Locked
<1>4. ASSUME \/ \E c \in Calls : Arrive(c)
             \/ \E c \in Orders : Match(c) \/ End(c)
             \/ \E r \in reports : dispatch(r)
             \/ stopVenue \/ UNCHANGED vars
      PROVE  UNCHANGED <<pc, lock>>
  BY <1>4 DEF Arrive, Match, End, dispatch, stopVenue, vars, sendVars
<1> QED
  BY <1>1, <1>2, <1>3, <1>4 DEF Next

-----------------------------------------------------------------------------
(* What is said of an order *)

\* The three parts of ToldIsTrue.
ToldCalls ==
  \A c \in Calls :
    /\ pc[c] \in {"new", "lock", "nonce", "sign"} => tx[c] = "none"
    /\ pc[c] # "done" => result[c] = None
    /\ result[c] = Unsent => tx[c] = "none"
ToldOrders ==
  \A c \in Orders :
    /\ tx[c] # "accepted" => ord[c] = None
    /\ held[c].status \in Ended => held[c] = ord[c]
    /\ result[c].status \in Ended => result[c] = ord[c]
    /\ pc[c] # "done" => tries[c] < Retries
ToldReports == \A r \in reports : r.status \in Ended => ord[r.call] = [status |-> r.status, fill |-> r.fill]

LEMMA ToldParts ==
  /\ ToldIsTrue <=> ToldCalls /\ ToldOrders /\ ToldReports
  /\ ToldIsTrue' <=> ToldCalls' /\ ToldOrders' /\ ToldReports'
  BY DEF ToldIsTrue, ToldCalls, ToldOrders, ToldReports

LEMMA EndedNotNone == None.status \notin Ended /\ Unsent.status \notin Ended /\ Unsent # None
  BY ReportTypes DEF Ended

\* A step of a call, or of the tracker for it, that leaves the venue and the reports alone.
LEMMA ToldByCall ==
  ASSUME TypeOK, TypeOK', ToldIsTrue, NEW c \in Calls,
         UNCHANGED <<venueVars, reports>>,
         \A d \in Calls \ {c} : pc'[d] = pc[d] /\ result'[d] = result[d] /\ held'[d] = held[d],
         \A d \in Orders \ {c} : tries'[d] = tries[d],
         pc'[c] \in {"new", "lock", "nonce", "sign"} => pc[c] \in {"new", "lock", "nonce", "sign"},
         pc'[c] # "done" => result'[c] = None,
         result'[c] = Unsent => tx[c] = "none",
         c \in Orders =>
           /\ held'[c].status \in Ended => held'[c] = ord[c]
           /\ result'[c].status \in Ended => result'[c] = ord[c]
           /\ pc'[c] # "done" => tries'[c] < Retries
  PROVE  ToldIsTrue'
<1>1. ToldCalls'
  BY DEF ToldIsTrue, ToldCalls, venueVars
<1>2. ToldOrders'
  BY DEF ToldIsTrue, ToldOrders, venueVars, Calls
<1>3. ToldReports'
  BY DEF ToldIsTrue, ToldReports, venueVars
<1> QED
  BY <1>1, <1>2, <1>3, ToldParts

\* A step that changes one order at the venue and may report it.
LEMMA ToldByVenue ==
  ASSUME TypeOK, ToldIsTrue, NEW c \in Orders, NEW o \in Report,
         ord' = [ord EXCEPT ![c] = o], Emit(c, o),
         ord[c].status \notin Ended,
         tx' = tx \/ (tx[c] = "way" /\ tx' = [tx EXCEPT ![c] = "accepted"]),
         tx'[c] = "accepted",
         UNCHANGED <<pc, trackVars, callVars>>
  PROVE  ToldIsTrue'
<1>0. c \in Calls /\ Orders \subseteq Calls
  BY DEF Calls
<1>1. held[c].status \notin Ended /\ result[c].status \notin Ended
  BY DEF ToldIsTrue
<1>2. \A d \in Orders : ord'[d] = IF d = c THEN o ELSE ord[d]
  BY DEF TypeOK
<1>3. \A d \in Calls : tx'[d] = tx[d] \/ (d = c /\ tx[d] = "way" /\ tx'[d] = "accepted")
  BY DEF TypeOK
<1>4. ToldCalls'
  BY <1>3 DEF ToldIsTrue, ToldCalls, callVars
<1>5. ToldOrders'
  BY <1>0, <1>1, <1>2, <1>3 DEF ToldIsTrue, ToldOrders, callVars, trackVars
<1>6. ToldReports'
  <2>1. PICK m : m = [call |-> c, status |-> o.status, fill |-> o.fill]
    OBVIOUS
  <2>2. m.call = c /\ m.status = o.status /\ m.fill = o.fill
    BY <2>1
  <2>3. o = [status |-> m.status, fill |-> m.fill]
    BY <2>2, ReportTypes
  <2>4. \A r \in reports' : r \in reports \/ r = m
    BY <2>1 DEF Emit
  <2>5. \A r \in reports : r.status \in Ended =>
          r.call \in Orders /\ r.call # c /\ ord[r.call] = [status |-> r.status, fill |-> r.fill]
    <3>1. ASSUME NEW r \in reports, r.status \in Ended
          PROVE  r.call \in Orders /\ r.call # c /\ ord[r.call] = [status |-> r.status, fill |-> r.fill]
      <4>1. ord[r.call] = [status |-> r.status, fill |-> r.fill]
        BY <3>1 DEF ToldIsTrue
      <4>2. r.call \in Orders
        BY DEF TypeOK
      <4>3. ord[r.call].status \in Ended
        BY <3>1, <4>1
      <4> QED
        BY <4>1, <4>2, <4>3
    <3> QED
      BY <3>1
  <2> QED
    BY <1>2, <2>2, <2>3, <2>4, <2>5 DEF ToldReports
<1> QED
  BY <1>4, <1>5, <1>6, ToldParts

LEMMA ToldInit == Init => ToldIsTrue
  BY EndedNotNone, PathAssumption DEF Init, ToldIsTrue, Calls

LEMMA ToldStep ==
  ASSUME TypeOK, TypeOK', ToldIsTrue, [Next]_vars
  PROVE  ToldIsTrue'
<1> USE EndedNotNone, PathAssumption
<1>0. Orders \subseteq Calls
  BY DEF Calls
<1>1. ASSUME NEW c \in Calls,
             Start(c) \/ lockSend(c) \/ take(c) \/ takeFails(c) \/ signFails(c) \/ Refuse(c)
      PROVE  ToldIsTrue'
  <2>1. pc[c] \in {"new", "lock", "nonce", "sign"} /\ tx[c] = "none" /\ result[c] = None
        /\ (c \in Orders => held[c].status \notin Ended)
    <3>1. pc[c] \in {"new", "lock", "nonce", "sign"}
      BY <1>1 DEF Start, lockSend, take, takeFails, signFails, Refuse
    <3>2. tx[c] = "none" /\ result[c] = None
      BY <3>1 DEF ToldIsTrue
    <3>3. c \in Orders => ord[c] = None
      BY <3>2 DEF ToldIsTrue
    <3> QED
      BY <3>1, <3>2, <3>3 DEF ToldIsTrue
  <2>2. UNCHANGED <<venueVars, reports, tries>>
    BY <1>1 DEF Start, lockSend, take, takeFails, signFails, Refuse, callVars
  <2>3. CASE Finish(c, Unsent)
    BY <2>1, <2>2, <2>3, ToldByCall DEF Finish, TypeOK
  <2>4. CASE \E l \in {"lock", "nonce", "sign"} : pc' = [pc EXCEPT ![c] = l] /\ UNCHANGED <<result, held>>
    <3>1. PICK l \in {"lock", "nonce", "sign"} : pc' = [pc EXCEPT ![c] = l] /\ UNCHANGED <<result, held>>
      BY <2>4
    <3>2. c \in Orders => tries[c] < Retries
      BY <2>1 DEF ToldIsTrue
    <3> QED
      BY <2>1, <2>2, <3>1, <3>2, ToldByCall DEF TypeOK
  <2> QED
    BY <1>1, <2>3, <2>4 DEF Start, lockSend, take, takeFails, signFails, Refuse, Goto, Watch, callVars, trackVars
<1>2. ASSUME NEW c \in Calls, sendTx(c) PROVE ToldIsTrue'
  <2>1. /\ pc[c] = "sign" /\ pc' = [pc EXCEPT ![c] = "reply"]
        /\ \E s \in {"way", "lost"} : tx' = [tx EXCEPT ![c] = s]
        /\ UNCHANGED <<result, trackVars, ord, reports, tries>>
    BY <1>2 DEF sendTx, Goto
  <2>2. tx[c] = "none" /\ result[c] = None
    BY <2>1 DEF ToldIsTrue
  <2>3. \A d \in Calls : d # c => tx'[d] = tx[d] /\ pc'[d] = pc[d]
    BY <2>1 DEF TypeOK
  <2>4. pc'[c] = "reply" /\ tx'[c] \in {"way", "lost"}
    BY <2>1 DEF TypeOK
  <2>5. ToldCalls'
    BY <2>1, <2>2, <2>3, <2>4 DEF ToldCalls, ToldIsTrue
  <2>6. ToldOrders'
    BY <1>0, <2>1, <2>2, <2>3, <2>4 DEF ToldOrders, ToldIsTrue, trackVars
  <2>7. ToldReports'
    BY <2>1 DEF ToldReports, ToldIsTrue
  <2> QED
    BY <2>5, <2>6, <2>7, ToldParts
<1>3. ASSUME NEW c \in Calls, Reply(c) \/ Unknown(c) PROVE ToldIsTrue'
  <2>1. pc[c] = "reply" /\ Await(c) /\ UNCHANGED <<venueVars, reports, tries>>
    BY <1>3 DEF Reply, Unknown, Unclear
  <2>2. result[c] = None
    BY <2>1 DEF ToldIsTrue
  <2>3. CASE c \in Orders
    <3>1. pc' = [pc EXCEPT ![c] = "wait"] /\ result' = result /\ held' = held
      BY <2>1, <2>3 DEF Await, Goto, trackVars
    <3>2. tries[c] < Retries /\ (held[c].status \in Ended => held[c] = ord[c])
      BY <2>1, <2>3 DEF ToldIsTrue
    <3> QED
      BY <2>1, <2>2, <2>3, <3>1, <3>2, ToldByCall DEF TypeOK
  <2>4. CASE c \notin Orders
    BY <2>1, <2>2, <2>4, ToldByCall DEF Await, Finish, TypeOK
  <2> QED
    BY <2>3, <2>4
<1>4. ASSUME NEW c \in Calls, Arrive(c) PROVE ToldIsTrue'
  <2>1. tx[c] = "way" /\ UNCHANGED <<pc, trackVars, callVars>>
    BY <1>4 DEF Arrive
  <2>2. CASE nonce[c] = account /\ c \in Orders
    <3>1. PICK o : o = [status |-> "open", fill |-> 0]
      OBVIOUS
    <3>2. o \in Report /\ ord' = [ord EXCEPT ![c] = o] /\ Emit(c, o)
          /\ tx' = [tx EXCEPT ![c] = "accepted"]
      <4>1. /\ ord' = [ord EXCEPT ![c] = o] /\ Emit(c, ord'[c])
            /\ tx' = [tx EXCEPT ![c] = "accepted"]
        BY <1>4, <2>2, <3>1 DEF Arrive
      <4>2. ord'[c] = o
        BY <2>2, <4>1 DEF TypeOK
      <4> QED
        BY <3>1, <4>1, <4>2, ReportTypes
    <3>3. ord[c] = None
      BY <2>1, <2>2 DEF ToldIsTrue
    <3>4. tx'[c] = "accepted"
      BY <3>2 DEF TypeOK
    <3> QED
      BY <2>1, <2>2, <3>2, <3>3, <3>4, ToldByVenue
  <2>3. CASE ~(nonce[c] = account /\ c \in Orders)
    <3>1. ord' = ord /\ reports' = reports
          /\ \E s \in {"accepted", "refused"} : tx' = [tx EXCEPT ![c] = s] /\ (s = "accepted" => c \notin Orders)
      BY <1>4, <2>3 DEF Arrive
    <3>2. /\ \A d \in Calls : d # c => tx'[d] = tx[d]
          /\ tx'[c] \in {"accepted", "refused"} /\ (tx'[c] = "accepted" => c \notin Orders)
      BY <3>1 DEF TypeOK
    <3>3. ToldCalls'
      BY <2>1, <3>2 DEF ToldCalls, ToldIsTrue, callVars
    <3>4. ToldOrders'
      BY <1>0, <2>1, <3>1, <3>2 DEF ToldOrders, ToldIsTrue, callVars, trackVars
    <3>5. ToldReports'
      BY <3>1 DEF ToldReports, ToldIsTrue
    <3> QED
      BY <3>3, <3>4, <3>5, ToldParts
  <2> QED
    BY <2>2, <2>3
<1>5. ASSUME NEW c \in Orders, Match(c) \/ End(c) PROVE ToldIsTrue'
  <2>1. ord[c].status = "open" /\ ord[c] # None /\ tx[c] = "accepted"
    <3>1. ord[c].status = "open"
      BY <1>5 DEF Match, End
    <3>2. ord[c] # None
      BY <3>1, ReportTypes
    <3> QED
      BY <3>1, <3>2 DEF ToldIsTrue
  <2>2. PICK o : ord' = [ord EXCEPT ![c] = o] /\ Emit(c, ord'[c])
    BY <1>5 DEF Match, End
  <2>3. ord'[c] = o /\ o \in Report
    BY <2>2 DEF TypeOK
  <2>4. UNCHANGED <<tx, pc, trackVars, callVars>>
    BY <1>5 DEF Match, End
  <2>5. Emit(c, o)
    BY <2>2, <2>3
  <2>6. ord[c].status \notin Ended
    BY <2>1 DEF Ended
  <2> QED
    BY <2>1, <2>2, <2>3, <2>4, <2>5, <2>6, ToldByVenue
<1>6. ASSUME NEW r \in reports, dispatch(r) PROVE ToldIsTrue'
  <2>1. PICK c : c = r.call
    OBVIOUS
  <2>2. PICK new : new = [status |-> r.status, fill |-> r.fill]
    OBVIOUS
  <2>3. c \in Orders /\ new.status = r.status
    BY <2>1, <2>2 DEF TypeOK
  <2>4. new.status \in Ended => new = ord[c]
    BY <2>1, <2>2, <2>3 DEF ToldIsTrue
  <2>5. held' = [held EXCEPT ![c] = IF watch[c] = "open" THEN Preferred(held[c], new) ELSE held[c]]
        /\ reports' \subseteq reports /\ UNCHANGED <<pc, venueVars, callVars>>
    BY <1>6, <2>1, <2>2 DEF dispatch
  <2>6. held'[c] \in {held[c], new} /\ \A d \in Calls : d # c => held'[d] = held[d]
    <3>1. Preferred(held[c], new) \in {held[c], new}
      BY DEF Preferred
    <3> QED
      BY <1>0, <2>3, <2>5, <3>1 DEF TypeOK
  <2>7. held'[c].status \in Ended => held'[c] = ord[c]
    BY <2>3, <2>4, <2>6 DEF ToldIsTrue
  <2>8. ToldCalls'
    BY <2>5 DEF ToldCalls, ToldIsTrue, venueVars, callVars
  <2>9. ToldOrders'
    BY <1>0, <2>5, <2>6, <2>7 DEF ToldOrders, ToldIsTrue, venueVars, callVars
  <2>10. ToldReports'
    BY <2>5 DEF ToldReports, ToldIsTrue, venueVars
  <2> QED
    BY <2>8, <2>9, <2>10, ToldParts
<1>7. CASE stopVenue \/ UNCHANGED vars
  <2>1. UNCHANGED <<pc, venueVars, callVars, held>> /\ reports' \subseteq reports
    BY <1>7 DEF stopVenue, vars, trackVars
  <2>2. ToldCalls'
    BY <2>1 DEF ToldCalls, ToldIsTrue, venueVars, callVars
  <2>3. ToldOrders'
    BY <2>1 DEF ToldOrders, ToldIsTrue, venueVars, callVars
  <2>4. ToldReports'
    BY <2>1 DEF ToldReports, ToldIsTrue, venueVars
  <2> QED
    BY <2>2, <2>3, <2>4, ToldParts
<1>8. ASSUME NEW c \in Orders, Waiting(c) \/ Abandon(c) \/ queryExisting(c) PROVE ToldIsTrue'
  <2>1. pc[c] \in {"wait", "active", "inactive", "pause", "done"} /\ result[c] = None
        /\ (pc[c] # "done" => tries[c] < Retries) /\ UNCHANGED <<venueVars, reports>>
    <3>1. pc[c] \in {"wait", "active", "inactive", "pause"} \/ (pc[c] = "done" /\ result[c] = None)
      BY <1>8 DEF Waiting, Hear, Timeout, QueryActive, QueryInactive, QueryFails, Abandon, queryExisting
    <3>2. UNCHANGED <<venueVars, reports>>
      BY <1>8 DEF Waiting, Hear, Timeout, QueryActive, QueryInactive, QueryFails, Abandon, queryExisting
    <3> QED
      BY <1>0, <3>1, <3>2 DEF ToldIsTrue
  <2>2. held[c].status \in Ended => held[c] = ord[c]
    BY DEF ToldIsTrue
  <2>3. CASE tries' = tries /\ \E l \in Controls :
          pc' = [pc EXCEPT ![c] = l] /\ UNCHANGED <<result, held>>
          /\ l \in {"active", "inactive", "pause"} /\ pc[c] # "done"
    BY <1>0, <2>1, <2>2, <2>3, ToldByCall DEF TypeOK
  <2>4. CASE tries' = tries /\ \E v \in {None, ord[c]} \cup {held[c]} :
          Finish(c, v) /\ (v \in {None, ord[c]} \/ held[c].status \in Ended)
    <3>1. PICK v \in {None, ord[c]} : Finish(c, v)
      BY <2>2, <2>4
    <3>2. v # Unsent
      <4>1. ord[c] \in Report
        BY DEF TypeOK
      <4> QED
        BY <4>1, ReportTypes
    <3> QED
      BY <1>0, <2>1, <2>4, <3>1, <3>2, ToldByCall DEF Finish, TypeOK
  <2>5. CASE Hear(c) /\ held[c].status \notin Ended
    <3>1. /\ held' = [held EXCEPT ![c] = None] /\ result' = result
          /\ \/ pc' = pc /\ tries' = tries
             \/ /\ tries' = [tries EXCEPT ![c] = @ + 1]
                /\ \/ tries[c] + 1 < Retries /\ pc' = [pc EXCEPT ![c] = "active"]
                   \/ pc' = [pc EXCEPT ![c] = "done"]
          /\ pc[c] \in {"wait", "pause"}
      BY <2>5 DEF Hear, Resolve
    <3> QED
      BY <1>0, <2>1, <3>1, ToldByCall DEF TypeOK
  <2>6. CASE pc[c] = "pause" /\ NextTry(c)
    <3>1. tries' = [tries EXCEPT ![c] = @ + 1]
      BY <2>6 DEF NextTry
    <3>2. CASE tries[c] + 1 < Retries
      BY <1>0, <2>1, <2>2, <2>6, <3>1, <3>2, ToldByCall DEF NextTry, Goto, TypeOK, trackVars
    <3>3. CASE ~(tries[c] + 1 < Retries)
      BY <1>0, <2>1, <2>6, <3>1, <3>3, ToldByCall DEF NextTry, Finish, TypeOK
    <3> QED
      BY <3>2, <3>3
  <2>7. CASE queryExisting(c)
    BY <1>0, <2>1, <2>2, <2>7, ToldByCall DEF queryExisting, FreshTries, Watch, TypeOK
  <2> QED
    <3>1. CASE Hear(c)
      BY <2>4, <2>5, <3>1 DEF Hear, Resolve
    <3>2. CASE Timeout(c)
      BY <2>3, <2>6, <3>2 DEF Timeout, Goto, Controls, trackVars
    <3>3. CASE QueryActive(c) \/ QueryFails(c)
      BY <2>3, <3>3 DEF QueryActive, QueryFails, Goto, Controls, trackVars
    <3>4. CASE QueryInactive(c)
      BY <2>3, <2>4, <3>4 DEF QueryInactive, Resolve, NotFound, Goto, Controls, trackVars
    <3>5. CASE Abandon(c)
      BY <2>4, <3>5 DEF Abandon
    <3> QED
      BY <1>8, <2>7, <3>1, <3>2, <3>3, <3>4, <3>5 DEF Waiting
<1> QED
  BY <1>1, <1>2, <1>3, <1>4, <1>5, <1>6, <1>7, <1>8 DEF Next, Sending

-----------------------------------------------------------------------------
(* The nonce *)

\* The call that has taken a nonce and does not know yet that it was used.
Out(c) == pc[c] = "sign" \/ tx[c] = "way"

\* NonceInStep without its hypothesis.
InStep ==
  /\ \A c \in Calls :
       /\ Out(c) => valid /\ nonce[c] = account /\ next = account + 1
       /\ tx[c] = "way" => pc[c] = "reply"
       /\ tx[c] \notin {"lost", "refused"}
  /\ valid /\ (\A c \in lock : ~Out(c)) => next = account

LEMMA InStepParts ==
  (NonceInStep <=> (unknowns = 0 => InStep)) /\ (NonceInStep' <=> (unknowns' = 0 => InStep'))
  BY DEF NonceInStep, InStep, Out

\* A nonce is out for the holder of the lock at most.
LEMMA OutInside ==
  ASSUME TypeOK, Locked, InStep, NEW c \in lock
  PROVE  \A d \in Calls : Out(d) => d = c
  BY DEF Locked, InStep, Out

\* A step that touches neither the lock, the cache, the venue nor a call that is sending.
LEMMA InStepKept ==
  ASSUME InStep, UNCHANGED <<sendVars, tx, account>>,
         \A c \in Calls : pc'[c] = pc[c]
           \/ (pc[c] \notin {"sign", "reply"} /\ pc'[c] \notin {"sign", "reply"})
         , lock \subseteq Calls
  PROVE  InStep'
<1>1. \A c \in Calls : Out(c)' <=> Out(c)
  BY DEF Out
<1> QED
  BY <1>1 DEF InStep, sendVars, Out

\* The number of unknown outcomes only grows.
LEMMA UnknownsGrow ==
  ASSUME TypeOK, [Next]_vars
  PROVE  unknowns' \in Nat /\ unknowns \in Nat /\ unknowns' >= unknowns
<1>1. unknowns \in Nat
  BY PathAssumption DEF TypeOK
<1>2. unknowns' = unknowns \/ unknowns' = unknowns + 1
  BY DEF Next, Sending, Waiting, Start, Refuse, lockSend, take, takeFails, signFails, sendTx, Reply, Unknown, Arrive,
         Match, End, dispatch, stopVenue, Hear, Timeout, QueryActive, QueryInactive, QueryFails, Abandon,
         queryExisting, vars, endVars
<1> QED
  BY <1>1, <1>2

LEMMA NonceStep ==
  ASSUME TypeOK, TypeOK', Locked, Locked', ToldIsTrue, NonceInStep, [Next]_vars
  PROVE  NonceInStep'
<1> SUFFICES ASSUME unknowns' = 0 PROVE InStep'
  BY InStepParts
<1>0. unknowns = 0 /\ InStep
  BY UnknownsGrow, InStepParts
<1>00. Orders \subseteq Calls /\ lock \subseteq Calls
  BY DEF Calls, TypeOK
<1>1. ASSUME NEW c \in Calls, Start(c) \/ Refuse(c) PROVE InStep'
  <2>1. UNCHANGED <<sendVars, tx, account>> /\ \E l \in {"lock", "done"} : pc' = [pc EXCEPT ![c] = l]
        /\ pc[c] \in {"new", "lock"}
    BY <1>1 DEF Start, Refuse, Finish, venueVars
  <2>2. \A d \in Calls : pc'[d] = pc[d] \/ (pc[d] \notin {"sign", "reply"} /\ pc'[d] \notin {"sign", "reply"})
    BY <2>1 DEF TypeOK
  <2> QED
    BY <1>0, <1>00, <2>1, <2>2, InStepKept
<1>2. ASSUME NEW c \in Calls, lockSend(c) PROVE InStep'
  <2>1. /\ pc[c] = "lock" /\ lock = {} /\ lock' = {c} /\ pc' = [pc EXCEPT ![c] = "nonce"]
        /\ UNCHANGED <<next, valid, nonce, tx, account>>
    BY <1>2 DEF lockSend, LockFree, Goto, venueVars
  <2>2. \A d \in Calls : (Out(d)' <=> Out(d)) /\ (pc'[d] = "reply" <=> pc[d] = "reply")
    BY <2>1 DEF Out, TypeOK
  <2> QED
    BY <1>0, <2>1, <2>2 DEF InStep, Out
<1>3. ASSUME NEW c \in Calls, take(c) PROVE InStep'
  <2>1. pc[c] = "nonce" /\ lock' = lock /\ pc' = [pc EXCEPT ![c] = "sign"] /\ tx' = tx /\ account' = account
    BY <1>3 DEF take, Goto, venueVars
  <2>2. c \in lock /\ ~Out(c)
    BY <1>0, <2>1 DEF Locked, InStep, Out
  <2>3. \A d \in Calls : ~Out(d)
    BY <1>0, <2>2, OutInside
  <2>4. valid => next = account
    BY <1>0, <1>00, <2>3 DEF InStep
  <2>5. nonce' = [nonce EXCEPT ![c] = account] /\ next' = account + 1 /\ valid'
    BY <1>3, <2>4 DEF take
  <2>6. \A d \in Calls : Out(d)' <=> d = c
    BY <2>1, <2>3 DEF Out, TypeOK
  <2>7. nonce'[c] = account /\ Out(c)'
    BY <2>5, <2>6 DEF TypeOK
  <2>8. \A d \in Calls : tx[d] # "way" /\ tx[d] \notin {"lost", "refused"}
    BY <1>0, <2>3 DEF InStep, Out
  <2> QED
    BY <2>1, <2>2, <2>5, <2>6, <2>7, <2>8 DEF InStep
<1>4. ASSUME NEW c \in Calls, takeFails(c) \/ signFails(c) PROVE InStep'
  <2>1. /\ pc[c] \in {"nonce", "sign"} /\ lock' = lock \ {c} /\ pc' = [pc EXCEPT ![c] = "done"]
        /\ UNCHANGED <<next, nonce, tx, account>> /\ (valid' = valid \/ valid' = FALSE)
        /\ (pc[c] = "sign" => valid' = FALSE)
    BY <1>4 DEF takeFails, signFails, Finish, Dropped, venueVars
  <2>2. c \in lock /\ \A d \in lock : d = c
    BY <2>1 DEF Locked
  <2>3. \A d \in Calls : Out(d) => d = c
    BY <1>0, <2>2, OutInside
  <2>4. tx[c] # "way"
    BY <1>0, <2>1 DEF InStep
  <2>5. \A d \in Calls : ~Out(d)'
    BY <2>1, <2>3, <2>4 DEF Out, TypeOK
  <2>6. \A d \in Calls : tx[d] # "way" /\ tx[d] \notin {"lost", "refused"}
    BY <1>0, <2>3, <2>4 DEF InStep, Out
  <2>7. valid' => next' = account'
    BY <1>0, <2>1, <2>2, <2>4 DEF InStep, Out
  <2> QED
    BY <2>1, <2>5, <2>6, <2>7 DEF InStep
<1>5. ASSUME NEW c \in Calls, sendTx(c) PROVE InStep'
  <2>1. /\ pc[c] = "sign" /\ pc' = [pc EXCEPT ![c] = "reply"] /\ UNCHANGED <<sendVars, account>>
        /\ tx' = [tx EXCEPT ![c] = "way"]
    BY <1>0, <1>5 DEF sendTx, Goto
  <2>2. \A d \in Calls : Out(d)' <=> Out(d)
    BY <2>1 DEF Out, TypeOK
  <2>3. \A d \in Calls : d # c => tx'[d] = tx[d] /\ pc'[d] = pc[d]
    BY <2>1 DEF TypeOK
  <2>4. tx'[c] = "way" /\ pc'[c] = "reply"
    BY <2>1 DEF TypeOK
  <2> QED
    BY <1>0, <1>00, <2>1, <2>2, <2>3, <2>4 DEF InStep, sendVars
<1>6. ASSUME NEW c \in Calls, Reply(c) \/ Unknown(c) PROVE InStep'
  <2>1. pc[c] = "reply" /\ lock' = lock \ {c} /\ UNCHANGED <<next, nonce, tx, account>>
        /\ (Reply(c) => tx[c] = "accepted" /\ valid' = valid)
    BY <1>6 DEF Reply, Unknown, venueVars
  <2>2. Reply(c)
    <3>1. ~Unknown(c)
      <4>1. tx[c] \notin {"lost", "refused"}
        BY <1>0 DEF InStep
      <4> QED
        BY <1>0, <4>1 DEF Unknown
    <3> QED
      BY <1>6, <3>1
  <2>3. \E l \in {"wait", "done"} : pc' = [pc EXCEPT ![c] = l]
    BY <2>2 DEF Reply, Await, Goto, Finish
  <2>4. c \in lock /\ \A d \in lock : d = c
    BY <2>1 DEF Locked
  <2>5. \A d \in Calls : ~Out(d)
    BY <1>0, <2>1, <2>2, <2>4, OutInside DEF Out
  <2>6. \A d \in Calls : ~Out(d)' /\ tx[d] # "way"
    BY <2>1, <2>3, <2>5 DEF Out, TypeOK
  <2>7. valid' => next' = account'
    BY <1>0, <1>00, <2>1, <2>2, <2>5 DEF InStep
  <2> QED
    BY <1>0, <2>1, <2>6, <2>7 DEF InStep
<1>7. ASSUME NEW c \in Calls, Arrive(c) PROVE InStep'
  <2>1. tx[c] = "way" /\ UNCHANGED <<pc, sendVars>> /\ Out(c)
    BY <1>7 DEF Arrive, Out
  <2>2. pc[c] = "reply" /\ c \in lock /\ nonce[c] = account /\ next = account + 1
    BY <1>0, <2>1 DEF InStep, Locked
  <2>3. tx' = [tx EXCEPT ![c] = "accepted"] /\ account' = account + 1
    BY <1>7, <2>2 DEF Arrive
  <2>4. \A d \in Calls : Out(d) => d = c
    BY <1>0, <2>2, OutInside
  <2>5. tx'[c] = "accepted" /\ \A d \in Calls : d # c => tx'[d] = tx[d]
    BY <2>3 DEF TypeOK
  <2>6. \A d \in Calls : ~Out(d)'
    BY <2>1, <2>2, <2>4, <2>5 DEF Out
  <2>7. \A d \in Calls : tx'[d] # "way" /\ tx'[d] \notin {"lost", "refused"}
    BY <1>0, <2>5, <2>6 DEF InStep, Out
  <2> QED
    BY <2>1, <2>2, <2>3, <2>6, <2>7 DEF InStep, sendVars
<1>8. ASSUME NEW c \in Orders, Waiting(c) \/ Abandon(c) \/ queryExisting(c) PROVE InStep'
  <2>1. UNCHANGED <<sendVars, tx, account>>
    BY <1>8 DEF Waiting, Hear, Timeout, QueryActive, QueryInactive, QueryFails, Abandon, queryExisting, venueVars
  <2>2. pc[c] \in {"wait", "active", "inactive", "pause", "done"}
    BY <1>8 DEF Waiting, Hear, Timeout, QueryActive, QueryInactive, QueryFails, Abandon, queryExisting
  <2>3. pc' = pc \/ \E l \in {"active", "inactive", "pause", "done"} : pc' = [pc EXCEPT ![c] = l]
    BY <1>8 DEF Waiting, Hear, Timeout, QueryActive, QueryInactive, QueryFails, Abandon, queryExisting,
                Resolve, NextTry, Goto, Finish
  <2>4. \A d \in Calls : pc'[d] = pc[d] \/ (pc[d] \notin {"sign", "reply"} /\ pc'[d] \notin {"sign", "reply"})
    BY <2>2, <2>3 DEF TypeOK
  <2> QED
    BY <1>0, <1>00, <2>1, <2>4, InStepKept
<1>9. CASE UNCHANGED <<pc, sendVars, tx, account>>
  BY <1>0, <1>00, <1>9, InStepKept
<1>10. ASSUME \/ \E c \in Orders : Match(c) \/ End(c)
              \/ \E r \in reports : dispatch(r)
              \/ stopVenue \/ UNCHANGED vars
       PROVE  UNCHANGED <<pc, sendVars, tx, account>>
  BY <1>10 DEF Match, End, dispatch, stopVenue, vars, venueVars
<1> QED
  BY <1>1, <1>2, <1>3, <1>4, <1>5, <1>6, <1>7, <1>8, <1>9, <1>10 DEF Next, Sending

-----------------------------------------------------------------------------
(* The theorems *)

\* IInv is inductive.
THEOREM Invariant == Spec => []IInv
<1>1. Init => IInv
  <2>1. Init => Locked
    BY DEF Init, Locked, Calls
  <2>2. Init => NonceInStep
    BY DEF Init, NonceInStep, Calls
  <2> QED
    BY <2>1, <2>2, TypeInit, ToldInit DEF IInv
<1>2. IInv /\ [Next]_vars => IInv'
  <2> SUFFICES ASSUME IInv, [Next]_vars PROVE IInv'
    OBVIOUS
  <2>1. TypeOK /\ Locked /\ ToldIsTrue /\ NonceInStep
    BY DEF IInv
  <2>2. RoundsLeft
    BY <2>1 DEF ToldIsTrue, RoundsLeft
  <2>3. TypeOK'
    BY <2>1, <2>2, TypeStep
  <2>4. Locked'
    BY <2>1, LockedStep
  <2>5. ToldIsTrue'
    BY <2>1, <2>3, ToldStep
  <2>6. NonceInStep'
    BY <2>1, <2>3, <2>4, NonceStep
  <2> QED
    BY <2>3, <2>4, <2>5, <2>6 DEF IInv
<1> QED
  BY <1>1, <1>2, PTL DEF Spec

\* Every variable keeps its type: rounds of retries and queries end, a waiter holds one report
\* and a result has the form its caller expects.
THEOREM TypeCorrect == Spec => []TypeOK
BY Invariant, PTL DEF IInv

\* An order said to be unsent is not at the venue, and one said to have ended has ended with that fill
\* (Submit, awaitOrder).
THEOREM ResultsTrue == Spec => []ResultIsTrue
<1>1. IInv => ResultIsTrue
  BY DEF IInv, ToldIsTrue, ResultIsTrue, Calls
<1> QED
  BY <1>1, Invariant, PTL

\* While every outcome was learnt, the venue refuses no nonce (nonceMgr under sendMu).
THEOREM RefusalNeedsUnknown == Spec => []RefusedOnlyAfterUnknown
<1>1. IInv => RefusedOnlyAfterUnknown
  BY DEF IInv, NonceInStep, RefusedOnlyAfterUnknown
<1> QED
  BY <1>1, Invariant, PTL

\* A terminal report stays with its waiter until the call takes it (dispatch).
THEOREM TerminalStays == Spec => TerminalReportStays
<1>1. IInv /\ IInv' /\ [Next]_vars =>
        [\A c \in Orders : held[c].status \in Ended => held'[c] = held[c] \/ pc'[c] = "done"]_vars
  <2> SUFFICES ASSUME IInv, IInv', Next, NEW c \in Orders, held[c].status \in Ended
               PROVE  held'[c] = held[c] \/ pc'[c] = "done"
    OBVIOUS
  <2>0. c \in Calls /\ TypeOK /\ TypeOK' /\ ToldIsTrue /\ Orders \subseteq Calls
    BY DEF IInv, Calls
  <2>1. ASSUME NEW d \in Calls, Sending(d) \/ Refuse(d) \/ Arrive(d) PROVE held' = held \/ Finish(d, Unsent) \/ Finish(d, None)
    BY <2>1 DEF Sending, Start, Watch, Refuse, lockSend, take, takeFails, signFails, sendTx, Reply, Unknown, Unclear,
                Await, Goto, Arrive, trackVars
  <2>2. ASSUME NEW d \in Orders, Waiting(d) \/ Abandon(d) \/ queryExisting(d) \/ Match(d) \/ End(d)
        PROVE  held' = held \/ (\E v : Finish(d, v)) \/ (held' = [held EXCEPT ![d] = None] /\ held[d].status \notin Ended)
    BY <2>2 DEF Waiting, Hear, Timeout, NextTry, Resolve, QueryActive, QueryInactive, QueryFails, Abandon,
                queryExisting, Watch, Goto, Match, End, trackVars
  <2>3. ASSUME NEW r \in reports, dispatch(r) PROVE held'[c] = held[c]
    <3>1. PICK new : new = [status |-> r.status, fill |-> r.fill]
      OBVIOUS
    <3>2. r.call \in Orders /\ new.status = r.status
      BY <2>0, <3>1 DEF TypeOK
    <3>3. held' = [held EXCEPT ![r.call] = IF watch[r.call] = "open" THEN Preferred(held[r.call], new) ELSE held[r.call]]
      BY <2>3, <3>1 DEF dispatch
    <3>4. CASE r.call # c
      BY <2>0, <3>2, <3>3, <3>4 DEF TypeOK
    <3>5. CASE r.call = c
      <4>1. held[c] = ord[c] /\ held[c] # None
        BY <2>0, EndedNotNone DEF ToldIsTrue
      <4>2. new.status \in Ended => new = held[c]
        BY <2>0, <3>1, <3>2, <3>5, <4>1 DEF ToldIsTrue
      <4>3. Preferred(held[c], new) = held[c]
        BY <4>1, <4>2 DEF Preferred
      <4> QED
        BY <2>0, <3>3, <3>5, <4>3 DEF TypeOK
    <3> QED
      BY <3>4, <3>5
  <2>4. ASSUME NEW d \in Calls, NEW v, Finish(d, v) PROVE held'[c] = held[c] \/ pc'[c] = "done"
    BY <2>0, <2>4 DEF Finish, TypeOK
  <2>5. ASSUME NEW d \in Orders, held' = [held EXCEPT ![d] = None], held[d].status \notin Ended
        PROVE  held'[c] = held[c]
    BY <2>0, <2>5 DEF TypeOK
  <2>6. stopVenue => held' = held
    BY DEF stopVenue
  <2> QED
    BY <2>0, <2>1, <2>2, <2>3, <2>4, <2>5, <2>6 DEF Next
<1> QED
  BY <1>1, Invariant, PTL DEF Spec, TerminalReportStays
=============================================================================

----------------------------- MODULE OrderPath ------------------------------
(***************************************************************************)
(* How a transaction gets to a lighter venue and how the outcome of an     *)
(* order comes back: the send lock and the nonce cache (orders.go), the    *)
(* POST whose outcome may stay unknown (rest.go), the order stream         *)
(* (stream.go), the tracker that hands reports to waiters (tracker.go),    *)
(* and the call that sends one order and waits for its end                 *)
(* (submitAndResolve, queryExisting).  Calls of several pairs share one    *)
(* venue.                                                                  *)
(*                                                                         *)
(* An order is an IOC of Qty units.  A transaction on its way arrives any  *)
(* time later, or is lost; the venue accepts it when it carries the nonce  *)
(* the account is at.  Reports may be dropped and overtake each other.     *)
(***************************************************************************)
EXTENDS Integers

CONSTANTS
  Orders,      \* calls that send an order
  Others,      \* calls that send another transaction (SetLeverage, CancelOrder)
  Qty,         \* units of an order
  Retries,     \* Config.QueryRetries
  MaxUnknown,  \* bound on sends whose outcome stays unknown
  MaxAgain     \* bound on later attempts to resolve an order

ASSUME PathAssumption ==
  /\ Orders \cap Others = {}
  /\ Qty \in Nat \ {0} /\ Retries \in Nat \ {0} /\ MaxUnknown \in Nat /\ MaxAgain \in Nat

Calls == Orders \cup Others

VARIABLES
  pc,                     \* control of each call
  lock,                   \* Venue.sendMu: the calls inside
  next, valid, nonce,     \* nonceMgr, and the nonce each call took
  tx, account,            \* transactions, and the nonce the venue's account is at
  ord,                    \* orders at the venue
  reports,                \* reports on their way
  watch, held,            \* Tracker: each order's waiter and the report in its place
  tries, again, result,   \* what each call does and knows
  stopped,                \* the order stream has ended
  unknowns

sendVars  == <<lock, next, valid, nonce>>
venueVars == <<tx, account, ord>>
trackVars == <<watch, held>>
callVars  == <<tries, again, result>>
endVars   == <<stopped, unknowns>>
vars == <<pc, sendVars, venueVars, reports, trackVars, callVars, endVars>>

Ended == {"filled", "canceled"}
None  == [status |-> "none", fill |-> 0]
Unsent == [status |-> "unsent", fill |-> 0]

-----------------------------------------------------------------------------
(* The venue. *)

\* A change of an order may be reported; the report may be dropped (onOrders).
Emit(c, o) == reports' \in {reports, reports \cup {[call |-> c, status |-> o.status, fill |-> o.fill]}}

Arrive(c) ==
  /\ tx[c] = "way"
  /\ IF nonce[c] = account
     THEN /\ tx' = [tx EXCEPT ![c] = "accepted"] /\ account' = account + 1
          /\ IF c \in Orders
             THEN /\ ord' = [ord EXCEPT ![c] = [status |-> "open", fill |-> 0]]
                  /\ Emit(c, ord'[c])
             ELSE UNCHANGED <<ord, reports>>
     ELSE /\ tx' = [tx EXCEPT ![c] = "refused"]
          /\ UNCHANGED <<account, ord, reports>>
  /\ UNCHANGED <<pc, sendVars, trackVars, callVars, endVars>>

Match(c) ==
  /\ ord[c].status = "open" /\ ord[c].fill < Qty
  /\ ord' = [ord EXCEPT ![c] = [status |-> "open", fill |-> @.fill + 1]]
  /\ Emit(c, ord'[c])
  /\ UNCHANGED <<pc, sendVars, tx, account, trackVars, callVars, endVars>>

End(c) ==
  /\ ord[c].status = "open"
  /\ ord' = [ord EXCEPT ![c] =
       [status |-> IF @.fill = Qty THEN "filled" ELSE "canceled", fill |-> @.fill]]
  /\ Emit(c, ord'[c])
  /\ UNCHANGED <<pc, sendVars, tx, account, trackVars, callVars, endVars>>

-----------------------------------------------------------------------------
(* Sending. *)

\* The call ends; its waiter is unregistered.
Finish(c, r) ==
  /\ pc' = [pc EXCEPT ![c] = "done"]
  /\ result' = [result EXCEPT ![c] = r]
  /\ watch' = [watch EXCEPT ![c] = "none"] /\ held' = [held EXCEPT ![c] = None]

Goto(c, l) == pc' = [pc EXCEPT ![c] = l] /\ UNCHANGED <<result, trackVars>>

\* Watch comes before the submission, so that no report can be early.
Watch(c) ==
  /\ watch' = [watch EXCEPT ![c] = IF stopped THEN "closed" ELSE "open"]
  /\ UNCHANGED held

Start(c) ==
  /\ pc[c] = "new"
  /\ pc' = [pc EXCEPT ![c] = "lock"]
  /\ IF c \in Orders THEN Watch(c) ELSE UNCHANGED trackVars
  /\ UNCHANGED <<sendVars, venueVars, reports, callVars, endVars>>

\* Invalid, or its context or the venue ended before it had the lock: nothing was sent.
Refuse(c) ==
  /\ pc[c] \in {"new", "lock"}
  /\ Finish(c, Unsent)
  /\ UNCHANGED <<sendVars, venueVars, reports, tries, again, endVars>>

LockFree == lock = {}

lockSend(c) ==
  /\ pc[c] = "lock" /\ LockFree
  /\ lock' = lock \cup {c}
  /\ Goto(c, "nonce")
  /\ UNCHANGED <<next, valid, nonce, venueVars, reports, tries, again, endVars>>

\* nonceMgr.take: from the cache, or the account's nonce when there is none.
take(c) ==
  /\ pc[c] = "nonce"
  /\ LET n == IF valid THEN next ELSE account
     IN  nonce' = [nonce EXCEPT ![c] = n] /\ next' = n + 1 /\ valid' = TRUE
  /\ Goto(c, "sign")
  /\ UNCHANGED <<lock, venueVars, reports, tries, again, endVars>>

\* The context has ended, or the account's nonce cannot be read.
takeFails(c) ==
  /\ pc[c] = "nonce"
  /\ lock' = lock \ {c}
  /\ Finish(c, Unsent)
  /\ UNCHANGED <<next, valid, nonce, venueVars, reports, tries, again, endVars>>

\* A nonce that was taken and not used leaves a gap, unless the cache is dropped.
Kept == valid
Dropped == FALSE

\* Signing or encoding fails.
signFails(c) ==
  /\ pc[c] = "sign"
  /\ lock' = lock \ {c} /\ valid' = Dropped
  /\ Finish(c, Unsent)
  /\ UNCHANGED <<next, nonce, venueVars, reports, tries, again, endVars>>

\* The POST leaves, or is lost on the way.
sendTx(c) ==
  /\ pc[c] = "sign"
  /\ \/ tx' = [tx EXCEPT ![c] = "way"] /\ UNCHANGED unknowns
     \/ /\ unknowns < MaxUnknown /\ unknowns' = unknowns + 1
        /\ tx' = [tx EXCEPT ![c] = "lost"]
  /\ Goto(c, "reply")
  /\ UNCHANGED <<sendVars, account, ord, reports, tries, again, stopped>>

\* Where a call goes whose transaction may exist: an order is awaited, another call is over.
Await(c) == IF c \in Orders THEN Goto(c, "wait") ELSE Finish(c, None)

Reply(c) ==
  /\ pc[c] = "reply" /\ tx[c] = "accepted"
  /\ lock' = lock \ {c}
  /\ Await(c)
  /\ UNCHANGED <<next, valid, nonce, venueVars, reports, tries, again, endVars>>

\* Every remote error and every missing answer leaves the outcome unknown.
Unclear(c) == Await(c)

Unknown(c) ==
  /\ pc[c] = "reply"
  /\ \/ tx[c] \in {"refused", "lost"} /\ UNCHANGED unknowns
     \/ tx[c] \in {"way", "accepted"} /\ unknowns < MaxUnknown /\ unknowns' = unknowns + 1
  /\ lock' = lock \ {c} /\ valid' = FALSE
  /\ Unclear(c)
  /\ UNCHANGED <<next, nonce, venueVars, reports, tries, again, stopped>>

-----------------------------------------------------------------------------
(* The tracker. *)

\* The report kept when a second one arrives before the first was taken.
Latest(old, new) == new
Preferred(old, new) ==
  IF old # None /\ ((old.status \in Ended /\ new.status \notin Ended) \/ old.fill > new.fill)
  THEN old ELSE new

dispatch(r) ==
  /\ r \in reports /\ ~stopped
  /\ reports' = reports \ {r}
  /\ held' = [held EXCEPT ![r.call] =
       IF watch[r.call] = "open" THEN Preferred(@, [status |-> r.status, fill |-> r.fill]) ELSE @]
  /\ UNCHANGED <<pc, sendVars, venueVars, watch, callVars, endVars>>

\* The stream ends with the tracker, the venue or its context; open waiters are closed.
stopVenue ==
  /\ ~stopped /\ stopped' = TRUE /\ reports' = {}
  /\ watch' = [c \in Calls |-> IF watch[c] = "open" THEN "closed" ELSE watch[c]]
  /\ UNCHANGED <<pc, sendVars, venueVars, held, callVars, unknowns>>

-----------------------------------------------------------------------------
(* Waiting for the end of an order. *)

Resolve(c, r) ==
  /\ Finish(c, r) /\ UNCHANGED <<tries, again>>

\* The next round of the REST loop, or its end.
NextTry(c) ==
  /\ tries' = [tries EXCEPT ![c] = @ + 1]
  /\ IF tries[c] + 1 < Retries THEN Goto(c, "active") ELSE Finish(c, None)
  /\ UNCHANGED again

\* A report: a terminal one ends the call, any other is read over or costs a round.
Hear(c) ==
  /\ pc[c] \in {"wait", "pause"} /\ held[c] # None
  /\ LET r == held[c] IN
     \/ r.status \in Ended /\ Resolve(c, r)
     \/ /\ r.status \notin Ended
        /\ held' = [held EXCEPT ![c] = None]
        /\ IF pc[c] = "wait"
           THEN UNCHANGED <<pc, tries, result, watch>>
           ELSE /\ tries' = [tries EXCEPT ![c] = @ + 1]
                /\ IF tries[c] + 1 < Retries
                   THEN pc' = [pc EXCEPT ![c] = "active"] /\ UNCHANGED <<result, watch>>
                   ELSE /\ pc' = [pc EXCEPT ![c] = "done"] /\ UNCHANGED result
                        /\ watch' = [watch EXCEPT ![c] = "none"]
        /\ UNCHANGED again
  /\ UNCHANGED <<sendVars, venueVars, reports, endVars>>

\* The ack timer, or a waiter that was closed, sends a call to the REST queries.
StreamEnds(c) == watch[c] = "closed"
WaitEnds(c) == TRUE

Timeout(c) ==
  /\ \/ pc[c] = "wait" /\ WaitEnds(c) /\ Goto(c, "active") /\ UNCHANGED <<tries, again>>
     \/ pc[c] = "pause" /\ NextTry(c)
  /\ UNCHANGED <<sendVars, venueVars, reports, endVars>>

\* QueryOrder reads the active orders, then the inactive ones; each read may fail.
QueryActive(c) ==
  /\ pc[c] = "active"
  /\ Goto(c, IF ord[c].status = "open" THEN "pause" ELSE "inactive")
  /\ UNCHANGED <<sendVars, venueVars, reports, tries, again, endVars>>

\* An order in neither list is unknown, never a failure.
NotFoundIsCanceled == [status |-> "canceled", fill |-> 0]
NotFound == None

QueryInactive(c) ==
  /\ pc[c] = "inactive"
  /\ LET u == IF ord[c].status \in Ended THEN ord[c] ELSE NotFound
     IN  IF u.status \in Ended THEN Resolve(c, u) ELSE Goto(c, "pause") /\ UNCHANGED <<tries, again>>
  /\ UNCHANGED <<sendVars, venueVars, reports, endVars>>

QueryFails(c) ==
  /\ pc[c] \in {"active", "inactive"}
  /\ Goto(c, "pause")
  /\ UNCHANGED <<sendVars, venueVars, reports, tries, again, endVars>>

\* The context ends, at any time: the order stays unresolved.
Abandon(c) ==
  /\ pc[c] \in {"wait", "active", "pause"}
  /\ Finish(c, None)
  /\ UNCHANGED <<sendVars, venueVars, reports, tries, again, endVars>>

\* Every later attempt has its own QueryRetries rounds.
FreshTries(c) == [tries EXCEPT ![c] = 0]

\* queryExisting: the executor asks again for an order it could not resolve.
queryExisting(c) ==
  /\ pc[c] = "done" /\ c \in Orders /\ result[c] = None /\ again[c] < MaxAgain
  /\ again' = [again EXCEPT ![c] = @ + 1] /\ tries' = FreshTries(c)
  /\ pc' = [pc EXCEPT ![c] = "active"]
  /\ Watch(c)
  /\ UNCHANGED <<sendVars, venueVars, reports, result, stopped, unknowns>>

-----------------------------------------------------------------------------
Init ==
  /\ pc = [c \in Calls |-> "new"]
  /\ lock = {} /\ next = 0 /\ valid = FALSE /\ nonce = [c \in Calls |-> 0]
  /\ tx = [c \in Calls |-> "none"] /\ account = 0
  /\ ord = [c \in Orders |-> None] /\ reports = {}
  /\ watch = [c \in Calls |-> "none"] /\ held = [c \in Calls |-> None]
  /\ tries = [c \in Orders |-> 0] /\ again = [c \in Orders |-> 0]
  /\ result = [c \in Calls |-> None]
  /\ stopped = FALSE /\ unknowns = 0

Sending(c) ==
  Start(c) \/ lockSend(c) \/ take(c) \/ takeFails(c) \/ signFails(c) \/ sendTx(c) \/ Reply(c) \/ Unknown(c)
Waiting(c) ==
  Hear(c) \/ Timeout(c) \/ QueryActive(c) \/ QueryInactive(c) \/ QueryFails(c)

Next ==
  \/ \E c \in Calls : Sending(c) \/ Refuse(c) \/ Arrive(c)
  \/ \E c \in Orders : Waiting(c) \/ Abandon(c) \/ queryExisting(c) \/ Match(c) \/ End(c)
  \/ \E r \in reports : dispatch(r)
  \/ stopVenue

Spec == Init /\ [][Next]_vars

\* Every call's goroutine keeps running; a transaction on its way arrives; the HTTP client's timeout ends a
\* POST that has no answer.
Running(c) == Sending(c) \/ (c \in Orders /\ Waiting(c))

Fairness == (\A c \in Calls : WF_vars(Running(c))) /\ WF_vars(\E c \in Calls : Arrive(c))

FairSpec == Spec /\ Fairness

-----------------------------------------------------------------------------
Report == [status : {"none", "open"} \cup Ended, fill : 0..Qty]

\* Every variable keeps its type: attempts and rounds stay within their bounds.
TypeOK ==
  /\ pc \in [Calls -> {"new", "lock", "nonce", "sign", "reply", "wait", "active", "inactive", "pause", "done"}]
  /\ lock \in SUBSET Calls
  /\ next \in Nat /\ valid \in BOOLEAN /\ nonce \in [Calls -> Nat] /\ account \in Nat
  /\ tx \in [Calls -> {"none", "way", "lost", "accepted", "refused"}]
  /\ ord \in [Orders -> Report] /\ reports \subseteq [call : Orders, status : {"open"} \cup Ended, fill : 0..Qty]
  /\ watch \in [Calls -> {"none", "open", "closed"}] /\ held \in [Calls -> Report]
  /\ tries \in [Orders -> 0..Retries] /\ again \in [Orders -> 0..MaxAgain]
  /\ result \in [Calls -> Report \cup {Unsent}]
  /\ stopped \in BOOLEAN /\ unknowns \in 0..MaxUnknown

\* What a call reports is so and stays so: an order reported as not sent never reaches the venue
\* (Submit's ErrRejected, "definitively not placed"), one reported as ended has ended with that
\* fill, whether its stream or a query said it (fill, QueryOrder, awaitOrder).
ResultIsTrue ==
  \A c \in Orders :
    /\ result[c] = Unsent => tx[c] = "none" /\ ord[c] = None
    /\ result[c].status \in Ended => result[c] = ord[c]

\* A report that an order has ended stays in the waiter until its call takes it or is over,
\* whatever arrives behind it (dispatch).
TerminalReportStays ==
  [][\A c \in Orders : held[c].status \in Ended => held'[c] = held[c] \/ pc'[c] = "done"]_vars

\* The venue refuses a nonce only if an earlier transaction's outcome stayed unknown: with
\* concurrent callers, failing signatures and cancelled contexts alone, the cache is never ahead
\* of the account or behind it (nonceMgr, sendMu).
RefusedOnlyAfterUnknown == unknowns = 0 => \A c \in Calls : tx[c] # "refused"

\* Every call that has begun ends, with the lock released, whatever is lost, cancelled, stopped or closed.
CallsEnd == \A c \in Calls : pc[c] # "new" ~> pc[c] = "done" /\ c \notin lock

-----------------------------------------------------------------------------
(* The inductive invariants behind the safety properties. *)

\* The lock is held by the one call between taking a nonce and having an answer.
Locked ==
  /\ \A c \in Calls : c \in lock <=> pc[c] \in {"nonce", "sign", "reply"}
  /\ \A c, d \in lock : c = d

\* What has been said of an order's end, in a report on its way, in the waiter or by its call, is what
\* the venue has, and the venue's word is final.
ToldIsTrue ==
  /\ \A c \in Calls :
       /\ pc[c] \in {"new", "lock", "nonce", "sign"} => tx[c] = "none"
       /\ pc[c] # "done" => result[c] = None
       /\ result[c] = Unsent => tx[c] = "none"
  /\ \A c \in Orders :
       /\ tx[c] # "accepted" => ord[c] = None
       /\ held[c].status \in Ended => held[c] = ord[c]
       /\ result[c].status \in Ended => result[c] = ord[c]
       /\ pc[c] # "done" => tries[c] < Retries
  /\ \A r \in reports : r.status \in Ended => ord[r.call] = [status |-> r.status, fill |-> r.fill]

\* While every outcome was learnt, a nonce that is out is the account's, and a cached one is next.
NonceInStep ==
  unknowns = 0 =>
    /\ \A c \in Calls :
         /\ pc[c] = "sign" \/ tx[c] = "way" => valid /\ nonce[c] = account /\ next = account + 1
         /\ tx[c] = "way" => pc[c] = "reply"
         /\ tx[c] \notin {"lost", "refused"}
    /\ valid /\ (\A c \in lock : pc[c] # "sign" /\ tx[c] # "way") => next = account

IInv == TypeOK /\ Locked /\ ToldIsTrue /\ NonceInStep
=============================================================================

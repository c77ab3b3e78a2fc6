----------------------------- MODULE BookStream -----------------------------
(***************************************************************************)
(* One order book of a lighter venue on its way into a decision: the venue *)
(* sends a snapshot and then deltas over a websocket (ws.go), the adapter  *)
(* keeps the book (stream.go), a subscriber's goroutine takes it from a    *)
(* channel with one place into a cache and wakes the decision loop         *)
(* (pair.go in manual mode, auto.go in auto mode).                         *)
(*                                                                         *)
(* A book is a nonce and the size at each price level, 0 for no level.     *)
(* Truth[n] is the venue's own book at nonce n.  The venue states in each  *)
(* delta the nonce it starts from; it may lose a delta, send a malformed   *)
(* message, or drop the connection, together at most MaxFaults times.      *)
(***************************************************************************)
EXTENDS Naturals, Sequences, FiniteSets

CONSTANTS
  Levels,      \* price levels
  MaxNonce,    \* the venue's book changes up to this nonce
  Truth,       \* the venue's book at each nonce
  MaxFaults,   \* bound on lost deltas, malformed messages and cut connections
  MaxJoins,    \* bound on calls of SubscribeBook
  MaxInFlight  \* bound on unread messages of a connection

ASSUME BookAssumption ==
  /\ MaxNonce \in Nat \ {0} /\ MaxFaults \in Nat /\ MaxJoins \in Nat /\ MaxInFlight \in Nat \ {0}
  /\ Truth \in [1..MaxNonce -> [Levels -> Nat]]

VARIABLES
  nonce, feed, up, down, link,    \* the venue, what it sent last, the connection
  loop, conn, made, todo,         \* wsClient.loop: control, c.conn, connections made, captured subs
  started, jobs,                  \* wsClient: a subscription exists; goroutines that (re)subscribe
  book,                           \* bookState
  joined, joins, chan,            \* a subscriber's channel in bs.subs
  collector, cache, wake,         \* the subscriber's goroutine, its cache, its wake channel
  decider, seen,                  \* the decision loop and the book it decided on last
  closed, faults

venueVars == <<nonce, feed>>
wireVars  == <<up, down, link>>
loopVars  == <<loop, conn, made, todo>>
subVars   == <<joined, joins, collector>>
readVars  == <<cache, wake, decider, seen>>
vars == <<venueVars, wireVars, loopVars, started, jobs, book, subVars, chan, readVars, closed, faults>>

Empty == [nonce |-> 0, levels |-> [l \in Levels |-> 0]]
Jobs  == 1..MaxFaults + 1
Idle  == [at |-> "idle", conn |-> 0]

-----------------------------------------------------------------------------
(* The venue and the network. *)

\* The levels that differ between two of the venue's books.
Delta(from, to) ==
  [l \in {k \in Levels : Truth[from][k] # Truth[to][k]} |-> Truth[to][l]]

Snapshot == [type |-> "snapshot", begin |-> 0, nonce |-> nonce, levels |-> Truth[nonce]]
Change   == [type |-> "delta", begin |-> feed, nonce |-> nonce, levels |-> Delta(feed, nonce)]
Bad      == [type |-> "bad", begin |-> 0, nonce |-> 0, levels |-> <<>>]

\* The venue sends each change before the next.
Trade ==
  /\ nonce < MaxNonce /\ ~closed /\ feed \in {0, nonce}
  /\ nonce' = nonce + 1
  /\ UNCHANGED <<feed, wireVars, loopVars, started, jobs, book, subVars, chan, readVars, closed, faults>>

\* The venue carries out a request.  A second subscription is refused or answered again.
Serve ==
  /\ link = "open" /\ up # <<>>
  /\ up' = Tail(up)
  /\ \/ /\ Head(up) = "subscribe"
        /\ feed' = nonce /\ down' = Append(down, Snapshot)
     \/ /\ Head(up) = "subscribe" /\ feed # 0
        /\ UNCHANGED <<feed, down>>
     \/ /\ Head(up) = "unsubscribe"
        /\ feed' = 0 /\ UNCHANGED down
  /\ UNCHANGED <<nonce, link, loopVars, started, jobs, book, subVars, chan, readVars, closed, faults>>

\* An update; it may be lost or arrive malformed.
Update ==
  /\ link = "open" /\ feed \notin {0, nonce} /\ Len(down) < MaxInFlight
  /\ feed' = nonce
  /\ \/ down' = Append(down, Change) /\ UNCHANGED faults
     \/ faults < MaxFaults /\ faults' = faults + 1 /\ down' \in {down, Append(down, Bad)}
  /\ UNCHANGED <<nonce, up, link, loopVars, started, jobs, book, subVars, chan, readVars, closed>>

\* The connection breaks.  What arrived before may still be read.
Cut ==
  /\ link = "open" /\ faults < MaxFaults
  /\ link' = "cut" /\ feed' = 0 /\ up' = <<>> /\ faults' = faults + 1
  /\ \E n \in 0..Len(down) : down' = SubSeq(down, 1, n)
  /\ UNCHANGED <<nonce, loopVars, started, jobs, book, subVars, chan, readVars, closed>>

-----------------------------------------------------------------------------
(* The book. *)

PublishIfRoom(b) == chan' = IF joined /\ chan = <<>> THEN <<b>> ELSE chan

\* publishBook: the one place of the channel is emptied and filled again.
publishBook(b) == chan' = IF joined THEN <<b>> ELSE chan

bookSnapshot == [nonce |-> book.nonce, levels |-> book.levels]

invalidateBook ==
  /\ book' = [synced |-> FALSE, nonce |-> 0, levels |-> Empty.levels]
  /\ publishBook(Empty)

\* `go resubscribe`: a goroutine that has not looked at the connection yet.
Spawn ==
  LET j == CHOOSE i \in Jobs : jobs[i] = Idle
  IN  jobs' = [jobs EXCEPT ![j].at = "capture"]

NoGapCheck(m) == FALSE
Gap(m) == m.begin # 0 /\ book.nonce # 0 /\ m.begin # book.nonce

onBook(m) ==
  \/ /\ m.type = "bad" \/ (m.type = "delta" /\ book.synced /\ Gap(m))
     /\ invalidateBook /\ Spawn
  \/ /\ m.type = "snapshot" \/ (m.type = "delta" /\ book.synced /\ ~Gap(m))
     /\ LET old == IF m.type = "snapshot" THEN Empty.levels ELSE book.levels
            new == [l \in Levels |-> IF l \in DOMAIN m.levels THEN m.levels[l] ELSE old[l]]
        IN  /\ book' = [synced |-> TRUE, nonce |-> m.nonce, levels |-> new]
            /\ publishBook([nonce |-> m.nonce, levels |-> new])
     /\ UNCHANGED jobs
  \/ /\ m.type = "delta" /\ ~book.synced
     /\ UNCHANGED <<book, chan, jobs>>

-----------------------------------------------------------------------------
(* wsClient. *)

\* A message written to connection c, or the write that fails and closes it.  What a connection
\* closed on this side still carries is never read.
Sent(c, m) == c = made /\ link = "open" /\ up' = Append(up, m) /\ UNCHANGED <<down, link>>
Vanished(c) == c = made /\ link = "cut" /\ UNCHANGED wireVars
WriteFails(c) ==
  \/ c = made /\ link = "cut" /\ link' = "shut" /\ down' = <<>> /\ UNCHANGED up
  \/ (c # made \/ link = "shut") /\ UNCHANGED wireVars
Write(c, m) == Sent(c, m) \/ Vanished(c)

Dial ==
  /\ loop = "dial" /\ ~closed
  /\ made' = made + 1 /\ conn' = made + 1 /\ todo' = started
  /\ link' = "open" /\ up' = <<>> /\ down' = <<>> /\ feed' = 0
  /\ loop' = "reset"
  /\ UNCHANGED <<nonce, started, jobs, book, subVars, chan, readVars, closed, faults>>

\* The books of an earlier connection are dropped before this one is asked for any.
Reset ==
  /\ loop = "reset" /\ invalidateBook
  /\ loop' = "send"
  /\ UNCHANGED <<venueVars, wireVars, conn, made, todo, started, jobs, subVars, readVars, closed, faults>>

SendSubs ==
  /\ loop = "send"
  /\ IF todo THEN Write(conn, "subscribe") \/ WriteFails(conn) ELSE UNCHANGED wireVars
  /\ loop' = "read"
  /\ UNCHANGED <<venueVars, conn, made, todo, started, jobs, book, subVars, chan, readVars, closed, faults>>

Read ==
  /\ loop = "read" /\ ~closed /\ link # "shut" /\ down # <<>>
  /\ onBook(Head(down))
  /\ down' = Tail(down)
  /\ UNCHANGED <<venueVars, up, link, loopVars, started, subVars, readVars, closed, faults>>

ReadFails ==
  /\ loop = "read"
  /\ closed \/ link = "shut" \/ (link = "cut" /\ down = <<>>)
  /\ loop' = "lost"
  /\ UNCHANGED <<venueVars, wireVars, conn, made, todo, started, jobs, book, subVars, chan, readVars, closed, faults>>

ResetLost ==
  /\ loop = "lost" /\ invalidateBook
  /\ loop' = "drop"
  /\ UNCHANGED <<venueVars, wireVars, conn, made, todo, started, jobs, subVars, readVars, closed, faults>>

Drop ==
  /\ loop = "drop"
  /\ conn' = 0 /\ link' = "shut" /\ feed' = 0 /\ up' = <<>> /\ down' = <<>>
  /\ loop' = "dial"
  /\ UNCHANGED <<nonce, made, todo, started, jobs, book, subVars, chan, readVars, closed, faults>>

LoopExits ==
  /\ loop = "dial" /\ closed
  /\ loop' = "exit"
  /\ UNCHANGED <<venueVars, wireVars, conn, made, todo, started, jobs, book, subVars, chan, readVars, closed, faults>>

\* resubscribe looks at the connection, then writes twice.
Capture(j) ==
  /\ jobs[j].at = "capture"
  /\ jobs' = [jobs EXCEPT ![j] = IF conn = 0 \/ closed THEN Idle ELSE [at |-> "unsubscribe", conn |-> conn]]
  /\ UNCHANGED <<venueVars, wireVars, loopVars, started, book, subVars, chan, readVars, closed, faults>>

NoUnsubscribe == "subscribe"
Unsubscribes == "unsubscribe"

Unsubscribe(j) ==
  LET c == jobs[j].conn IN
  /\ jobs[j].at = "unsubscribe"
  /\ \/ Write(c, Unsubscribes) /\ jobs' = [jobs EXCEPT ![j].at = "subscribe"]
     \/ WriteFails(c) /\ jobs' = [jobs EXCEPT ![j] = Idle]
  /\ UNCHANGED <<venueVars, loopVars, started, book, subVars, chan, readVars, closed, faults>>

sendSub(j) ==
  LET c == jobs[j].conn IN
  /\ jobs[j].at = "subscribe"
  /\ Write(c, "subscribe") \/ WriteFails(c)
  /\ jobs' = [jobs EXCEPT ![j] = Idle]
  /\ UNCHANGED <<venueVars, loopVars, started, book, subVars, chan, readVars, closed, faults>>

-----------------------------------------------------------------------------
(* The subscriber. *)

SubscribeBook ==
  /\ collector = "off" /\ joins < MaxJoins /\ ~closed
  /\ joined' = TRUE /\ joins' = joins + 1
  /\ chan' = IF book.synced THEN <<bookSnapshot>> ELSE <<>>
  /\ collector' = IF joins = 0 THEN "register" ELSE "receive"
  /\ UNCHANGED <<venueVars, wireVars, loopVars, started, jobs, book, readVars, closed, faults>>

\* The first subscriber registers the channel with the client, and sends it on the connection there is.
Register ==
  /\ collector = "register"
  /\ IF closed
     THEN UNCHANGED <<started, loop, jobs>>
     ELSE /\ started' = TRUE
          /\ loop' = IF loop = "off" THEN "dial" ELSE loop
          /\ jobs' = IF conn = 0 THEN jobs
                     ELSE [jobs EXCEPT ![CHOOSE i \in Jobs : jobs[i] = Idle] = [at |-> "subscribe", conn |-> conn]]
  /\ collector' = "receive"
  /\ UNCHANGED <<venueVars, wireVars, conn, made, todo, book, joined, joins, chan, readVars, closed, faults>>

\* The book goes into the cache under the lock, the wake-up follows.
Receive ==
  /\ collector = "receive" /\ chan # <<>>
  /\ cache' = Head(chan) /\ chan' = <<>>
  /\ collector' = "notify"
  /\ UNCHANGED <<venueVars, wireVars, loopVars, started, jobs, book, joined, joins, wake, decider, seen, closed, faults>>

\* The channel was closed: an actor (manual mode) forgets its book, a candidate (auto mode)
\* ends the process.
StreamClosed ==
  /\ collector = "receive" /\ chan = <<>> /\ ~joined
  /\ \/ cache' = Empty /\ collector' = "last"
     \/ UNCHANGED cache /\ collector' = "ended"
  /\ UNCHANGED <<venueVars, wireVars, loopVars, started, jobs, book, joined, joins, chan, wake, decider, seen, closed, faults>>

\* The wake channel has one place; a token in it covers what comes after.
NoPlace == FALSE
Wakes == TRUE

Notify ==
  /\ collector \in {"notify", "last"}
  /\ wake' = (wake \/ Wakes)
  /\ collector' = IF collector = "notify" THEN "receive" ELSE "ended"
  /\ UNCHANGED <<venueVars, wireVars, loopVars, started, jobs, book, joined, joins, chan, cache, decider, seen, closed, faults>>

\* The decision loop takes the token, then reads the cache.  Its housekeeping ticker, which
\* would hide a lost token, is left out.
Wake ==
  /\ decider = "idle" /\ wake
  /\ wake' = FALSE /\ decider' = "reading"
  /\ UNCHANGED <<venueVars, wireVars, loopVars, started, jobs, book, subVars, chan, cache, seen, closed, faults>>

quote ==
  /\ decider = "reading"
  /\ seen' = cache /\ decider' = "idle"
  /\ UNCHANGED <<venueVars, wireVars, loopVars, started, jobs, book, subVars, chan, cache, wake, closed, faults>>

\* The subscriber's context ends; a later one starts from nothing.
Leave ==
  /\ joined /\ ~closed /\ collector \in {"receive", "notify"} /\ decider = "idle"
  /\ joined' = FALSE /\ chan' = <<>> /\ collector' = "off"
  /\ cache' = Empty /\ seen' = Empty /\ wake' = FALSE
  /\ UNCHANGED <<venueVars, wireVars, loopVars, started, jobs, book, joins, decider, closed, faults>>

-----------------------------------------------------------------------------
Close ==
  /\ ~closed /\ closed' = TRUE
  /\ link' = "shut" /\ feed' = 0 /\ up' = <<>> /\ down' = <<>>
  /\ UNCHANGED <<nonce, loopVars, started, jobs, book, subVars, chan, readVars, faults>>

\* A closed client releases its subscribers, by their own goroutine or by Close.
EndStream ==
  /\ closed /\ joined
  /\ joined' = FALSE
  /\ UNCHANGED <<venueVars, wireVars, loopVars, started, jobs, book, joins, collector, chan, readVars, closed, faults>>

Init ==
  /\ nonce = 1 /\ feed = 0 /\ up = <<>> /\ down = <<>> /\ link = "shut"
  /\ loop \in {"off", "dial"}     \* another market's subscription may have started it
  /\ conn = 0 /\ made = 0 /\ todo = FALSE
  /\ started = FALSE /\ jobs = [j \in Jobs |-> Idle]
  /\ book = [synced |-> FALSE, nonce |-> 0, levels |-> Empty.levels]
  /\ joined = FALSE /\ joins = 0 /\ chan = <<>>
  /\ collector = "off" /\ cache = Empty /\ wake = FALSE
  /\ decider = "idle" /\ seen = Empty
  /\ closed = FALSE /\ faults = 0

Client == Dial \/ Reset \/ SendSubs \/ Read \/ ReadFails \/ ResetLost \/ Drop \/ LoopExits
Job(j) == Capture(j) \/ Unsubscribe(j) \/ sendSub(j)
Collect == Register \/ Receive \/ StreamClosed \/ Notify
Decide == Wake \/ quote

Next ==
  \/ Trade \/ Serve \/ Update \/ Cut
  \/ Client
  \/ \E j \in Jobs : Job(j)
  \/ SubscribeBook \/ Collect \/ Decide \/ Leave
  \/ Close \/ EndStream

Spec == Init /\ [][Next]_vars

\* Every goroutine keeps running, a connected venue answers and sends what has changed.
Fairness ==
  /\ WF_vars(Client) /\ WF_vars(\E j \in Jobs : Job(j))
  /\ WF_vars(Serve) /\ WF_vars(Update)
  /\ WF_vars(Collect) /\ WF_vars(EndStream)
  /\ WF_vars(Decide)

FairSpec == Spec /\ Fairness

-----------------------------------------------------------------------------
Books == [nonce : 0..MaxNonce, levels : [Levels -> Nat]]

\* Every variable keeps its type: the channel of a subscriber has one place.
TypeOK ==
  /\ nonce \in 1..MaxNonce /\ feed \in 0..nonce
  /\ up \in Seq({"subscribe", "unsubscribe"}) /\ link \in {"open", "cut", "shut"}
  /\ \A i \in DOMAIN down : down[i].type \in {"snapshot", "delta", "bad"} /\ down[i].nonce \in 0..MaxNonce
  /\ loop \in {"off", "dial", "reset", "send", "read", "lost", "drop", "exit"}
  /\ made \in Nat /\ conn \in {0, made} /\ todo \in BOOLEAN /\ started \in BOOLEAN
  /\ jobs \in [Jobs -> [at : {"idle", "capture", "unsubscribe", "subscribe"}, conn : 0..made]]
  /\ book \in [synced : BOOLEAN, nonce : 0..MaxNonce, levels : [Levels -> Nat]]
  /\ joined \in BOOLEAN /\ joins \in 0..MaxJoins
  /\ chan = <<>> \/ (Len(chan) = 1 /\ chan[1] \in Books)
  /\ collector \in {"off", "register", "receive", "notify", "last", "ended"}
  /\ cache \in Books /\ seen \in Books /\ wake \in BOOLEAN /\ decider \in {"idle", "reading"}
  /\ closed \in BOOLEAN /\ faults \in 0..MaxFaults

\* A book that a decision can use is one the venue had, whole: whatever deltas were lost,
\* malformed, repeated by a second snapshot or cut off with a connection (onBook's gap check,
\* invalidateBook, resetBooks).
BookIsVenues ==
  LET true(b) == b = Empty \/ (b.nonce \in 1..nonce /\ b.levels = Truth[b.nonce])
  IN  true(bookSnapshot) /\ true(cache) /\ true(seen) /\ \A i \in DOMAIN chan : true(chan[i])

\* What a subscriber holds or is about to receive is the adapter's present book, empty as long
\* as that is not in sync: a book that was invalidated never stays behind in a channel or a
\* cache (publishBook, SubscribeBook).
LatestIsCurrent ==
  LET newest == IF chan # <<>> THEN Head(chan) ELSE cache
  IN  joined => newest = IF book.synced THEN bookSnapshot ELSE Empty

\* No wake-up is lost: when the cache holds a book the decision loop has not looked at, a token
\* is in the wake channel, or about to be put there, or the loop is about to read (wakeDecide,
\* notify).
NoLostWakeup ==
  cache # seen => wake \/ decider = "reading" \/ collector \in {"notify", "last"}

\* A subscriber always gets back to deciding on the adapter's synchronised book, after every
\* gap, malformed message and broken connection, unless the venue is closed or it leaves
\* (loop, resubscribe).
Recovers ==
  joined ~> ~joined \/ (book.synced /\ seen = bookSnapshot)

-----------------------------------------------------------------------------
(* Why: what the venue sent on a connection, still unread, and what may be in *)
(* a subscriber's hands.                                                      *)

\* What the venue can have sent up to now: its book at a nonce, the step from one of its nonces
\* to another, and what was malformed on the way.
Messages ==
  {[type |-> "snapshot", begin |-> 0, nonce |-> n, levels |-> Truth[n]] : n \in 1..nonce}
    \cup {[type |-> "delta", begin |-> b, nonce |-> n, levels |-> Delta(b, n)] : b, n \in 1..nonce}
    \cup {Bad}

SentByVenue ==
  /\ nonce \in 1..MaxNonce /\ feed \in 0..nonce
  /\ down \in Seq(Messages)

\* A synchronised book is the venue's at its nonce, another one is empty.
BookSound ==
  /\ book = [synced |-> book.synced, nonce |-> book.nonce, levels |-> book.levels]
  /\ book.synced \in BOOLEAN
  /\ IF book.synced THEN book.nonce \in 1..nonce /\ book.levels = Truth[book.nonce]
     ELSE bookSnapshot = Empty

\* The channel has one place, and nobody who has not subscribed holds a book.
OnePlace == chan = <<>> \/ chan = <<Head(chan)>>
StartsEmpty == collector = "off" => cache = Empty

BookInv ==
  /\ SentByVenue /\ BookSound /\ OnePlace /\ StartsEmpty
  /\ BookIsVenues /\ LatestIsCurrent /\ NoLostWakeup

-----------------------------------------------------------------------------
(* Why the goroutines that subscribe again fit in Jobs: each fault starts one *)
(* of them at most.                                                           *)

\* The nonce of the book when unread message i is read, if nothing upsets it before.
Before(i) == IF i = 1 THEN book.nonce ELSE down[i - 1].nonce

\* The unread messages that make the client subscribe again, and the next one if it will.
Upsetting ==
  {i \in 1..Len(down) + 1 :
     IF i > Len(down) THEN feed # 0 /\ Before(i) # 0 /\ feed # Before(i)
     ELSE \/ down[i].type = "bad"
          \/ down[i].type = "delta" /\ Before(i) # 0 /\ down[i].begin # Before(i)}

Busy == {j \in Jobs : jobs[j] # Idle}
Registered == joins > 0 /\ collector # "register"

FaultsPay ==
  /\ Cardinality(Busy) + Cardinality(Upsetting) <= faults + (IF Registered THEN 1 ELSE 0)
  /\ collector = "register" => joins > 0
CutIsSilent == link # "open" => feed = 0

\* Whoever is about to start a goroutine that subscribes finds a place in Jobs (the gap check
\* and the undecodable message of onBook, Register with a connection).
PlaceLeft ==
  LET upset == down # <<>> /\
        (Head(down).type = "bad" \/ (Head(down).type = "delta" /\ book.synced /\ Gap(Head(down))))
      registers == collector = "register" /\ conn # 0
  IN  upset \/ registers => Busy # Jobs
=============================================================================

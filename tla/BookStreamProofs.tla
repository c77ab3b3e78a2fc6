-------------------------- MODULE BookStreamProofs --------------------------
(* Proofs about BookStream for any price levels, any books of the venue, and *)
(* any number of changes, faults and subscriptions.                          *)
EXTENDS BookStream, SequenceTheorems, FiniteSetTheorems, TLAPS

subscriberVars == <<book, chan, joined, collector, readVars>>

-----------------------------------------------------------------------------
(* What the venue sends. *)

\* A delta, applied to the book it starts from, gives the book it leads to.
LEMMA DeltaApplies ==
  ASSUME NEW b \in 1..MaxNonce, NEW n \in 1..MaxNonce
  PROVE  [l \in Levels |-> IF l \in DOMAIN Delta(b, n) THEN Delta(b, n)[l] ELSE Truth[b][l]] = Truth[n]
<1>1. Truth[b] \in [Levels -> Nat] /\ Truth[n] \in [Levels -> Nat]
  BY BookAssumption
<1>2. ASSUME NEW l \in Levels
      PROVE  (IF l \in DOMAIN Delta(b, n) THEN Delta(b, n)[l] ELSE Truth[b][l]) = Truth[n][l]
  BY DEF Delta
<1> QED BY <1>1, <1>2

\* What a message in hand is.
LEMMA MessageForms ==
  ASSUME NEW m \in Messages, nonce \in 1..MaxNonce
  PROVE  \/ m.type = "bad"
         \/ /\ m.type = "snapshot" /\ m.nonce \in 1..nonce /\ m.levels = Truth[m.nonce]
         \/ /\ m.type = "delta" /\ m.begin \in 1..nonce /\ m.nonce \in 1..nonce
            /\ m.levels = Delta(m.begin, m.nonce)
BY DEF Messages, Bad

\* A change of the venue's book takes back nothing of what it sent.
LEMMA MessagesGrow ==
  ASSUME nonce \in 1..MaxNonce, nonce' \in 1..MaxNonce, nonce <= nonce'
  PROVE  Messages \subseteq Messages'
<1>1. 1..nonce \subseteq 1..nonce'
  OBVIOUS
<1>2. ASSUME NEW n \in 1..nonce
      PROVE  [type |-> "snapshot", begin |-> 0, nonce |-> n, levels |-> Truth[n]] \in Messages'
  BY <1>1 DEF Messages
<1>3. ASSUME NEW b \in 1..nonce, NEW n \in 1..nonce
      PROVE  [type |-> "delta", begin |-> b, nonce |-> n, levels |-> Delta(b, n)] \in Messages'
  BY <1>1 DEF Messages
<1>4. Bad \in Messages'
  BY DEF Messages, Bad
<1> QED BY <1>2, <1>3, <1>4 DEF Messages

LEMMA SentInit == Init => SentByVenue
BY BookAssumption DEF Init, SentByVenue

\* Whatever is read, lost, cut off or asked for, the unread messages are the venue's.
LEMMA SentStep == ASSUME SentByVenue, [Next]_vars PROVE SentByVenue'
<1> USE DEF SentByVenue
<1>1. SUFFICES ASSUME nonce' = nonce PROVE SentByVenue'
  <2>1. CASE Trade
    <3>1. nonce' \in 1..MaxNonce /\ nonce <= nonce' /\ feed' \in 0..nonce' /\ down' = down
      BY <2>1, BookAssumption DEF Trade, venueVars, wireVars
    <3>2. Messages \subseteq Messages'
      BY <3>1, MessagesGrow
    <3> QED BY <3>1, <3>2
  <2>2. ~Trade => nonce' = nonce
    BY DEF Next, vars, Serve, Update, Cut, Client, Dial, Reset, SendSubs, Read, ReadFails, ResetLost, Drop,
       LoopExits, Job, Capture, Unsubscribe, sendSub, SubscribeBook, Collect, Register, Receive, StreamClosed,
       Notify, Decide, Wake, quote, Leave, Close, EndStream, venueVars
  <2> QED BY <2>1, <2>2, <1>1
<1>2. Messages' = Messages
  BY <1>1 DEF Messages, Bad, Delta
<1>3. CASE Serve
  <2>1. Snapshot \in Messages
    BY DEF Snapshot, Messages
  <2> QED BY <1>1, <1>2, <1>3, <2>1 DEF Serve
<1>4. CASE Update
  <2>1. Change \in Messages /\ Bad \in Messages
    BY <1>4 DEF Update, Change, Messages
  <2> QED BY <1>1, <1>2, <1>4, <2>1 DEF Update
<1>5. CASE Cut
  <2>1. PICK n \in 0..Len(down) : down' = SubSeq(down, 1, n)
    BY <1>5 DEF Cut
  <2>2. SubSeq(down, 1, n) \in Seq(Messages)
    BY <2>1, SubSeqProperties
  <2> QED BY <1>1, <1>2, <1>5, <2>1, <2>2 DEF Cut
<1>6. CASE Read
  BY <1>1, <1>2, <1>6 DEF Read, venueVars
<1>7. ASSUME down' \in {down, <<>>}, feed' \in {feed, 0} PROVE SentByVenue'
  <2>1. <<>> \in Seq(Messages)
    OBVIOUS
  <2>2. down' \in Seq(Messages')
    BY <1>2, <1>7, <2>1
  <2>3. nonce' \in 1..MaxNonce /\ feed' \in 0..nonce'
    BY <1>1, <1>7, BookAssumption
  <2> QED BY <2>2, <2>3
<1>8. CASE UNCHANGED vars
  BY <1>7, <1>8 DEF vars, venueVars, wireVars
<1>9. CASE Trade
  BY <1>1, <1>9 DEF Trade
<1>10. ASSUME Client, ~Read PROVE SentByVenue'
  BY <1>7, <1>10 DEF Client, Dial, Reset, SendSubs, ReadFails, ResetLost, Drop, LoopExits, Write, Sent, Vanished,
     WriteFails, venueVars, wireVars
<1>11. ASSUME NEW j \in Jobs, Job(j) PROVE SentByVenue'
  BY <1>7, <1>11 DEF Job, Capture, Unsubscribe, sendSub, Write, Sent, Vanished, WriteFails, venueVars, wireVars
<1>12. ASSUME SubscribeBook \/ Collect \/ Decide \/ Leave \/ Close \/ EndStream PROVE SentByVenue'
  BY <1>7, <1>12 DEF SubscribeBook, Collect, Register, Receive, StreamClosed, Notify, Decide, Wake, quote, Leave,
     Close, EndStream, venueVars, wireVars
<1> QED BY <1>3, <1>4, <1>5, <1>6, <1>8, <1>9, <1>10, <1>11, <1>12 DEF Next

-----------------------------------------------------------------------------
(* The adapter's book and the subscribers' channel. *)

\* Whatever message is read next, the book is the venue's or it is dropped.
LEMMA BookStep ==
  ASSUME SentByVenue, BookSound, NEW m \in Messages, onBook(m), nonce' = nonce
  PROVE  BookSound'
<1> USE DEF BookSound, bookSnapshot
<1>1. CASE invalidateBook
  BY <1>1 DEF invalidateBook, Empty
<1>2. CASE book' = book
  BY <1>2
<1>3. ASSUME NEW old, NEW new, m.type \in {"snapshot", "delta"},
             m.type = "delta" => book.synced /\ ~Gap(m),
             old = IF m.type = "snapshot" THEN Empty.levels ELSE book.levels,
             new = [l \in Levels |-> IF l \in DOMAIN m.levels THEN m.levels[l] ELSE old[l]]
      PROVE  m.nonce \in 1..nonce /\ new = Truth[m.nonce]
  <2>1. nonce \in 1..MaxNonce
    BY DEF SentByVenue
  <2>2. CASE m.type = "snapshot"
    <3>1. m.nonce \in 1..nonce /\ m.levels = Truth[m.nonce]
      BY <2>1, <2>2, MessageForms
    <3>2. Truth[m.nonce] \in [Levels -> Nat]
      BY <2>1, <3>1, BookAssumption
    <3> QED BY <1>3, <3>1, <3>2
  <2>3. CASE m.type = "delta"
    <3>1. m.begin \in 1..nonce /\ m.nonce \in 1..nonce /\ m.levels = Delta(m.begin, m.nonce)
      BY <2>1, <2>3, MessageForms
    <3>2. m.begin = book.nonce /\ old = Truth[m.begin]
      BY <1>3, <2>1, <2>3, <3>1 DEF Gap
    <3>3. m.begin \in 1..MaxNonce /\ m.nonce \in 1..MaxNonce
      BY <2>1, <3>1, BookAssumption
    <3> QED BY <1>3, <3>1, <3>2, <3>3, DeltaApplies
  <2> QED BY <1>3, <2>2, <2>3
<1>4. CASE m.type = "snapshot" \/ (m.type = "delta" /\ book.synced /\ ~Gap(m))
  <2> DEFINE old == IF m.type = "snapshot" THEN Empty.levels ELSE book.levels
             new == [l \in Levels |-> IF l \in DOMAIN m.levels THEN m.levels[l] ELSE old[l]]
  <2>1. CASE book' = [synced |-> TRUE, nonce |-> m.nonce, levels |-> new]
    <3> HIDE DEF old, new
    <3>1. m.nonce \in 1..nonce /\ new = Truth[m.nonce]
      BY <1>3, <1>4 DEF old, new
    <3> QED BY <2>1, <3>1
  <2> QED BY <1>1, <1>2, <1>4, <2>1 DEF onBook
<1> QED BY <1>1, <1>2, <1>4 DEF onBook

\* A subscriber gets each new book, nobody else gets one.
LEMMA Published ==
  ASSUME SentByVenue, BookSound, OnePlace, LatestIsCurrent, BookIsVenues,
         \/ invalidateBook
         \/ \E m \in Messages : onBook(m),
         BookSound', UNCHANGED <<nonce, joined, cache, seen>>
  PROVE  OnePlace' /\ LatestIsCurrent' /\ BookIsVenues'
<1>1. bookSnapshot' = Empty \/ (book'.nonce \in 1..nonce /\ book'.levels = Truth[book'.nonce])
  BY DEF BookSound
<1>2. book'.synced \/ bookSnapshot' = Empty
  BY DEF BookSound
<1>3. CASE UNCHANGED <<book, chan>>
  BY <1>3 DEF OnePlace, LatestIsCurrent, BookIsVenues, bookSnapshot
<1>4. CASE publishBook(bookSnapshot')
  <2>1. CASE joined
    <3>1. chan' = <<bookSnapshot'>>
      BY <1>4, <2>1 DEF publishBook
    <3>2. OnePlace' /\ LatestIsCurrent'
      BY <1>2, <3>1 DEF OnePlace, LatestIsCurrent
    <3>3. BookIsVenues'
      BY <1>1, <3>1 DEF BookIsVenues, bookSnapshot
    <3> QED BY <3>2, <3>3
  <2>2. CASE ~joined
    <3>1. chan' = chan
      BY <1>4, <2>2 DEF publishBook
    <3> QED BY <1>1, <2>2, <3>1 DEF OnePlace, LatestIsCurrent, BookIsVenues, bookSnapshot
  <2> QED BY <2>1, <2>2
<1>5. ASSUME invalidateBook PROVE publishBook(bookSnapshot')
  BY <1>5 DEF invalidateBook, publishBook, bookSnapshot, Empty
<1>6. ASSUME NEW m \in Messages, onBook(m) PROVE UNCHANGED <<book, chan>> \/ publishBook(bookSnapshot')
  BY <1>5, <1>6 DEF onBook, publishBook, bookSnapshot
<1> QED BY <1>3, <1>4, <1>5, <1>6

-----------------------------------------------------------------------------
(* The invariant. *)

LEMMA InvInit == Init => BookInv
<1> SUFFICES ASSUME Init PROVE BookInv
  OBVIOUS
<1>1. BookSound /\ OnePlace /\ StartsEmpty
  BY DEF Init, BookSound, OnePlace, StartsEmpty, bookSnapshot, Empty
<1>2. BookIsVenues
  BY DEF Init, BookIsVenues, bookSnapshot, Empty
<1>3. LatestIsCurrent /\ NoLostWakeup
  BY DEF Init, LatestIsCurrent, NoLostWakeup, Empty
<1> QED BY SentInit, <1>1, <1>2, <1>3 DEF BookInv

\* Steps that touch neither the book nor what subscribers hold.
LEMMA Elsewhere ==
  ASSUME BookInv, SentByVenue', nonce <= nonce', UNCHANGED subscriberVars
  PROVE  BookInv'
<1> USE DEF BookInv, subscriberVars, readVars
<1>1. 1..nonce \subseteq 1..nonce'
  BY DEF SentByVenue
<1>2. BookSound'
  BY <1>1 DEF BookSound, bookSnapshot
<1>3. OnePlace' /\ StartsEmpty' /\ LatestIsCurrent' /\ NoLostWakeup'
  BY DEF OnePlace, StartsEmpty, LatestIsCurrent, NoLostWakeup, bookSnapshot
<1>4. BookIsVenues'
  BY <1>1 DEF BookIsVenues, bookSnapshot
<1> QED BY <1>2, <1>3, <1>4

\* Steps of the reader of the connection.
LEMMA AdapterStep ==
  ASSUME BookInv, SentByVenue', Reset \/ ResetLost \/ Read
  PROVE  BookInv'
<1> USE DEF BookInv
<1>1. UNCHANGED <<nonce, joined, collector, readVars>>
  BY DEF Reset, ResetLost, Read, subVars, venueVars
<1>2. invalidateBook \/ \E m \in Messages : onBook(m)
  <2>1. down # <<>> => Head(down) \in Messages
    BY DEF SentByVenue
  <2> QED BY <2>1 DEF Reset, ResetLost, Read
<1>3. BookSound'
  <2>1. invalidateBook => BookSound'
    BY DEF invalidateBook, BookSound, bookSnapshot, Empty
  <2>2. ASSUME NEW m \in Messages, onBook(m) PROVE BookSound'
    BY <1>1, <2>2, BookStep
  <2> QED BY <1>2, <2>1, <2>2
<1>4. OnePlace' /\ LatestIsCurrent' /\ BookIsVenues'
  BY <1>1, <1>2, <1>3, Published DEF readVars
<1>5. StartsEmpty' /\ NoLostWakeup'
  BY <1>1 DEF StartsEmpty, NoLostWakeup, readVars
<1> QED BY <1>3, <1>4, <1>5

\* Steps of the subscriber's goroutine and of the decision loop, and of those who start and
\* end them.
LEMMA SubscriberStep ==
  ASSUME BookInv, SentByVenue', SubscribeBook \/ Collect \/ Decide \/ Leave \/ EndStream
  PROVE  BookInv'
<1> USE DEF BookInv
<1>1. UNCHANGED <<nonce, book>>
  BY DEF SubscribeBook, Collect, Register, Receive, StreamClosed, Notify, Decide, Wake, quote, Leave, EndStream,
     venueVars
<1>2. BookSound'
  BY <1>1 DEF BookSound, bookSnapshot
<1>3. bookSnapshot' = bookSnapshot
  BY <1>1 DEF bookSnapshot
<1>4. CASE SubscribeBook
  <2>1. OnePlace'
    BY <1>4 DEF SubscribeBook, OnePlace
  <2>2. LatestIsCurrent'
    <3>1. cache' = Empty
      BY <1>4 DEF SubscribeBook, StartsEmpty, readVars
    <3> QED BY <1>1, <1>3, <1>4, <3>1 DEF SubscribeBook, LatestIsCurrent
  <2>3. BookIsVenues'
    BY <1>1, <1>2, <1>3, <1>4 DEF SubscribeBook, BookIsVenues, readVars
  <2>4. StartsEmpty' /\ NoLostWakeup'
    BY <1>4 DEF SubscribeBook, StartsEmpty, NoLostWakeup, readVars
  <2> QED BY <1>2, <2>1, <2>2, <2>3, <2>4
<1>5. CASE Receive
  <2>1. chan = <<Head(chan)>> /\ cache' = Head(chan) /\ chan' = <<>>
    BY <1>5 DEF Receive, OnePlace
  <2>2. BookIsVenues'
    <3>1. Head(chan) = chan[1] /\ 1 \in DOMAIN chan
      BY <2>1
    <3> QED BY <1>1, <1>3, <1>5, <2>1, <3>1 DEF Receive, BookIsVenues
  <2>3. LatestIsCurrent'
    BY <1>1, <1>3, <1>5, <2>1 DEF Receive, LatestIsCurrent
  <2>4. OnePlace' /\ StartsEmpty' /\ NoLostWakeup'
    BY <1>5, <2>1 DEF Receive, OnePlace, StartsEmpty, NoLostWakeup
  <2> QED BY <1>2, <2>2, <2>3, <2>4
<1>6. CASE Leave
  <2>1. cache' = Empty /\ seen' = Empty /\ chan' = <<>> /\ ~joined'
    BY <1>6 DEF Leave
  <2>2. BookIsVenues'
    BY <1>1, <1>3, <2>1 DEF BookIsVenues
  <2> QED BY <1>2, <2>1, <2>2 DEF OnePlace, StartsEmpty, LatestIsCurrent, NoLostWakeup
<1>7. CASE StreamClosed
  <2>1. cache' \in {cache, Empty} /\ UNCHANGED <<seen, chan, decider>>
        /\ ~joined /\ ~joined' /\ (wake' <=> wake)
    BY <1>7 DEF StreamClosed
  <2>2. BookIsVenues'
    BY <1>1, <1>3, <2>1 DEF BookIsVenues
  <2>3. OnePlace' /\ LatestIsCurrent'
    BY <2>1 DEF OnePlace, LatestIsCurrent
  <2>4. StartsEmpty'
    BY <1>7 DEF StreamClosed, StartsEmpty
  <2>5. NoLostWakeup'
    BY <1>7, <2>1 DEF StreamClosed, NoLostWakeup
  <2> QED BY <1>2, <2>2, <2>3, <2>4, <2>5
<1>8. CASE quote
  <2>1. seen' = cache /\ UNCHANGED <<chan, joined, cache, wake, collector>>
    BY <1>8 DEF quote, subVars
  <2>2. BookIsVenues'
    BY <1>1, <1>3, <2>1 DEF BookIsVenues
  <2>3. OnePlace' /\ StartsEmpty' /\ LatestIsCurrent' /\ NoLostWakeup'
    BY <1>1, <1>3, <2>1 DEF OnePlace, StartsEmpty, LatestIsCurrent, NoLostWakeup
  <2> QED BY <1>2, <2>2, <2>3
<1>9. ASSUME Register \/ Notify \/ Wake \/ EndStream PROVE BookInv'
  <2>1. UNCHANGED <<chan, cache, seen>> /\ (joined' => joined)
    <3>1. UNCHANGED <<chan, cache, seen>>
      BY <1>9 DEF Register, Notify, Wake, EndStream, readVars
    <3>2. ~EndStream => (joined' <=> joined)
      BY <1>9 DEF Register, Notify, Wake, subVars
    <3>3. EndStream => ~joined'
      BY DEF EndStream
    <3> QED BY <3>1, <3>2, <3>3
  <2>2. BookIsVenues' /\ OnePlace' /\ LatestIsCurrent'
    BY <1>1, <1>3, <2>1 DEF BookIsVenues, OnePlace, LatestIsCurrent
  <2>3. StartsEmpty'
    BY <1>9, <2>1 DEF Register, Notify, Wake, EndStream, subVars, StartsEmpty
  <2>4. ASSUME Notify PROVE NoLostWakeup'
    BY <2>1, <2>4 DEF Notify, Wakes, NoLostWakeup
  <2>5. ASSUME Wake PROVE NoLostWakeup'
    BY <2>1, <2>5 DEF Wake, NoLostWakeup
  <2>6. ASSUME Register \/ EndStream PROVE NoLostWakeup'
    <3>1. (wake' <=> wake) /\ decider' = decider /\ (collector' = collector \/ collector = "register")
      BY <2>6 DEF Register, EndStream, readVars
    <3> QED BY <2>1, <3>1 DEF NoLostWakeup
  <2> QED BY <1>2, <1>9, <2>2, <2>3, <2>4, <2>5, <2>6
<1> QED BY <1>4, <1>5, <1>6, <1>7, <1>8, <1>9 DEF Collect, Decide

LEMMA InvStep == ASSUME BookInv, [Next]_vars PROVE BookInv'
<1>1. SentByVenue'
  BY SentStep DEF BookInv
<1>2. CASE Reset \/ ResetLost \/ Read
  BY <1>1, <1>2, AdapterStep
<1>3. CASE SubscribeBook \/ Collect \/ Decide \/ Leave \/ EndStream
  BY <1>1, <1>3, SubscriberStep
<1>4. nonce \in Nat
  BY BookAssumption DEF BookInv, SentByVenue
<1>5. CASE Trade
  BY <1>1, <1>4, <1>5, Elsewhere DEF Trade, subVars, subscriberVars
<1>6. ASSUME \/ Serve \/ Update \/ Cut \/ Close \/ UNCHANGED vars
             \/ Dial \/ SendSubs \/ ReadFails \/ Drop \/ LoopExits
             \/ \E j \in Jobs : Job(j)
      PROVE  BookInv'
  <2>1. nonce' = nonce /\ UNCHANGED subscriberVars
    BY <1>6 DEF Serve, Update, Cut, Close, vars, Dial, SendSubs, ReadFails, Drop, LoopExits, Job, Capture,
       Unsubscribe, sendSub, venueVars, subVars, subscriberVars
  <2> QED BY <1>1, <1>4, <2>1, Elsewhere
<1> QED BY <1>2, <1>3, <1>5, <1>6 DEF Next, Client

\* What a decision can use: the unread messages are the venue's, the book is the venue's at its
\* nonce or empty, and what subscribers hold is that book or one the venue had before.
THEOREM Invariant == Spec => []BookInv
BY InvInit, InvStep, PTL DEF Spec

\* A book a decision can use is one the venue had, whole, for any levels and books, whatever is
\* lost, malformed or cut off (onBook's gap check, invalidateBook, resetBooks).
THEOREM BookTrue == Spec => []BookIsVenues
BY Invariant, PTL DEF BookInv

\* Nothing invalidated stays behind in a channel or a cache (publishBook, SubscribeBook).
THEOREM LatestCurrent == Spec => []LatestIsCurrent
BY Invariant, PTL DEF BookInv

\* No wake-up is lost between the cache and the decision loop (wakeDecide, notify).
THEOREM WakeupKept == Spec => []NoLostWakeup
BY Invariant, PTL DEF BookInv

-----------------------------------------------------------------------------
(* The types. *)

Orders == {"subscribe", "unsubscribe"}
JobTypes == [at : {"idle", "capture", "unsubscribe", "subscribe"}, conn : 0..made]

LEMMA EmptyType == Empty \in Books
BY BookAssumption DEF Empty, Books

LEMMA BookType ==
  ASSUME SentByVenue, BookSound
  PROVE  /\ book \in [synced : BOOLEAN, nonce : 0..MaxNonce, levels : [Levels -> Nat]]
         /\ bookSnapshot \in Books
<1>1. book.nonce \in 0..MaxNonce /\ book.levels \in [Levels -> Nat]
  <2>1. CASE book.synced
    <3>1. book.nonce \in 1..MaxNonce /\ book.levels = Truth[book.nonce]
      BY <2>1, BookAssumption DEF BookSound, SentByVenue
    <3> QED BY <3>1, BookAssumption
  <2>2. CASE ~book.synced
    <3>1. bookSnapshot = Empty
      BY <2>2 DEF BookSound
    <3>2. book.nonce = Empty.nonce /\ book.levels = Empty.levels
      BY <3>1 DEF bookSnapshot, Empty
    <3> QED BY <3>2, EmptyType DEF Books
  <2> QED BY <2>1, <2>2
<1>2. book.synced \in BOOLEAN /\ book = [synced |-> book.synced, nonce |-> book.nonce, levels |-> book.levels]
  BY DEF BookSound
<1>3. [synced |-> book.synced, nonce |-> book.nonce, levels |-> book.levels]
        \in [synced : BOOLEAN, nonce : 0..MaxNonce, levels : [Levels -> Nat]]
  BY <1>1, <1>2
<1> QED BY <1>1, <1>2, <1>3 DEF bookSnapshot, Books

LEMMA MessageType ==
  ASSUME SentByVenue, NEW i \in DOMAIN down
  PROVE  down[i].type \in {"snapshot", "delta", "bad"} /\ down[i].nonce \in 0..MaxNonce
<1>1. down[i] \in Messages /\ 1..nonce \subseteq 0..MaxNonce /\ 0 \in 0..MaxNonce
  BY BookAssumption DEF SentByVenue
<1> QED BY <1>1 DEF Messages, Bad

\* What a write leaves of the connection.
LEMMA WireType ==
  ASSUME up \in Seq(Orders), link \in {"open", "cut", "shut"}, NEW c, NEW m \in Orders, Write(c, m) \/ WriteFails(c)
  PROVE  up' \in Seq(Orders) /\ link' \in {"open", "cut", "shut"}
BY DEF Write, Sent, Vanished, WriteFails, wireVars

LEMMA SpawnType ==
  ASSUME jobs \in [Jobs -> JobTypes], Spawn
  PROVE  jobs' \in [Jobs -> JobTypes]
<1> DEFINE k == CHOOSE i \in Jobs : jobs[i] = Idle
<1> HIDE DEF k
<1>1. jobs' = [jobs EXCEPT ![k].at = "capture"]
  BY DEF Spawn, k
<1>2. ASSUME k \in Jobs PROVE jobs[k] \in JobTypes
  BY <1>2
<1> QED BY <1>1, <1>2 DEF JobTypes

\* What a subscriber may find in its channel.
ChanTypes == {<<>>} \cup {<<b>> : b \in Books}

LEMMA ChanType == TypeOK /\ OnePlace => chan \in ChanTypes
BY DEF TypeOK, OnePlace, ChanTypes

\* The types of what is neither a message nor a book.
Places ==
  /\ made \in Nat /\ conn \in {0, made} /\ jobs \in [Jobs -> JobTypes]
  /\ up \in Seq(Orders) /\ link \in {"open", "cut", "shut"}
  /\ loop \in {"off", "dial", "reset", "send", "read", "lost", "drop", "exit"}
  /\ collector \in {"off", "register", "receive", "notify", "last", "ended"}
  /\ decider \in {"idle", "reading"}
Flags ==
  /\ todo \in BOOLEAN /\ started \in BOOLEAN /\ joined \in BOOLEAN /\ wake \in BOOLEAN /\ closed \in BOOLEAN
  /\ joins \in 0..MaxJoins /\ faults \in 0..MaxFaults
Held == chan \in ChanTypes /\ cache \in Books /\ seen \in Books

LEMMA TypeParts == TypeOK /\ OnePlace => Places /\ Flags /\ Held
<1> SUFFICES ASSUME TypeOK, OnePlace PROVE Places /\ Flags /\ Held
  OBVIOUS
<1>1. Places
  BY DEF TypeOK, Places, Orders, JobTypes
<1>2. Flags
  BY DEF TypeOK, Flags
<1>3. Held
  BY ChanType DEF TypeOK, Held
<1> QED BY <1>1, <1>2, <1>3

LEMMA TypeFrom ==
  ASSUME SentByVenue, BookSound, Places, Flags, Held
  PROVE  TypeOK
<1>1. \A i \in DOMAIN down : down[i].type \in {"snapshot", "delta", "bad"} /\ down[i].nonce \in 0..MaxNonce
  BY MessageType
<1>2. book \in [synced : BOOLEAN, nonce : 0..MaxNonce, levels : [Levels -> Nat]]
  BY BookType
<1>3. chan = <<>> \/ (Len(chan) = 1 /\ chan[1] \in Books)
  BY DEF Held, ChanTypes
<1> QED BY <1>1, <1>2, <1>3 DEF TypeOK, SentByVenue, Places, Flags, Held, Orders, JobTypes

LEMMA TypeInit == Init => TypeOK
<1> SUFFICES ASSUME Init PROVE TypeOK
  OBVIOUS
<1>1. /\ nonce \in 1..MaxNonce /\ down = <<>> /\ up \in Seq(Orders) /\ made \in Nat /\ joins \in 0..MaxJoins
      /\ faults \in 0..MaxFaults /\ feed \in 0..nonce
  BY BookAssumption DEF Init
<1>2. jobs \in [Jobs -> JobTypes]
  BY <1>1 DEF Init, Idle, JobTypes
<1>3. book \in [synced : BOOLEAN, nonce : 0..MaxNonce, levels : [Levels -> Nat]]
  BY EmptyType DEF Init, Books, Empty
<1>4. jobs \in [Jobs -> [at : {"idle", "capture", "unsubscribe", "subscribe"}, conn : 0..made]]
      /\ up \in Seq({"subscribe", "unsubscribe"})
  BY <1>1, <1>2 DEF Orders, JobTypes
<1>5. nonce \in 1..MaxNonce /\ feed \in 0..nonce /\ chan = <<>> /\ DOMAIN down = {}
  BY <1>1 DEF Init
<1>6. cache \in Books /\ seen \in Books
  BY EmptyType DEF Init
<1> QED BY <1>1, <1>3, <1>4, <1>5, <1>6 DEF Init, TypeOK

\* The adapter's steps.
LEMMA PublishedType ==
  ASSUME Held, BookSound', SentByVenue', invalidateBook \/ \E m \in Messages : onBook(m)
  PROVE  chan' \in ChanTypes
<1>1. bookSnapshot' \in Books
  <2>1. CASE book'.synced
    <3>1. book'.nonce \in 1..MaxNonce /\ book'.levels = Truth[book'.nonce]
      BY <2>1, BookAssumption DEF BookSound, SentByVenue
    <3>2. Truth[book'.nonce] \in [Levels -> Nat]
      BY <3>1, BookAssumption
    <3> QED BY <3>1, <3>2 DEF bookSnapshot, Books
  <2>2. CASE ~book'.synced
    BY <2>2, EmptyType DEF BookSound
  <2> QED BY <2>1, <2>2
<1>2. invalidateBook => publishBook(bookSnapshot')
  BY DEF invalidateBook, publishBook, bookSnapshot, Empty
<1>3. ASSUME NEW m \in Messages, onBook(m) PROVE chan' = chan \/ publishBook(bookSnapshot')
  BY <1>2, <1>3 DEF onBook, publishBook, bookSnapshot
<1>4. chan' = chan \/ publishBook(bookSnapshot')
  BY <1>2, <1>3
<1>5. chan \in ChanTypes
  BY DEF Held
<1> QED BY <1>1, <1>4, <1>5 DEF publishBook, ChanTypes

LEMMA TypeStep ==
  ASSUME BookInv, BookInv', Places, Flags, Held, [Next]_vars
  PROVE  Places' /\ Flags' /\ Held'
<1> USE DEF Places, Flags, Held
<1>1. CASE UNCHANGED vars
  BY <1>1 DEF vars, venueVars, wireVars, loopVars, subVars, readVars, JobTypes
<1>2. CASE Trade
  BY <1>2 DEF Trade, wireVars, loopVars, subVars, readVars, JobTypes
<1>3. CASE Serve
  BY <1>3 DEF Serve, loopVars, subVars, readVars, JobTypes
<1>4. CASE Update
  BY <1>4, BookAssumption DEF Update, loopVars, subVars, readVars, JobTypes
<1>5. CASE Cut
  BY <1>5, BookAssumption DEF Cut, loopVars, subVars, readVars, JobTypes
<1>6. CASE Dial
  <2>1. 0..made \subseteq 0..made'
    BY <1>6 DEF Dial
  <2>2. JobTypes \subseteq JobTypes'
    BY <2>1 DEF JobTypes
  <2>3. jobs' \in [Jobs -> JobTypes']
    BY <1>6, <2>2 DEF Dial
  <2> QED BY <1>6, <2>3 DEF Dial, subVars, readVars
<1>7. CASE Reset \/ ResetLost
  <2>1. chan' \in ChanTypes
    BY <1>7, PublishedType DEF Reset, ResetLost, BookInv
  <2> QED BY <1>7, <2>1 DEF Reset, ResetLost, wireVars, subVars, readVars, JobTypes
<1>8. CASE SendSubs
  <2>1. up' \in Seq(Orders) /\ link' \in {"open", "cut", "shut"}
    BY <1>8, WireType DEF SendSubs, Orders, wireVars
  <2> QED BY <1>8, <2>1 DEF SendSubs, subVars, readVars, JobTypes
<1>9. CASE Read
  <2>1. Head(down) \in Messages
    BY <1>9 DEF Read, BookInv, SentByVenue
  <2>2. chan' \in ChanTypes
    BY <1>9, <2>1, PublishedType DEF Read, BookInv
  <2>3. jobs' \in [Jobs -> JobTypes]
    BY <1>9, SpawnType DEF Read, onBook
  <2> QED BY <1>9, <2>2, <2>3 DEF Read, loopVars, subVars, readVars, JobTypes
<1>10. CASE ReadFails \/ Drop \/ LoopExits
  <2>1. CASE ReadFails
    BY <2>1 DEF ReadFails, wireVars, subVars, readVars, JobTypes
  <2>2. CASE Drop
    BY <2>2 DEF Drop, wireVars, subVars, readVars, JobTypes
  <2>3. CASE LoopExits
    BY <2>3 DEF LoopExits, wireVars, subVars, readVars, JobTypes
  <2> QED BY <1>10, <2>1, <2>2, <2>3
<1>11. ASSUME NEW j \in Jobs, Job(j) PROVE Places' /\ Flags' /\ Held'
  <2>1. jobs[j] \in JobTypes /\ conn \in 0..made
    OBVIOUS
  <2>2. jobs' \in [Jobs -> JobTypes]
    BY <1>11, <2>1 DEF Job, Capture, Unsubscribe, sendSub, JobTypes, Idle
  <2>3. up' \in Seq(Orders) /\ link' \in {"open", "cut", "shut"}
    BY <1>11, WireType DEF Job, Capture, Unsubscribe, sendSub, Unsubscribes, Orders, wireVars
  <2> QED BY <1>11, <2>2, <2>3 DEF Job, Capture, Unsubscribe, sendSub, loopVars, subVars, readVars, JobTypes
<1>12. CASE SubscribeBook
  <2>1. chan' \in ChanTypes
    BY <1>12, BookType DEF SubscribeBook, ChanTypes, BookInv
  <2> QED BY <1>12, <2>1, BookAssumption DEF SubscribeBook, wireVars, loopVars, readVars, JobTypes
<1>13. CASE Register
  <2>1. jobs' \in [Jobs -> JobTypes]
    <3> DEFINE k == CHOOSE i \in Jobs : jobs[i] = Idle
    <3> HIDE DEF k
    <3>1. jobs' = jobs \/ jobs' = [jobs EXCEPT ![k] = [at |-> "subscribe", conn |-> conn]]
      BY <1>13 DEF Register, k
    <3>2. [at |-> "subscribe", conn |-> conn] \in JobTypes
      BY DEF JobTypes
    <3> QED BY <3>1, <3>2
  <2>2. started' \in BOOLEAN /\ loop' \in {loop, "dial"} /\ JobTypes' = JobTypes
    BY <1>13 DEF Register, JobTypes
  <2> QED BY <1>13, <2>1, <2>2 DEF Register, wireVars, readVars
<1>14. CASE Receive \/ StreamClosed \/ Notify
  <2>1. cache' \in Books /\ chan' \in ChanTypes
    <3>1. Receive => Head(chan) \in Books
      BY DEF Receive, ChanTypes
    <3> QED BY <1>14, <3>1, EmptyType DEF Receive, StreamClosed, Notify, ChanTypes
  <2>2. wake' \in BOOLEAN
    BY <1>14 DEF Receive, StreamClosed, Notify
  <2> QED BY <1>14, <2>1, <2>2 DEF Receive, StreamClosed, Notify, wireVars, loopVars, JobTypes
<1>15. CASE Decide
  <2>1. CASE Wake
    <3>1. /\ wake' = FALSE /\ decider' = "reading"
          /\ UNCHANGED <<wireVars, loopVars, started, jobs, subVars, chan, cache, seen, closed, faults>>
      BY <2>1 DEF Wake
    <3>2. Places'
      BY <3>1 DEF wireVars, loopVars, subVars, JobTypes
    <3>3. Flags'
      BY <3>1 DEF loopVars, subVars
    <3>4. Held'
      BY <3>1
    <3> QED BY <3>2, <3>3, <3>4
  <2>2. CASE quote
    BY <2>2 DEF quote, wireVars, loopVars, subVars, JobTypes
  <2> QED BY <1>15, <2>1, <2>2 DEF Decide
<1>16. CASE Leave
  BY <1>16, EmptyType DEF Leave, wireVars, loopVars, JobTypes, ChanTypes
<1>17. CASE Close \/ EndStream
  <2>1. CASE Close
    BY <2>1 DEF Close, loopVars, subVars, readVars, JobTypes
  <2>2. CASE EndStream
    <3>1. /\ joined' = FALSE
          /\ UNCHANGED <<wireVars, loopVars, started, jobs, joins, collector, chan, readVars, closed, faults>>
      BY <2>2 DEF EndStream
    <3>2. Places'
      BY <3>1 DEF wireVars, loopVars, readVars, JobTypes
    <3>3. Flags'
      BY <3>1 DEF loopVars, readVars
    <3>4. Held'
      BY <3>1 DEF readVars
    <3> QED BY <3>2, <3>3, <3>4
  <2> QED BY <1>17, <2>1, <2>2
<1> QED BY <1>1, <1>2, <1>3, <1>4, <1>5, <1>6, <1>7, <1>8, <1>9, <1>10, <1>11, <1>12, <1>13, <1>14, <1>15, <1>16,
        <1>17 DEF Next, Client, Collect

\* Every variable keeps its type: one place in a subscriber's channel, jobs on connections that
\* were made, books with a size for every level.
THEOREM TypeCorrect == Spec => []TypeOK
<1>1. Init => BookInv /\ Places /\ Flags /\ Held
  BY InvInit, TypeInit, TypeParts DEF BookInv
<1>2. BookInv /\ Places /\ Flags /\ Held /\ [Next]_vars => (BookInv /\ Places /\ Flags /\ Held)'
  BY InvStep, TypeStep
<1>3. BookInv /\ Places /\ Flags /\ Held => TypeOK
  BY TypeFrom DEF BookInv
<1> QED BY <1>1, <1>2, <1>3, PTL DEF Spec

-----------------------------------------------------------------------------
(* One resubscription for a fault. *)

LEMMA FinitePlaces ==
  ASSUME SentByVenue
  PROVE  /\ IsFiniteSet(Jobs) /\ Cardinality(Jobs) = MaxFaults + 1
         /\ IsFiniteSet(Busy) /\ Cardinality(Busy) \in Nat
         /\ IsFiniteSet(Upsetting) /\ Cardinality(Upsetting) \in Nat
<1>1. IsFiniteSet(Jobs) /\ Cardinality(Jobs) = MaxFaults + 1
  BY FS_Interval, BookAssumption DEF Jobs
<1>2. Busy \subseteq Jobs
  BY DEF Busy
<1>3. IsFiniteSet(1..Len(down) + 1)
  BY FS_Interval DEF SentByVenue
<1>4. Upsetting \subseteq 1..Len(down) + 1
  BY DEF Upsetting
<1> QED BY <1>1, <1>2, <1>3, <1>4, FS_Subset, FS_CardinalityType

LEMMA AddedOne ==
  ASSUME NEW S, IsFiniteSet(S), NEW x
  PROVE  IsFiniteSet(S \cup {x}) /\ Cardinality(S \cup {x}) <= Cardinality(S) + 1
<1>1. Cardinality(S) \in Nat
  BY FS_CardinalityType
<1>2. IsFiniteSet(S \cup {x}) /\ Cardinality(S \cup {x}) = IF x \in S THEN Cardinality(S) ELSE Cardinality(S) + 1
  BY FS_AddElement
<1> QED BY <1>1, <1>2

\* A step that neither upsets anybody nor starts a goroutine.
LEMMA NoCharge ==
  ASSUME FaultsPay, SentByVenue, Flags, Upsetting' \subseteq Upsetting, Busy' \subseteq Busy, faults' = faults,
         Registered => Registered', collector' = "register" => joins' > 0
  PROVE  FaultsPay'
<1>1. Cardinality(Upsetting') <= Cardinality(Upsetting) /\ Cardinality(Busy') <= Cardinality(Busy)
  BY FinitePlaces, FS_Subset
<1>2. Cardinality(Upsetting') \in Nat /\ Cardinality(Busy') \in Nat
  BY FinitePlaces, FS_Subset, FS_CardinalityType
<1> HIDE DEF Upsetting, Busy, Registered
<1> QED BY <1>1, <1>2, FinitePlaces, BookAssumption DEF FaultsPay, Flags

\* A fault.
LEMMA Charge ==
  ASSUME FaultsPay, SentByVenue, Flags, NEW x, Upsetting' \subseteq Upsetting \cup {x}, Busy' = Busy,
         faults' = faults + 1, UNCHANGED <<joins, collector>>
  PROVE  FaultsPay'
<1>1. IsFiniteSet(Upsetting \cup {x}) /\ Cardinality(Upsetting \cup {x}) <= Cardinality(Upsetting) + 1
  BY FinitePlaces, AddedOne
<1>2. Cardinality(Upsetting \cup {x}) \in Nat
  BY <1>1, FS_CardinalityType
<1>3. Cardinality(Upsetting') <= Cardinality(Upsetting \cup {x}) /\ Cardinality(Upsetting') \in Nat
  BY <1>1, FS_Subset, FS_CardinalityType
<1>4. Registered' <=> Registered
  BY DEF Registered
<1> QED BY <1>1, <1>2, <1>3, <1>4, FinitePlaces, BookAssumption DEF FaultsPay, Flags

\* What the messages keep when nothing arrives.
LEMMA SameUpsets ==
  ASSUME SentByVenue, down' = down, feed' \in {feed, 0}, book'.nonce \in {book.nonce, 0}
  PROVE  Upsetting' \subseteq Upsetting
<1>1. \A i : Before(i)' = Before(i) \/ Before(i)' = 0
  BY DEF Before
<1> QED BY <1>1 DEF Upsetting

LEMMA NoUpsets ==
  ASSUME down' = <<>>, feed' = 0
  PROVE  Upsetting' \subseteq Upsetting
<1>1. Len(down') = 0
  OBVIOUS
<1> QED BY <1>1 DEF Upsetting

\* What the messages keep when another one is appended.
LEMMA AppendUpsets ==
  ASSUME SentByVenue, NEW m \in Messages, down' = Append(down, m), book' = book, feed' = 0 \/ m.nonce \in {0, feed'}
  PROVE  Upsetting' \subseteq Upsetting \cup {Len(down) + 1}
<1>1. /\ Len(down) \in Nat /\ Len(down') = Len(down) + 1
      /\ \A i \in 1..Len(down) : down'[i] = down[i]
      /\ down'[Len(down) + 1] = m
  BY DEF SentByVenue
<1>2. SUFFICES ASSUME NEW i \in Upsetting', i # Len(down) + 1 PROVE i \in Upsetting
  OBVIOUS
<1>3. i \in 1..Len(down) + 2
  BY <1>1 DEF Upsetting
<1>4. CASE i = Len(down) + 2
  <2>1. Before(i)' = m.nonce
    BY <1>1, <1>4 DEF Before
  <2> QED BY <1>1, <1>4, <2>1 DEF Upsetting
<1>5. CASE i \in 1..Len(down)
  <2>1. down'[i] = down[i] /\ Before(i)' = Before(i)
    BY <1>1, <1>5 DEF Before
  <2> QED BY <1>1, <1>5, <2>1 DEF Upsetting
<1> QED BY <1>1, <1>2, <1>3, <1>4, <1>5

LEMMA CutUpsets ==
  ASSUME SentByVenue, NEW n \in 0..Len(down), down' = SubSeq(down, 1, n), feed' = 0, book' = book
  PROVE  Upsetting' \subseteq Upsetting
<1>1. /\ Len(down) \in Nat /\ Len(down') = n
      /\ \A i \in 1..n : down'[i] = down[i]
  BY DEF SentByVenue
<1>2. SUFFICES ASSUME NEW i \in Upsetting' PROVE i \in Upsetting
  OBVIOUS
<1>3. i \in 1..n /\ i \in 1..Len(down)
  BY <1>1 DEF Upsetting
<1>4. down'[i] = down[i] /\ Before(i)' = Before(i)
  BY <1>1, <1>3 DEF Before
<1> QED BY <1>1, <1>3, <1>4 DEF Upsetting

\* A message that is read is no longer in the way; one that upsets was counted.
LEMMA ReadStep ==
  ASSUME FaultsPay, BookInv, Places, Flags, Read
  PROVE  FaultsPay'
<1> USE DEF BookInv
<1> DEFINE m == Head(down)
           rest == Upsetting \ {1}
<1>1. /\ down # <<>> /\ onBook(m) /\ down' = Tail(down) /\ UNCHANGED <<feed, joins, collector, faults>>
  BY DEF Read, venueVars, subVars
<1>2. /\ m = down[1] /\ m \in Messages /\ Len(down) \in Nat \ {0} /\ Len(down') = Len(down) - 1
      /\ \A i \in 1..Len(down) - 1 : down'[i] = down[i + 1]
  BY <1>1 DEF SentByVenue
<1>3. book'.nonce \in {0, m.nonce}
  <2>1. ~book.synced => book.nonce = 0
    BY DEF BookSound, bookSnapshot, Empty
  <2>2. invalidateBook => book'.nonce = 0
    BY DEF invalidateBook
  <2> HIDE DEF m
  <2> QED BY <1>1, <2>1, <2>2 DEF onBook
<1>4. Cardinality(Upsetting') <= Cardinality(rest) /\ Cardinality(Upsetting') \in Nat
  <2>1. IsFiniteSet(rest)
    BY FinitePlaces, FS_RemoveElement
  <2>2. ASSUME NEW i \in Upsetting' PROVE i + 1 \in rest
    <3>1. i \in 1..Len(down)
      BY <1>2 DEF Upsetting
    <3>2. Before(i)' \in {0, down[i].nonce} /\ Before(i + 1) = down[i].nonce
      <4>1. CASE i = 1
        BY <1>2, <1>3, <4>1 DEF Before
      <4>2. CASE i # 1
        <5>1. i - 1 \in 1..Len(down) - 1 /\ (i - 1) + 1 = i
          BY <1>2, <3>1, <4>2
        <5>2. down'[i - 1] = down[i]
          BY <1>2, <5>1
        <5> QED BY <3>1, <4>2, <5>2 DEF Before
      <4> QED BY <4>1, <4>2
    <3>3. CASE i = Len(down)
      <4>1. feed # 0 /\ Before(i)' # 0 /\ feed # Before(i)'
        BY <1>1, <1>2, <3>1, <3>3 DEF Upsetting
      <4> QED BY <1>2, <3>1, <3>2, <3>3, <4>1 DEF Upsetting
    <3>4. CASE i # Len(down)
      <4>1. i \in 1..Len(down) - 1 /\ down'[i] = down[i + 1]
        BY <1>2, <3>1, <3>4
      <4>2. down'[i].type = "bad" \/ (down'[i].type = "delta" /\ Before(i)' # 0 /\ down'[i].begin # Before(i)')
        BY <1>2, <4>1 DEF Upsetting
      <4> QED BY <1>2, <3>2, <4>1, <4>2 DEF Upsetting
    <3> QED BY <3>3, <3>4
  <2>3. \A i \in Upsetting' : i \in Int
    BY <1>2 DEF Upsetting
  <2> DEFINE h == [i \in Upsetting' |-> i + 1]
  <2> HIDE DEF rest
  <2>4. h \in [Upsetting' -> rest] /\ \A i, k \in Upsetting' : h[i] = h[k] => i = k
    BY <2>2, <2>3
  <2> HIDE DEF h
  <2>5. h \in Injection(Upsetting', rest)
    BY <2>4 DEF Injection, IsInjective
  <2> QED BY <2>1, <2>5, FS_Injection, FS_CardinalityType
<1>5. CASE jobs' = jobs
  <2>1. Cardinality(rest) <= Cardinality(Upsetting)
    BY FinitePlaces, FS_Subset
  <2>2. Busy' = Busy /\ (Registered' <=> Registered) /\ Cardinality(rest) \in Nat
    BY <1>1, <1>5, FinitePlaces, FS_RemoveElement, FS_CardinalityType DEF Busy, Registered
  <2> HIDE DEF rest
  <2> QED BY <1>1, <1>4, <2>1, <2>2, FinitePlaces, BookAssumption DEF FaultsPay, Flags
<1>6. CASE Spawn /\ (m.type = "bad" \/ (m.type = "delta" /\ book.synced /\ Gap(m)))
  <2>1. 1 \in Upsetting
    BY <1>2, <1>6 DEF Upsetting, Before, Gap
  <2>2. Cardinality(rest) = Cardinality(Upsetting) - 1
    BY <2>1, FinitePlaces, FS_RemoveElement
  <2> HIDE DEF rest
  <2>3. PICK k : jobs' = [jobs EXCEPT ![k].at = "capture"]
    BY <1>6 DEF Spawn
  <2>4. Busy' \subseteq Busy \cup {k}
    <3>1. \A j \in Jobs : j # k => jobs'[j] = jobs[j]
      BY <2>3 DEF Places
    <3> QED BY <3>1 DEF Busy
  <2>5. Cardinality(Busy') <= Cardinality(Busy) + 1 /\ Cardinality(Busy') \in Nat
    <3>1. IsFiniteSet(Busy \cup {k}) /\ Cardinality(Busy \cup {k}) <= Cardinality(Busy) + 1
      BY FinitePlaces, AddedOne
    <3>2. Cardinality(Busy \cup {k}) \in Nat
      BY <3>1, FS_CardinalityType
    <3>3. Cardinality(Busy') <= Cardinality(Busy \cup {k}) /\ Cardinality(Busy') \in Nat
      BY <2>4, <3>1, FS_Subset, FS_CardinalityType
    <3> QED BY <3>1, <3>2, <3>3, FinitePlaces
  <2>6. Registered' <=> Registered
    BY <1>1 DEF Registered
  <2> QED BY <1>1, <1>4, <2>2, <2>5, <2>6, FinitePlaces, BookAssumption DEF FaultsPay, Flags
<1> QED BY <1>1, <1>5, <1>6 DEF onBook

\* The first subscriber's registration takes the place kept for it.
LEMMA RegisterStep ==
  ASSUME FaultsPay, SentByVenue, Places, Flags, Register
  PROVE  FaultsPay'
<1>1. /\ ~Registered /\ Registered' /\ joins > 0 /\ collector' = "receive"
      /\ UNCHANGED <<feed, down, book, joins, faults>>
  BY DEF Register, FaultsPay, Registered, venueVars, wireVars
<1>2. Upsetting' \subseteq Upsetting
  BY <1>1, SameUpsets
<1>3. PICK k : jobs' = jobs \/ jobs' = [jobs EXCEPT ![k] = [at |-> "subscribe", conn |-> conn]]
  BY DEF Register
<1>4. Busy' \subseteq Busy \cup {k}
  <2>1. \A j \in Jobs : j # k => jobs'[j] = jobs[j]
    BY <1>3 DEF Places
  <2> QED BY <2>1 DEF Busy
<1>5. IsFiniteSet(Busy \cup {k}) /\ Cardinality(Busy \cup {k}) <= Cardinality(Busy) + 1
  BY FinitePlaces, AddedOne
<1>6. Cardinality(Busy \cup {k}) \in Nat
  BY <1>5, FS_CardinalityType
<1>7. Cardinality(Busy') <= Cardinality(Busy \cup {k}) /\ Cardinality(Busy') \in Nat
  BY <1>4, <1>5, FS_Subset, FS_CardinalityType
<1>8. Cardinality(Upsetting') <= Cardinality(Upsetting) /\ Cardinality(Upsetting') \in Nat
  BY <1>2, FinitePlaces, FS_Subset, FS_CardinalityType
<1> QED BY <1>1, <1>5, <1>6, <1>7, <1>8, FinitePlaces, BookAssumption DEF FaultsPay, Flags

LEMMA SilentStep == ASSUME CutIsSilent, [Next]_vars PROVE CutIsSilent'
<1> USE DEF CutIsSilent
<1>1. ASSUME link' = link, feed' = feed PROVE CutIsSilent'
  BY <1>1
<1>2. ASSUME Dial \/ Drop \/ Cut \/ Close \/ Serve \/ Update PROVE CutIsSilent'
  BY <1>2 DEF Dial, Drop, Cut, Close, Serve, Update
<1>3. ASSUME SendSubs \/ \E j \in Jobs : Job(j) PROVE CutIsSilent'
  BY <1>3 DEF SendSubs, Job, Capture, Unsubscribe, sendSub, Write, Sent, Vanished, WriteFails, venueVars, wireVars
<1>4. ASSUME Trade \/ Reset \/ Read \/ ReadFails \/ ResetLost \/ LoopExits \/ SubscribeBook \/ Decide \/ Leave
             \/ EndStream \/ UNCHANGED vars
      PROVE  CutIsSilent'
  BY <1>1, <1>4 DEF Trade, Reset, Read, ReadFails, ResetLost, LoopExits, SubscribeBook, Decide, Wake, quote, Leave,
     EndStream, vars, venueVars, wireVars
<1>5. ASSUME Collect PROVE CutIsSilent'
  BY <1>1, <1>5 DEF Collect, Register, Receive, StreamClosed, Notify, venueVars, wireVars
<1> QED BY <1>2, <1>3, <1>4, <1>5 DEF Next, Client

LEMMA PayStep ==
  ASSUME BookInv, Places, Flags, FaultsPay, CutIsSilent, [Next]_vars
  PROVE  FaultsPay'
<1>0. SentByVenue
  BY DEF BookInv
<1>1. CASE Read
  BY <1>1, ReadStep
<1>2. CASE Register
  BY <1>0, <1>2, RegisterStep
<1>3. CASE Update
  <2>1. /\ feed' = nonce /\ UNCHANGED <<joins, collector, jobs, book>>
        /\ Change \in Messages /\ Bad \in Messages /\ Change.nonce = nonce /\ Bad.nonce = 0
    BY <1>0, <1>3 DEF Update, subVars, Change, Bad, Messages, SentByVenue
  <2>2. Busy' = Busy /\ (Registered' <=> Registered)
    BY <2>1 DEF Busy, Registered
  <2>3. CASE down' = Append(down, Change) /\ faults' = faults
    <3>1. Upsetting' \subseteq Upsetting \cup {Len(down) + 1}
      BY <1>0, <2>1, <2>3, AppendUpsets
    <3>2. Len(down) + 1 \in Upsetting' => Len(down) + 1 \in Upsetting
      <4>1. /\ Len(down) \in Nat /\ Len(down') = Len(down) + 1 /\ down'[Len(down) + 1] = Change
            /\ Len(down) >= 1 => down'[Len(down)] = down[Len(down)]
        BY <1>0, <2>3 DEF SentByVenue, Change
      <4>2. PICK i \in Nat : i = Len(down) + 1
        BY <4>1
      <4>3. Before(i)' = Before(i)
        <5>1. CASE i = 1
          BY <2>1, <5>1 DEF Before
        <5>2. CASE i # 1
          <6>1. i - 1 = Len(down) /\ Len(down) >= 1
            BY <4>1, <4>2, <5>2
          <6> QED BY <4>1, <5>2, <6>1 DEF Before
        <5> QED BY <5>1, <5>2
      <4>4. Change.begin = feed /\ Change.type = "delta" /\ feed # 0
        BY <1>3 DEF Change, Update
      <4> HIDE DEF Change
      <4>5. i <= Len(down') /\ i > Len(down) /\ i \in 1..Len(down) + 1 /\ down'[i] = Change
        BY <4>1, <4>2
      <4>6. i \in Upsetting' => Before(i)' # 0 /\ feed # Before(i)'
        BY <4>4, <4>5 DEF Upsetting
      <4> QED BY <4>2, <4>3, <4>4, <4>5, <4>6 DEF Upsetting
    <3> QED BY <1>0, <2>1, <2>2, <2>3, <3>1, <3>2, NoCharge DEF FaultsPay
  <2>4. CASE faults' = faults + 1 /\ down' = Append(down, Bad)
    <3>1. Upsetting' \subseteq Upsetting \cup {Len(down) + 1}
      BY <1>0, <2>1, <2>4, AppendUpsets
    <3> QED BY <1>0, <2>1, <2>2, <2>4, <3>1, Charge
  <2>5. CASE faults' = faults + 1 /\ down' = down
    <3>1. \A i : Before(i)' = Before(i)
      BY <2>1, <2>5 DEF Before
    <3>2. Upsetting' \subseteq Upsetting \cup {Len(down) + 1}
      BY <1>0, <2>5, <3>1 DEF Upsetting, SentByVenue
    <3> QED BY <1>0, <2>1, <2>2, <2>5, <3>2, Charge
  <2> QED BY <1>3, <2>3, <2>4, <2>5 DEF Update
<1>4. CASE Cut
  <2>1. PICK n \in 0..Len(down) : down' = SubSeq(down, 1, n)
    BY <1>4 DEF Cut
  <2>2. feed' = 0 /\ faults' = faults + 1 /\ UNCHANGED <<book, jobs, joins, collector>>
    BY <1>4 DEF Cut, subVars
  <2>3. Upsetting' \subseteq Upsetting \cup {1}
    BY <1>0, <2>1, <2>2, CutUpsets
  <2>4. Busy' = Busy
    BY <2>2 DEF Busy
  <2> QED BY <1>0, <2>2, <2>3, <2>4, Charge
<1>5. ASSUME Upsetting' \subseteq Upsetting, Busy' \subseteq Busy, faults' = faults, UNCHANGED <<joins, collector>>
      PROVE  FaultsPay'
  BY <1>0, <1>5, NoCharge DEF Registered, FaultsPay
<1>6. CASE Serve
  <2>1. faults' = faults /\ UNCHANGED <<joins, collector, jobs, book>>
    BY <1>6 DEF Serve, subVars
  <2>2. Busy' = Busy
    BY <2>1 DEF Busy
  <2>3. CASE feed' = nonce /\ down' = Append(down, Snapshot)
    <3>1. Snapshot \in Messages /\ Snapshot.nonce = nonce /\ Snapshot.type = "snapshot"
      BY <1>0 DEF Snapshot, Messages, SentByVenue
    <3> HIDE DEF Snapshot
    <3>2. Upsetting' \subseteq Upsetting \cup {Len(down) + 1}
      BY <1>0, <2>1, <2>3, <3>1, AppendUpsets
    <3>3. Len(down) + 1 \notin Upsetting'
      <4>1. Len(down) \in Nat /\ Len(down') = Len(down) + 1 /\ down'[Len(down) + 1] = Snapshot
        BY <1>0, <2>3, <3>1 DEF SentByVenue
      <4> QED BY <3>1, <4>1 DEF Upsetting
    <3> QED BY <1>5, <2>1, <2>2, <3>2, <3>3
  <2>4. CASE feed' \in {feed, 0} /\ down' = down
    <3>1. Upsetting' \subseteq Upsetting
      BY <1>0, <2>1, <2>4, SameUpsets
    <3> QED BY <1>5, <2>1, <2>2, <3>1
  <2> QED BY <1>6, <2>3, <2>4 DEF Serve
<1>7. ASSUME Dial \/ Drop \/ Close PROVE FaultsPay'
  <2>1. down' = <<>> /\ feed' = 0 /\ jobs' = jobs /\ faults' = faults /\ UNCHANGED <<joins, collector>>
    BY <1>7 DEF Dial, Drop, Close, subVars
  <2> QED BY <1>5, <2>1, NoUpsets DEF Busy
<1>8. ASSUME Reset \/ ResetLost \/ Trade \/ ReadFails \/ LoopExits \/ Decide \/ EndStream \/ UNCHANGED vars
      PROVE  FaultsPay'
  <2>1. /\ down' = down /\ feed' = feed /\ jobs' = jobs /\ faults' = faults /\ UNCHANGED <<joins, collector>>
        /\ book'.nonce \in {book.nonce, 0}
    BY <1>8 DEF Reset, ResetLost, Trade, ReadFails, LoopExits, Decide, Wake, quote, EndStream, vars, venueVars,
       wireVars, subVars, invalidateBook
  <2> QED BY <1>0, <1>5, <2>1, SameUpsets DEF Busy
<1>9. ASSUME SendSubs \/ \E j \in Jobs : Job(j) PROVE FaultsPay'
  <2>1. /\ down' = down \/ (down' = <<>> /\ link = "cut")
        /\ feed' = feed /\ book' = book /\ faults' = faults /\ UNCHANGED <<joins, collector>>
    BY <1>9 DEF SendSubs, Job, Capture, Unsubscribe, sendSub, Write, Sent, Vanished, WriteFails, venueVars, wireVars,
       subVars
  <2>2. Busy' \subseteq Busy
    <3>1. ASSUME NEW j \in Jobs, Job(j) PROVE Busy' \subseteq Busy
      <4>1. jobs[j] # Idle /\ \A k \in Jobs \ {j} : jobs'[k] = jobs[k]
        BY <3>1 DEF Job, Capture, Unsubscribe, sendSub, Idle, Places
      <4> QED BY <4>1 DEF Busy
    <3>2. SendSubs => Busy' = Busy
      BY DEF SendSubs, Busy
    <3> QED BY <1>9, <3>1, <3>2
  <2>3. Upsetting' \subseteq Upsetting
    <3>1. down' = down => Upsetting' \subseteq Upsetting
      BY <1>0, <2>1, SameUpsets
    <3>2. down' = <<>> /\ link = "cut" => Upsetting' \subseteq Upsetting
      BY <2>1, NoUpsets DEF CutIsSilent
    <3> QED BY <2>1, <3>1, <3>2
  <2> QED BY <1>5, <2>1, <2>2, <2>3
<1>10. ASSUME SubscribeBook \/ Receive \/ StreamClosed \/ Notify \/ Leave PROVE FaultsPay'
  <2>1. UNCHANGED <<down, feed, book, jobs, faults>>
    BY <1>10 DEF SubscribeBook, Receive, StreamClosed, Notify, Leave, venueVars, wireVars
  <2>2. Upsetting' \subseteq Upsetting /\ Busy' = Busy
    BY <1>0, <2>1, SameUpsets DEF Busy
  <2>3. (Registered => Registered') /\ (collector' = "register" => joins' > 0)
    <3>1. joins \in Nat
      BY BookAssumption DEF Flags
    <3>2. CASE SubscribeBook
      BY <3>1, <3>2 DEF SubscribeBook, Registered
    <3>3. CASE Receive \/ StreamClosed \/ Notify \/ Leave
      <4>1. joins' = joins /\ collector' # "register"
        BY <3>3 DEF Receive, StreamClosed, Notify, Leave
      <4> QED BY <4>1 DEF Registered
    <3> QED BY <1>10, <3>2, <3>3
  <2> QED BY <1>0, <2>1, <2>2, <2>3, NoCharge
<1> QED BY <1>1, <1>2, <1>3, <1>4, <1>6, <1>7, <1>8, <1>9, <1>10 DEF Next, Client, Collect

LEMMA PayInit == Init => FaultsPay /\ CutIsSilent
<1> SUFFICES ASSUME Init PROVE FaultsPay /\ CutIsSilent
  OBVIOUS
<1>1. Busy = {}
  BY DEF Init, Busy
<1>2. Upsetting = {}
  <2>1. feed = 0 /\ Len(down) = 0
    BY DEF Init
  <2> QED BY <2>1 DEF Upsetting
<1>3. Cardinality({}) = 0
  BY FS_EmptySet
<1>4. joins = 0 /\ faults = 0 /\ collector = "off" /\ feed = 0
  BY DEF Init
<1> QED BY <1>1, <1>2, <1>3, <1>4 DEF FaultsPay, Registered, CutIsSilent

\* What has not been paid for yet leaves a place free.
LEMMA PaidLeavesPlace == BookInv /\ Flags /\ FaultsPay => PlaceLeft
<1> SUFFICES ASSUME BookInv, Flags, FaultsPay, Busy = Jobs PROVE PlaceLeft
  BY DEF PlaceLeft
<1>1. SentByVenue
  BY DEF BookInv
<1>2. Cardinality(Busy) = MaxFaults + 1 /\ faults \in Nat /\ faults <= MaxFaults /\ MaxFaults \in Nat
  BY <1>1, FinitePlaces, BookAssumption DEF Flags
<1>3. Registered /\ Cardinality(Upsetting) = 0
  BY <1>1, <1>2, FinitePlaces DEF FaultsPay
<1>4. Upsetting = {}
  BY <1>1, <1>3, FinitePlaces, FS_EmptySet
<1>5. ASSUME down # <<>>,
             Head(down).type = "bad" \/ (Head(down).type = "delta" /\ book.synced /\ Gap(Head(down)))
      PROVE  FALSE
  <2>1. Head(down) = down[1] /\ Len(down) \in Nat \ {0}
    BY <1>1, <1>5 DEF SentByVenue
  <2>2. 1 \in Upsetting
    BY <1>5, <2>1 DEF Upsetting, Before, Gap
  <2> QED BY <1>4, <2>2
<1> QED BY <1>3, <1>5 DEF PlaceLeft, Registered

\* However many connections there were, each lost update, undecodable message or first
\* subscription is the reason of at most one goroutine that subscribes: there are never more of
\* them than faults and one (onBook's `go resubscribe`, Register).
THEOREM FaultsArePaid == Spec => [](FaultsPay /\ PlaceLeft)
<1> DEFINE I == BookInv /\ Places /\ Flags /\ Held /\ FaultsPay /\ CutIsSilent
<1>1. Init => I
  BY InvInit, TypeInit, TypeParts, PayInit DEF BookInv
<1>2. I /\ [Next]_vars => I'
  <2> SUFFICES ASSUME I, [Next]_vars PROVE I'
    OBVIOUS
  <2>1. BookInv'
    BY InvStep
  <2>2. Places' /\ Flags' /\ Held'
    BY <2>1, TypeStep
  <2>3. FaultsPay' /\ CutIsSilent'
    BY PayStep, SilentStep
  <2> QED BY <2>1, <2>2, <2>3
<1>3. I => FaultsPay /\ PlaceLeft
  BY PaidLeavesPlace
<1> HIDE DEF I
<1> QED BY <1>1, <1>2, <1>3, PTL DEF Spec
=============================================================================

----------------------------- MODULE MeanWindow -----------------------------
(***************************************************************************)
(* The windowed mean of a pair's spread (estimator.SMA): one slot per      *)
(* sampling interval in a ring, a running sum and count kept up to date    *)
(* by evicting the slots an update has crossed, and a readiness that must  *)
(* not outlive a gap.  Samples come at any time, several in an interval    *)
(* and none for longer than the window, and the clock may jump back.       *)
(***************************************************************************)
EXTENDS Integers, Sums

CONSTANTS
  Sizes,       \* numbers of slots: Window / Interval
  Interval,    \* ticks of an interval
  MinWarmup,   \* ticks before the mean may be used
  Coverage,    \* percentage of intervals that must have a sample
  Samples,     \* sampled values
  MaxTime      \* bound on the clock

ASSUME WindowAssumption ==
  /\ Sizes \subseteq Nat \ {0} /\ Interval \in Nat \ {0} /\ MinWarmup \in Nat
  /\ Coverage \in 0..100 /\ Samples \subseteq Nat \ {0} /\ MaxTime \in Nat

VARIABLES
  size,                  \* len(slots)
  slots, sum, n,         \* the ring, and the sum and number of the samples in it
  first, lastBk,         \* first interval of the span, interval of the last sample
  last, started,         \* times of the last sample and of the first of this history
  heard                  \* history: the sample accepted last at each time

windowVars == <<size, slots, sum, n, first, lastBk, last, started, heard>>

Never == -1
Silent == 0
bucket(t) == t \div Interval
SlotOf(b) == b % size

-----------------------------------------------------------------------------
\* The slots that fall out of the window when interval bk begins: only those crossed since the
\* last update are looked at.
CrossedButLast(bk) == IF n = 0 THEN {} ELSE {SlotOf(lastBk + o) : o \in 1..(bk - lastBk - 1)}
Crossed(bk) == IF n = 0 THEN {} ELSE {SlotOf(lastBk + o) : o \in 1..(bk - lastBk)}

evicted(bk) == {i \in Crossed(bk) : slots[i].ok /\ slots[i].bucket <= bk - size}

\* The only sample of a one-slot window is replaced at every tick; that is no new history
\* unless a whole tick was missed.
continuous(t) == size = 1 /\ last # Never /\ 2 * (t - last - Interval) <= Interval

oldest(ring, bk) ==
  LET live == {b \in (bk - size + 1)..bk : b >= first /\ ring[SlotOf(b)].ok /\ ring[SlotOf(b)].bucket = b}
  IN  IF live = {} THEN bk ELSE Min(live)

\* A window that was emptied begins a new history.
BeganOnce(kept, t) == IF started = Never THEN t ELSE started
Began(kept, t) == IF kept = 0 /\ ~continuous(t) THEN t ELSE started

Update(t, x) ==
  /\ last = Never \/ t >= last
  /\ LET bk   == bucket(t)
         out  == evicted(bk)
         ring == [i \in 0..(size - 1) |-> IF i \in out THEN [slots[i] EXCEPT !.ok = FALSE] ELSE slots[i]]
         i    == SlotOf(bk)
         kept == n - Cardinality(out)
         rest == sum - SumOf([j \in out |-> slots[j].val], out)
     IN  /\ slots' = [ring EXCEPT ![i] = [bucket |-> bk, val |-> x, ok |-> TRUE]]
         /\ sum' = rest + x - (IF ring[i].ok THEN ring[i].val ELSE 0)
         /\ n' = IF ring[i].ok THEN kept ELSE kept + 1
         /\ started' = Began(kept, t)
         /\ first' = IF n' = 1 \/ first <= bk - size THEN oldest(slots', bk) ELSE first
         /\ lastBk' = bk /\ last' = t
  /\ heard' = [heard EXCEPT ![t] = x]
  /\ UNCHANGED size

-----------------------------------------------------------------------------
(* StatsAt: a pure reading against the clock. *)

Live(now) == {i \in 0..(size - 1) : slots[i].ok /\ slots[i].bucket > bucket(now) - size /\ slots[i].bucket <= bucket(now)}

\* The intervals from the oldest sample in the window to now.
SpanAt(now) == bucket(now) - Min({slots[i].bucket : i \in Live(now)}) + 1

ReadyAt(now) ==
  /\ last # Never /\ now >= last /\ now - last <= 2 * Interval /\ Live(now) # {}
  /\ now - started >= MinWarmup /\ SpanAt(now) * Interval >= MinWarmup
  /\ Cardinality(Live(now)) * 100 >= Coverage * SpanAt(now)

WindowInit ==
  /\ size \in Sizes
  /\ slots = [i \in 0..(size - 1) |-> [bucket |-> 0, val |-> 0, ok |-> FALSE]]
  /\ sum = 0 /\ n = 0 /\ first = 0 /\ lastBk = 0 /\ last = Never /\ started = Never
  /\ heard = [t \in 0..MaxTime |-> Silent]

\* A sample from before the last one is refused: only the others are steps.
WindowNext == \E t \in 0..MaxTime, x \in Samples : Update(t, x)

WindowSpec == WindowInit /\ [][WindowNext]_windowVars

-----------------------------------------------------------------------------
(* The same from the history of samples. *)

Heard == {t \in 0..MaxTime : heard[t] # Silent}
HeardBuckets(now) == {bucket(t) : t \in {u \in Heard : bucket(u) > bucket(now) - size}}
LastIn(b) == Max({t \in Heard : bucket(t) = b})

\* The ring's count, sum and span are those of the last sample of each interval in the window,
\* after any gap (sma.go: Update, evict, oldest).
MeanIsOfWindow ==
  last # Never =>
    LET B == HeardBuckets(last) IN
    /\ n = Cardinality(B) /\ sum = SumOf([b \in B |-> heard[LastIn(b)]], B)
    /\ first = Min(B)
    /\ \A now \in last..MaxTime : {slots[i].bucket : i \in Live(now)} = HeardBuckets(now)

\* Samples follow each other without a gap that empties the window; with one slot, without a
\* missed tick.
Follows(t, u) == IF size = 1 THEN 2 * (u - t - Interval) <= Interval ELSE bucket(u) - bucket(t) < size

\* A mean that is ready was sampled for at least MinWarmup without such a gap: a disconnection
\* starts the warm-up again (sma.go: Update, StatsAt).
ReadyHasHistory ==
  \A now \in 0..MaxTime : ReadyAt(now) =>
    \E from \in Heard :
      /\ from <= now - MinWarmup
      /\ \A t \in {h \in Heard : h >= from /\ h < last} : Follows(t, Min({u \in Heard : u > t}))

\* The mean openings are measured against is what the history of samples says (PairActor.mean).
MeanMatchesHistory == MeanIsOfWindow /\ ReadyHasHistory

-----------------------------------------------------------------------------
(* Why: the ring holds the last sample of every interval in the window, each in its slot, *)
(* and the warm-up began at a sample after which none was too late.                      *)

WindowTypes ==
  /\ size \in Nat \ {0} /\ slots \in [0..(size - 1) -> [bucket : Nat, val : Nat, ok : BOOLEAN]]
  /\ sum \in Int /\ n \in Nat /\ first \in Nat /\ lastBk \in Nat
  /\ last \in {Never} \cup 0..MaxTime /\ heard \in [0..MaxTime -> Nat]

Filled == {i \in 0..(size - 1) : slots[i].ok}

\* Before the first sample everything is empty; after it the last one is the latest heard.
LastIsLatest ==
  IF last = Never THEN Heard = {} /\ Filled = {} /\ first = 0 /\ lastBk = 0 /\ started = Never
  ELSE last \in Heard /\ (\A t \in Heard : t <= last) /\ lastBk = bucket(last)

\* A filled slot has an interval of the window, in its place, with its last sample; and every such
\* interval has its slot.
RingHolds ==
  last # Never =>
    /\ \A i \in Filled :
         /\ slots[i].bucket \in HeardBuckets(last) /\ SlotOf(slots[i].bucket) = i
         /\ slots[i].val = heard[LastIn(slots[i].bucket)]
    /\ \A b \in HeardBuckets(last) : slots[SlotOf(b)].ok /\ slots[SlotOf(b)].bucket = b

RunningTotals ==
  /\ n = Cardinality(Filled)
  /\ sum = SumOf([i \in 0..(size - 1) |-> slots[i].val], Filled)

FirstIsOldest ==
  last # Never => first \in HeardBuckets(last) /\ \A b \in HeardBuckets(last) : first <= b

\* Every sample since the history began follows the one before it.
SinceStarted ==
  last # Never =>
    /\ started \in Heard
    /\ \A t, u \in Heard :
         started <= t /\ t < u /\ (\A w \in Heard : w <= t \/ u <= w) => Follows(t, u)

WindowInv ==
  /\ WindowTypes /\ LastIsLatest /\ RingHolds /\ RunningTotals /\ FirstIsOldest /\ SinceStarted
=============================================================================

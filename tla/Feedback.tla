------------------------------ MODULE Feedback ------------------------------
(***************************************************************************)
(* What quotes and executions teach a pair actor: the realized variance    *)
(* over a trailing window of increments (volatility.Estimator), the width  *)
(* of that window, which follows the latencies of clean fills (latency.go, *)
(* applyAdaptiveWindows), and the outcomes of the last executions, which   *)
(* give the failure rate and tune the tick allowance (observeFailure,      *)
(* adaptive.K).                                                            *)
(*                                                                         *)
(* The EWMA, the square root and the latency statistics are left out: a    *)
(* window derived from a latency series is any width within its bounds,    *)
(* and the allowance is its exponent, one up or one down.                  *)
(***************************************************************************)
EXTENDS Integers, Sequences, Sums

CONSTANTS
  Prices,      \* sampled mids
  WarmK, MaxK, \* increments before the first variance, and of the ring
  MinSamples,  \* latencies a leg needs: adaptiveLatencyCfg.minSamples, at least two
  Window,      \* adaptive.Config.Window: outcomes in the failure ring
  High, Low,   \* failures in the window above and below which the allowance moves
  MinTick, MaxTick

ASSUME FeedbackAssumption ==
  /\ Prices \subseteq Int /\ WarmK \in Nat \ {0} /\ MaxK \in Nat /\ WarmK <= MaxK
  /\ MinSamples \in Nat \ {0} /\ Window \in Nat \ {0} /\ High \in Nat /\ Low \in Nat
  /\ MinTick \in Int /\ MaxTick \in Int /\ MinTick <= MaxTick

VARIABLES
  rets, idx, cnt, trailing, reqK,  \* the ring of squared returns, its sum over the window
  prev, have,                      \* the last sample
  latL, latR,                      \* latencies seen on each leg, up to MinSamples
  failures, failureIndex, tickK,   \* the failure ring and the allowance
  increments, outcomes             \* history: the last squared returns and outcomes, newest first

volVars     == <<rets, idx, cnt, trailing, reqK, prev, have, increments>>
outcomeVars == <<failures, failureIndex, tickK, outcomes>>
feedbackVars == <<volVars, latL, latR, outcomeVars>>

Lesser(a, b) == IF a < b THEN a ELSE b
Greater(a, b) == IF a > b THEN a ELSE b
Newest(x, seq, k) == SubSeq(<<x>> \o seq, 1, Lesser(k, Len(seq) + 1))
Total(seq) == SumOf(seq, DOMAIN seq)

-----------------------------------------------------------------------------
(* The volatility window. *)

\* The squared return i places before the next one.
Back(i) == rets[(idx - i) % MaxK]

AddAt(x) ==
  /\ prev' = x /\ have' = TRUE
  /\ IF ~have THEN UNCHANGED <<rets, idx, cnt, trailing, increments>>
     ELSE LET sq == (x - prev) * (x - prev) IN
          /\ trailing' = trailing + sq - (IF cnt >= reqK THEN Back(reqK) ELSE 0)
          /\ rets' = [rets EXCEPT ![idx] = sq]
          /\ idx' = (idx + 1) % MaxK
          /\ cnt' = Lesser(cnt + 1, MaxK)
          /\ increments' = Newest(sq, increments, MaxK)
  /\ UNCHANGED <<reqK, latL, latR, outcomeVars>>

\* The sum over a new window, from the history there is.
SumKept(k) == trailing
SumOver(k) == Total([i \in 1..Lesser(k, cnt) |-> Back(i)])

SetWindow(k) ==
  /\ reqK' = Lesser(Greater(k, 1), MaxK)
  /\ trailing' = IF reqK' = reqK THEN trailing ELSE SumOver(reqK')

\* A leg with enough latencies asks for a width; the wider one counts, and with none it stays.
Asks(lat) == IF lat >= MinSamples THEN 1..(MaxK + 1) ELSE {0}

applyAdaptiveWindows ==
  /\ latL >= MinSamples \/ latR >= MinSamples
  /\ \E kL \in Asks(latL), kR \in Asks(latR) : SetWindow(Greater(kL, kR))
  /\ UNCHANGED <<rets, idx, cnt, prev, have, increments, latL, latR, outcomeVars>>

-----------------------------------------------------------------------------
(* The outcomes of executions. *)

Failed(ring) == Cardinality({i \in DOMAIN ring : ring[i]})

\* The ring fills up, then the oldest outcome is replaced.
Stuck(failed) == [failures EXCEPT ![1] = failed]
Replaced(failed) == [failures EXCEPT ![failureIndex + 1] = failed]

observeFailure(failed) ==
  /\ IF Len(failures) < Window
     THEN failures' = Append(failures, failed) /\ UNCHANGED failureIndex
     ELSE failures' = Replaced(failed) /\ failureIndex' = (failureIndex + 1) % Window
  /\ tickK' = IF Len(failures') < Window THEN tickK
              ELSE IF Failed(failures') > High THEN Lesser(tickK + 1, MaxTick)
              ELSE IF Failed(failures') < Low THEN Greater(tickK - 1, MinTick)
              ELSE tickK
  /\ outcomes' = Newest(failed, outcomes, Window)

\* A settled execution: one leg missed or a rescue is a failure; only clean fills are timed.
AccountExecution(oneLeg, rescued, filledL, filledR) ==
  /\ observeFailure(oneLeg \/ rescued)
  /\ latL' = IF filledL /\ ~rescued THEN Lesser(latL + 1, MinSamples) ELSE latL
  /\ latR' = IF filledR /\ ~rescued THEN Lesser(latR + 1, MinSamples) ELSE latR
  /\ UNCHANGED volVars

FeedbackInit ==
  /\ rets = [i \in 0..(MaxK - 1) |-> 0] /\ idx = 0 /\ cnt = 0 /\ trailing = 0 /\ reqK = WarmK
  /\ prev = 0 /\ have = FALSE /\ increments = <<>>
  /\ latL = 0 /\ latR = 0
  /\ failures = <<>> /\ failureIndex = 0 /\ outcomes = <<>> /\ tickK = MinTick

FeedbackNext ==
  \/ \E x \in Prices : AddAt(x)
  \/ applyAdaptiveWindows
  \/ \E oneLeg, rescued, filledL, filledR \in BOOLEAN : AccountExecution(oneLeg, rescued, filledL, filledR)

FeedbackSpec == FeedbackInit /\ [][FeedbackNext]_feedbackVars

-----------------------------------------------------------------------------
\* The running sum is that of the last increments in the window, through every change of the
\* window's width, shrunk below the warm-up or widened beyond the history (SetWindow, AddAt).
TrailingSum == trailing = Total(SubSeq(increments, 1, Lesser(reqK, Len(increments))))

\* The failure rate is that of the last executions, in any order of the ring (observeFailure).
FailuresAreRecent == Len(failures) = Len(outcomes) /\ Failed(failures) = Failed(outcomes)

RingsMatchHistory == TrailingSum /\ FailuresAreRecent

-----------------------------------------------------------------------------
(* Why: each ring holds its history, the newest first, from its index back. *)

VolatilityTypes ==
  /\ rets \in [0..(MaxK - 1) -> Int] /\ idx \in 0..(MaxK - 1) /\ cnt \in 0..MaxK /\ reqK \in 1..MaxK
  /\ prev \in Int /\ have \in BOOLEAN /\ trailing \in Int
  /\ increments \in Seq(Int) /\ Len(increments) = cnt

ReturnsKept == \A i \in 1..cnt : Back(i) = increments[i]

OutcomeTypes ==
  /\ failures \in Seq(BOOLEAN) /\ failureIndex \in 0..(Window - 1) /\ outcomes \in Seq(BOOLEAN)
  /\ Len(failures) = Len(outcomes) /\ Len(failures) <= Window
  /\ Len(failures) < Window => failureIndex = 0
  /\ tickK \in MinTick..MaxTick /\ latL \in 0..MinSamples /\ latR \in 0..MinSamples

\* Where the i-th newest outcome is.
Place(i) == IF i <= failureIndex THEN failureIndex - i + 1 ELSE failureIndex - i + 1 + Len(failures)
OutcomesKept == \A i \in 1..Len(outcomes) : outcomes[i] = failures[Place(i)]

RingInv == VolatilityTypes /\ ReturnsKept /\ TrailingSum /\ OutcomeTypes /\ OutcomesKept
=============================================================================

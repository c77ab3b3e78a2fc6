------------------------------- MODULE Margin -------------------------------
(***************************************************************************)
(* The liquidation watch of a pair (watchRisk and its marginMonitor): once *)
(* a second it reads the accounts of both venues when that is due, each    *)
(* of which may fail or take time, and assesses the two legs against the   *)
(* marks of the books.  It blocks openings and asks for an emergency exit. *)
(*                                                                         *)
(* A mark is the level of remaining margin it stands for: 0 unavailable,   *)
(* 1 at or below the trigger, 2 at or below the floor, 3 within the        *)
(* hysteresis above it, 4 above.                                           *)
(***************************************************************************)
EXTENDS Integers

CONSTANTS
  Readings,    \* what a venue answers about a leg and its account
  Refresh      \* Risk.PositionRefresh, in seconds

ASSUME MarginAssumption ==
  /\ Refresh \in Nat \ {0}
  /\ Readings \subseteq [held : BOOLEAN, long : BOOLEAN, liquidation : BOOLEAN, cross : BOOLEAN,
                         headroom : {"none", "exhausted", "thin", "ample"}, overCap : BOOLEAN]

VARIABLES
  stage,       \* where the loop is: "sleep", "left", "right", "assess"
  sinceRead,   \* seconds since lastRefresh
  reading,     \* of a leg: the last snapshot read
  age,         \* seconds since then, Old when there is none
  mark,        \* the marks of the assessment just made
  armed, blocked, emergency,
  dipped       \* history: margin was seen at the floor, and not yet clear of the band again

marginVars == <<stage, sinceRead, reading, age, mark, armed, blocked, emergency, dipped>>

Legs == {"L", "R"}
Levels == 0..4
NoMarks == [leg \in Legs |-> 0]
NoPosition == [held |-> FALSE, long |-> FALSE, liquidation |-> FALSE, cross |-> FALSE,
               headroom |-> "none", overCap |-> FALSE]

\* One second beyond the age at which a snapshot is still used.
Old == 2 * Refresh + 1
Aged(a, d) == IF a + d > Old THEN Old ELSE a + d
Elapse(d) == /\ sinceRead' = IF sinceRead + d > Refresh THEN Refresh ELSE sinceRead + d
             /\ age' = [leg \in Legs |-> Aged(age[leg], d)]

-----------------------------------------------------------------------------
(* The account reads. *)

\* The ticker wakes the loop; the accounts are read when the last attempt is old enough.
WakeUp ==
  /\ stage = "sleep"
  /\ \E d \in 1..2 : Elapse(d)
  /\ stage' = IF sinceRead' >= Refresh THEN "left" ELSE "assess"
  /\ mark' = NoMarks
  /\ UNCHANGED <<reading, armed, blocked, emergency, dipped>>

\* refresh: one venue and then the other, each keeping what it had when it fails.
ReadLeg(leg, after) ==
  /\ sinceRead' = IF leg = "L" THEN 0 ELSE sinceRead
  /\ \E d \in 0..1 :
       \/ age' = [l \in Legs |-> Aged(age[l], d)] /\ UNCHANGED reading
       \/ \E r \in Readings :
            /\ reading' = [reading EXCEPT ![leg] = r]
            /\ age' = [l \in Legs |-> IF l = leg THEN 0 ELSE Aged(age[l], d)]
  /\ stage' = after
  /\ UNCHANGED <<mark, armed, blocked, emergency, dipped>>

ReadAccounts ==
  \/ stage = "left" /\ ReadLeg("L", "right")
  \/ stage = "right" /\ ReadLeg("R", "assess")

-----------------------------------------------------------------------------
(* assessAt. *)

cacheFresh(leg) == age[leg] < Old

crossMarginExhausted(leg) == LET r == reading[leg] IN r.held /\ r.cross /\ r.headroom = "exhausted"

\* remainingPositionMargin has a ratio to give: from a liquidation price, or for a cross-margined
\* long without one whose account has headroom for the whole position.
remainingPositionMargin(leg, m) ==
  LET r == reading[leg] IN
  /\ r.held /\ m[leg] > 0
  /\ r.liquidation \/ (r.cross /\ r.long /\ r.headroom = "ample")

Considered(m) == {leg \in Legs : cacheFresh(leg) /\ remainingPositionMargin(leg, m)}
Unknown(m) == \E leg \in Legs : ~cacheFresh(leg) \/ (reading[leg].held /\ ~remainingPositionMargin(leg, m))
OverCap == \E leg \in Legs : reading[leg].overCap

\* The lowest level considered reaches n.
Reaches(n, m) == \E leg \in Considered(m) : m[leg] <= n

KnownOnly(m) == ~Unknown(m) /\ Reaches(1, m)
LiquidationNear(m) == Reaches(1, m)
Exhausted == \E leg \in Legs : cacheFresh(leg) /\ crossMarginExhausted(leg)

\* What assessAt returns, the first that applies.
Assessment(m) ==
  IF Exhausted THEN "trigger"
  ELSE IF m = NoMarks THEN "none"
  ELSE IF LiquidationNear(m) THEN "trigger"
  ELSE IF Unknown(m) \/ OverCap \/ Reaches(2, m) THEN "arm"
  ELSE IF ~Reaches(3, m) THEN "disarm" ELSE "none"

Assess ==
  /\ stage = "assess" /\ stage' = "sleep"
  /\ \E m \in [Legs -> Levels] :
       LET action == Assessment(m) IN
       /\ mark' = m
       /\ armed' = IF action = "none" THEN armed ELSE action = "arm"
       /\ blocked' = (armed' \/ action \in {"arm", "trigger"} \/ \E leg \in Legs : m[leg] = 0)
       /\ emergency' = (emergency \/ action = "trigger")
       /\ dipped' = IF Reaches(2, m) THEN TRUE
                    ELSE dipped /\ (Unknown(m) \/ Reaches(3, m))
  /\ UNCHANGED <<sinceRead, reading, age>>

\* The actor has confirmed both legs flat (finishUnwind, finishIntervention).
EmergencyDone ==
  /\ emergency /\ emergency' = FALSE /\ dipped' = FALSE
  /\ UNCHANGED <<stage, sinceRead, reading, age, mark, armed, blocked>>

MarginInit ==
  /\ stage = "left" /\ sinceRead = Refresh
  /\ reading = [leg \in Legs |-> NoPosition] /\ age = [leg \in Legs |-> Old]
  /\ mark = NoMarks
  /\ armed = FALSE /\ blocked = TRUE /\ emergency = FALSE /\ dipped = FALSE

MarginNext == WakeUp \/ ReadAccounts \/ Assess \/ EmergencyDone

MarginSpec == MarginInit /\ [][MarginNext]_marginVars

-----------------------------------------------------------------------------
Usable(leg) == age[leg] <= 2 * Refresh
Holding(leg) == reading[leg].held

\* Evidence against one leg is enough for an emergency exit, whatever is unknown of the other:
\* a failed read, an old snapshot, a missing book or an exceeded cap (margin.go:81-83, 118-119).
DangerIsNotMasked ==
  \A leg \in Legs :
    Usable(leg) /\ Holding(leg)
      /\ (\/ reading[leg].cross /\ reading[leg].headroom = "exhausted"
          \/ reading[leg].liquidation /\ mark'[leg] = 1
          \/ reading[leg].cross /\ reading[leg].long /\ reading[leg].headroom = "ample" /\ mark'[leg] = 1)
    => emergency'

\* Openings are let through only when both accounts were read in time, both books are there and
\* every position held was found above the floor, and clear of the band once it had been at it.
OpenOnlyWhenSafe ==
  ~blocked' /\ ~emergency' =>
    \A leg \in Legs :
      /\ Usable(leg) /\ mark'[leg] > 0 /\ ~reading[leg].overCap
      /\ Holding(leg) => /\ reading[leg].liquidation \/ reading[leg].headroom = "ample"
                         /\ mark'[leg] > 2 /\ (dipped => mark'[leg] > 3)

\* Through reads that fail, come late or leave one leg in the dark, the watch misses no known
\* danger and lets no opening through on what it does not know.
RiskSeen == [][stage = "assess" /\ stage' = "sleep" => DangerIsNotMasked /\ OpenOnlyWhenSafe]_marginVars

-----------------------------------------------------------------------------
(* Why: margin that was seen at the floor keeps the watch armed, or has already asked for the *)
(* emergency exit.                                                                            *)
WatchInv ==
  /\ reading \in [Legs -> [held : BOOLEAN, long : BOOLEAN, liquidation : BOOLEAN, cross : BOOLEAN,
                           headroom : {"none", "exhausted", "thin", "ample"}, overCap : BOOLEAN]]
  /\ age \in [Legs -> 0..Old] /\ sinceRead \in 0..Refresh
  /\ armed \in BOOLEAN /\ emergency \in BOOLEAN /\ dipped \in BOOLEAN
  /\ dipped => armed \/ emergency
=============================================================================

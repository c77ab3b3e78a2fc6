------------------------------ MODULE Strategy ------------------------------
(***************************************************************************)
(* The decision function of a pair (strategy.Arbitrage.Decide) with the    *)
(* state the actor keeps for it: the step ledger, the direction last       *)
(* traded and the capacity band (syncCapEngaged), which every settlement   *)
(* and every load brings up to date.                                       *)
(*                                                                         *)
(* Spreads are integers of one unit; a quote gives, for each direction,    *)
(* the spread it executes at and the size at the top of both books.  A     *)
(* settlement books any part of the quantity that was asked for.           *)
(***************************************************************************)
EXTENDS Integers, Sequences

CONSTANTS
  Configs,     \* configurations offered: [maxSteps, capBand, minInventory, closeOrder]
  Edges,       \* executable spreads
  StepQty,     \* Params.StepQty
  EdgeBps,     \* Params.OpenBps and CloseBps with the fees of a round trip
  Sigmas       \* volatilities

ASSUME StrategyAssumption ==
  /\ Edges \subseteq Int /\ StepQty \in Nat \ {0} /\ EdgeBps \in Nat /\ Sigmas \subseteq Nat
  /\ \A p \in Configs : p.maxSteps \in Nat \ {0} /\ p.capBand \in Nat /\ p.minInventory \in Nat

VARIABLES
  params,      \* the configuration of this actor
  steps,       \* the ledger: state.Steps
  mode, lastDir, capEngaged,
  lowest       \* history: the lowest count since the capacity was last reached

strategyVars == <<params, steps, mode, lastDir, capEngaged, lowest>>

Dirs == {-1, 1}   \* DirLS, DirSL
Quotes == {q \in [edge : [Dirs -> Edges], depth : 1..StepQty] : q.edge[-1] + q.edge[1] < 0}

Magnitude(n) == IF n < 0 THEN -n ELSE n
Least(a, b) == IF a < b THEN a ELSE b

\* What config.Validate and buildActor let through.
NoFloorCheck(p) == TRUE
Accepted(p) ==
  /\ p.minInventory < p.maxSteps
  /\ p.capBand > 0 /\ p.minInventory > 0 => p.minInventory < p.maxSteps - Least(p.capBand, p.maxSteps)

Counter(s) == IF s = <<>> THEN 0 ELSE Len(s) * s[1].dir
Band == Least(params.capBand, params.maxSteps)

-----------------------------------------------------------------------------
(* Decide. *)

Profit(st, q) == st.entry + q.edge[-st.dir]

\* Profitable steps that the books have the size for.
Candidates(q) == {i \in 1..Len(steps) : Profit(steps[i], q) >= EdgeBps /\ q.depth >= steps[i].qty}
Profitable(q) == \E i \in 1..Len(steps) : Profit(steps[i], q) >= EdgeBps

Before(i, j, q) ==
  CASE params.closeOrder = "lifo" -> i > j
    [] params.closeOrder = "fifo" -> i < j
    [] OTHER -> \/ Profit(steps[i], q) > Profit(steps[j], q)
                \/ (Profit(steps[i], q) = Profit(steps[j], q) /\ i < j)

AboveFloor == Magnitude(Counter(steps)) > params.minInventory

\* The step Decide closes, none when there is nothing to close.
ToClose(q) ==
  IF mode = "PAUSED" \/ ~AboveFloor THEN {}
  ELSE {i \in Candidates(q) : \A j \in Candidates(q) \ {i} : Before(i, j, q)}

\* A reversal from flat, and the top of the band, are taxed with a volatility each.
Threshold(d, vol) ==
  LET n == Counter(steps) IN
  EdgeBps + vol + (IF n = 0 /\ lastDir = -d THEN vol ELSE 0)
          + (IF Band > 0 /\ Magnitude(n) >= params.maxSteps - Band THEN vol ELSE 0)

BandHolds == Band > 0 /\ capEngaged /\ Magnitude(Counter(steps)) > params.maxSteps - Band

\* The deviation of a direction from the mean.
Deviation(d, q, mu) == q.edge[d] + d * mu

MayOpen(d, q, mu, vol) ==
  /\ ~BandHolds
  /\ Deviation(d, q, mu) >= Threshold(d, vol)
  /\ Counter(steps) * d >= 0 /\ Magnitude(Counter(steps)) < params.maxSteps
  /\ q.depth >= StepQty

\* The direction Decide opens in, after closing.  Books are not crossed, so the two deviations
\* add up to less than zero and one direction at most is over its threshold.
ToOpen(q, mu, vol) ==
  IF AboveFloor /\ Profitable(q) THEN {}
  ELSE {d \in Dirs : MayOpen(d, q, mu, vol)}

-----------------------------------------------------------------------------
(* Settlements. *)

EngagedAtCapOnly(s) == Magnitude(Counter(s)) >= params.maxSteps
\* syncCapEngaged, for the ledger a settlement leaves; the last rule wins.
SyncCapEngaged(s) ==
  LET n == Magnitude(Counter(s)) IN
  IF Band > 0 /\ n <= params.maxSteps - Band THEN FALSE
  ELSE capEngaged \/ n >= params.maxSteps

Book(s) ==
  LET n == Magnitude(Counter(s)) IN
  /\ steps' = s
  /\ capEngaged' = SyncCapEngaged(s)
  /\ lowest' = IF n >= params.maxSteps THEN params.maxSteps ELSE Least(lowest, n)
  /\ UNCHANGED params

\* decideOnce up to the cooldown: a risk block, and a mean that is ready or not.
ModeStep(ready, blocked) ==
  /\ mode # "PAUSED"
  /\ mode' = IF blocked THEN "REDUCE_ONLY"
             ELSE IF ready /\ mode \in {"WARMUP", "REDUCE_ONLY"} THEN "RUNNING" ELSE mode
  /\ UNCHANGED <<params, steps, lastDir, capEngaged, lowest>>

\* Settled at once, or recovered later: then the actor starts over from its warm-up.
Resumes == mode' \in {mode, "WARMUP"}

\* An opening settles in a step of what was filled on both legs, if anything was.
SettleOpen(q, mu, vol, h) ==
  /\ mode = "RUNNING"
  /\ \E d \in ToOpen(q, mu, vol) :
       /\ Book(Append(steps, [dir |-> d, qty |-> h, entry |-> q.edge[d]]))
       /\ lastDir' = d
  /\ Resumes

\* A closing takes what was filled from the selected step, and the step when nothing is left.
SettleClose(q, cl) ==
  /\ \E i \in ToClose(q) :
       /\ cl <= steps[i].qty
       /\ IF cl = steps[i].qty
          THEN /\ Book(SubSeq(steps, 1, i - 1) \o SubSeq(steps, i + 1, Len(steps)))
               /\ lastDir' = steps[i].dir
          ELSE /\ Book([steps EXCEPT ![i].qty = @ - cl])
               /\ UNCHANGED lastDir
  /\ Resumes

\* A drain, an emergency or an intervention confirmed flat (finishUnwind, finishIntervention).
SettleExit ==
  /\ Book(<<>>)
  /\ lastDir' = IF steps = <<>> THEN lastDir ELSE steps[1].dir
  /\ mode' = "PAUSED"

\* A new process: the direction is forgotten and the band rebuilt from the loaded steps.
Reload ==
  LET full == Magnitude(Counter(steps)) >= params.maxSteps IN
  /\ mode' \in {"PAUSED", "WARMUP"} /\ lastDir' = 0
  /\ capEngaged' = full
  /\ lowest' = IF full THEN params.maxSteps ELSE 0
  /\ UNCHANGED <<params, steps>>

StrategyInit ==
  /\ params \in {p \in Configs : Accepted(p)}
  /\ steps = <<>> /\ mode = "WARMUP" /\ lastDir = 0 /\ capEngaged = FALSE /\ lowest = 0

StrategyNext ==
  \/ \E ready, blocked \in BOOLEAN : ModeStep(ready, blocked)
  \/ \E q \in Quotes, mu \in {0, 1}, vol \in Sigmas, h \in 1..StepQty : SettleOpen(q, mu, vol, h)
  \/ \E q \in Quotes, cl \in 1..StepQty : SettleClose(q, cl)
  \/ SettleExit \/ Reload

StrategySpec == StrategyInit /\ [][StrategyNext]_strategyVars

-----------------------------------------------------------------------------
\* Once the steps have touched the capacity, nothing is opened until their number has been at
\* most MaxSteps - CapBand, whatever partial closes, exits and failed openings come between
\* (capEngaged, strategy.go:82-88).
CapHolds == [][Len(steps') > Len(steps) => lowest <= params.maxSteps - Band]_strategyVars

\* An engaged band can always be released by trading: some quote closes a step, so that neither
\* the inventory floor nor a band as wide as the capacity can block openings for ever
\* (run.go:88-95, strategy.go:297-303).
BandCanRelease ==
  Band > 0 /\ capEngaged /\ mode # "PAUSED" => \E q \in Quotes : ToClose(q) # {}

-----------------------------------------------------------------------------
(* Why: the ledger, and the band against it. *)

\* What was opened was over the threshold, and a partial close leaves something of its step.
LedgerSound ==
  /\ params \in Configs /\ Accepted(params)
  /\ steps \in Seq([dir : Dirs, qty : 1..StepQty, entry : Edges])
  /\ \A i \in 1..Len(steps) : steps[i].entry >= EdgeBps - 1

\* A released band has seen its lower edge, an engaged one is above it.
BandInStep ==
  /\ capEngaged \in BOOLEAN /\ lowest \in Nat /\ lowest <= Len(steps)
  /\ ~capEngaged => lowest <= params.maxSteps - Band
  /\ Band > 0 /\ capEngaged => Len(steps) > params.maxSteps - Band

BandInv == LedgerSound /\ BandInStep

\* A quote that closes a step opened at the threshold.
MarketMoves == \E x, y \in Edges : x >= 1 /\ x + y < 0
=============================================================================

------------------------------ MODULE MCParts -------------------------------
(* The parts of the system that keep state of their own and meet the actor  *)
(* only through a call: each is explored alone, from the choice of `part`,  *)
(* while the others stay in their initial state.                            *)
EXTENDS Strategy, MeanWindow, Feedback, StateFile, Margin

VARIABLE part

Parts == {"strategy", "mean", "feedback", "store", "margin"}

MCConfigs ==
  { [maxSteps |-> 3, capBand |-> 2, minInventory |-> 0, closeOrder |-> "best"],
    [maxSteps |-> 3, capBand |-> 1, minInventory |-> 1, closeOrder |-> "lifo"],
    [maxSteps |-> 2, capBand |-> 3, minInventory |-> 0, closeOrder |-> "fifo"],
    [maxSteps |-> 3, capBand |-> 2, minInventory |-> 2, closeOrder |-> "best"] }
MCEdges == -3..3

Account(held, long, liquidation, cross, headroom, overCap) ==
  [held |-> held, long |-> long, liquidation |-> liquidation, cross |-> cross,
   headroom |-> headroom, overCap |-> overCap]
MCReadings ==
  { Account(FALSE, FALSE, FALSE, FALSE, "ample", FALSE),
    Account(TRUE, FALSE, TRUE, FALSE, "none", FALSE),
    Account(TRUE, TRUE, FALSE, TRUE, "ample", FALSE),
    Account(TRUE, TRUE, FALSE, TRUE, "thin", FALSE),
    Account(TRUE, FALSE, FALSE, TRUE, "ample", FALSE),
    Account(TRUE, TRUE, TRUE, TRUE, "exhausted", TRUE) }

PartsInit ==
  /\ part \in Parts
  /\ StrategyInit /\ WindowInit /\ FeedbackInit /\ StoreInit /\ MarginInit
  /\ part # "strategy" => params = CHOOSE p \in Configs : Accepted(p)
  /\ part # "mean" => size = CHOOSE s \in Sizes : TRUE

PartsNext ==
  \/ /\ part = "strategy" /\ StrategyNext
     /\ UNCHANGED <<part, windowVars, feedbackVars, storeVars, marginVars>>
  \/ /\ part = "mean" /\ WindowNext
     /\ UNCHANGED <<part, strategyVars, feedbackVars, storeVars, marginVars>>
  \/ /\ part = "feedback" /\ FeedbackNext
     /\ UNCHANGED <<part, strategyVars, windowVars, storeVars, marginVars>>
  \/ /\ part = "store" /\ StoreNext
     /\ UNCHANGED <<part, strategyVars, windowVars, feedbackVars, marginVars>>
  \/ /\ part = "margin" /\ MarginNext
     /\ UNCHANGED <<part, strategyVars, windowVars, feedbackVars, storeVars>>

PartsSpec == PartsInit /\ [][PartsNext]_<<part, strategyVars, windowVars, feedbackVars, storeVars, marginVars>>
=============================================================================

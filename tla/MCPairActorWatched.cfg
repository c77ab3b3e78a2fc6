SPECIFICATION Spec
CONSTANTS
  StepQty = 2
  MaxUnits = 2
  StallLimit = 1
  MaxRestarts = 0
  MaxExternal = 1
  Watched = TRUE
INVARIANTS
  SettledMeansHedged
PROPERTIES
  StopRequestsBind
\* the process may be stopped, or die, for good
CHECK_DEADLOCK FALSE

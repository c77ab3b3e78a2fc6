SPECIFICATION Spec
CONSTANTS
  StepQty = 1
  MaxUnits = 1
  StallLimit = 2
  MaxRestarts = 2
  MaxExternal = 0
  Watched = FALSE
INVARIANTS
  LiveOrderIsCheckpointed
  FileMatchesAccount
  OpeningNeedsCleanAccount
  ReleasedIsFlat
PROPERTIES
  ExitSurvives
\* the process may be stopped, or die, for good
CHECK_DEADLOCK FALSE

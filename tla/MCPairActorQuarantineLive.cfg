SPECIFICATION FairSpec
CONSTANTS
  StepQty = 1
  MaxUnits = 1
  StallLimit = 1
  MaxRestarts = 1
  MaxExternal = 0
  Watched = FALSE
PROPERTIES
  DrainReleases
  PendingSettles
\* the process may be stopped, or die, for good
CHECK_DEADLOCK FALSE

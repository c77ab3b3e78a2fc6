SPECIFICATION FairSpec
CONSTANTS
  StepQty = 1
  MaxUnits = 1
  StallLimit = 1
  MaxRestarts = 0
  MaxExternal = 0
  Watched = TRUE
PROPERTIES
  EmergencyEnds
\* the process may be stopped, or die, for good
CHECK_DEADLOCK FALSE

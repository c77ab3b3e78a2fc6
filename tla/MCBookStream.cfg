SPECIFICATION FairSpec
CONSTANTS
  Levels <- TwoLevels
  MaxNonce = 3
  Truth <- Books3
  MaxFaults = 2
  MaxJoins = 2
  MaxInFlight = 2
INVARIANTS
  BookIsVenues
  LatestIsCurrent
  NoLostWakeup
PROPERTIES
  Recovers
CHECK_DEADLOCK FALSE

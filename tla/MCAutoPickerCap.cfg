SPECIFICATION Spec
CONSTANTS
  N = 2
  Left <- ApartLeft
  Right <- ApartRight
  excluded = {}
  TopY = 2
  MaxSteps = 2
  PerStep = 2
  Cap = 6
  Dwell = 0
  Margin = 0
  MinScore = 0
  Scores = {0, 1}
  Prices = {1, 2}
  Histories <- MixedHistories
  Fails = TRUE
  CalmsDown = FALSE
  MaxStarts = 2
  MaxExternal = 1
INVARIANTS
  OpensAfterRecovery
  NoOrphanPosition
  OpensWithinCap
  ReservationCovers
PROPERTIES
  FailedStaysOut
CHECK_DEADLOCK FALSE

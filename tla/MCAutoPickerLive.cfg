SPECIFICATION FairSpec
CONSTANTS
  N = 3
  Left <- SharedLeft
  Right <- SharedRight
  excluded = {}
  TopY = 2
  MaxSteps = 1
  PerStep = 1
  Cap = 0
  Dwell = 2
  Margin = 0
  MinScore = 0
  Scores = {0, 1}
  Prices = {1}
  Histories <- UnitHistories
  Fails = FALSE
  CalmsDown = TRUE
  MaxStarts = 1
  MaxExternal = 0
INVARIANTS
  MarketsApart
PROPERTIES
  SlotsFilled
  Converges
CHECK_DEADLOCK FALSE

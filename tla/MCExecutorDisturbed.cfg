SPECIFICATION Spec
CONSTANTS
  MaxQty = 2
  Hedges = {0, 1}
  Lagging = TRUE
  MaxBatches = 1
  MaxExternal = 1
INVARIANTS
  TypeOK
  OneBatchAtATime
  SettledAtTarget
  ExitWaitsForReports
  FillsCountedOnce
  NoFalseAlarm
\* a settled execution stops
CHECK_DEADLOCK FALSE

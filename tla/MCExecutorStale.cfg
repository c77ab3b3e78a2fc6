SPECIFICATION Spec
CONSTANTS
  MaxQty = 2
  Hedges = {0, 1}
  Lagging = TRUE
  MaxBatches = 1
  MaxExternal = 1
INVARIANTS
  ExitIsFlat
\* a settled execution stops
CHECK_DEADLOCK FALSE

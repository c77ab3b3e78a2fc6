SPECIFICATION Spec
CONSTANTS
  MaxQty = 2
  Hedges = {0, 1}
  Lagging = FALSE
  MaxBatches = 2
  MaxExternal = 0
INVARIANTS
  RescueReducible
PROPERTIES
  KeepsContract
\* a settled execution stops
CHECK_DEADLOCK FALSE

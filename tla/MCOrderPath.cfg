SPECIFICATION FairSpec
CONSTANTS
  order = order
  leverage = leverage
  Orders <- OneOrder
  Others <- OneOther
  Qty = 2
  Retries = 2
  MaxUnknown = 2
  MaxAgain = 1
INVARIANTS
  ResultIsTrue
  RefusedOnlyAfterUnknown
PROPERTIES
  TerminalReportStays
  CallsEnd
CHECK_DEADLOCK FALSE

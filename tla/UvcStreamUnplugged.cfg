CONSTANTS
  Transfers = {t1, t2}
  MaxSeq = 4
  Bulk = FALSE
  Disconnects = TRUE
  StartFails = FALSE
  ResubmitFails = FALSE
  None = None
SPECIFICATION Spec
INVARIANTS
  StopEndsThreads
CHECK_DEADLOCK FALSE

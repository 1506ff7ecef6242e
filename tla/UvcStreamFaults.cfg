CONSTANTS
  Transfers = {t1, t2, t3}
  MaxSeq = 4
  Bulk = TRUE
  Disconnects = TRUE
  StartFails = TRUE
  ResubmitFails = TRUE
  None = None
SPECIFICATION Spec
SYMMETRY Symmetry
INVARIANTS
  NoBrokenFrame
  SleepersHaveReason
CHECK_DEADLOCK FALSE

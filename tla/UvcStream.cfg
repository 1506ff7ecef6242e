CONSTANTS
  Transfers = {t1, t2}
  MaxSeq = 3
  Bulk = FALSE
  Disconnects = FALSE
  StartFails = FALSE
  ResubmitFails = TRUE
  None = None

SPECIFICATION FairSpec

INVARIANTS
  FreedIsUnused

PROPERTIES
  DeliversAsPromised
  StopHangsOnlyByLostTransfer
  PublishedIsTaken

CHECK_DEADLOCK FALSE

CONSTANTS
  Callers = {c1, c2}
  Cameras = {u1, u2}
  MaxQueue = 1
  None = None
SPECIFICATION FairSpec
INVARIANTS
  RunningPreviewIsKnown
  NoCameraForgotten
  EndReleasesAll
PROPERTIES
  NotifiedWhenStopped
  StopMissesOnlyAStart
  StopIsNotified
  CallsTakeEffect
CHECK_DEADLOCK FALSE

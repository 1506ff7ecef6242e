CONSTANTS
  video = video
  audio = audio
  MaxFrames <- MCFrames
  MaxRemovals = 1
  None = None

SPECIFICATION Spec

INVARIANTS
  
  StopsWithTheLast

PROPERTIES
  RequestsAreHeeded
  StopEndsTheThread

CHECK_DEADLOCK FALSE

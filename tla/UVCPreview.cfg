CONSTANTS
  Frames = {f1, f2}
  CaptureThreads = {c1}
  Callbacks = {k1}
  Surfaces = {s1}
  MaxFrame = 1
  PoolSize = 1
  Mjpeg = FALSE
  SpuriousWakeups = FALSE
  App = App
  None = None
SPECIFICATION Spec
SYMMETRY Symmetry
INVARIANTS
  TypeOK
  StopIsComplete
  CallbackFieldValid
PROPERTIES
  LeaksOnlyAtStop
CHECK_DEADLOCK FALSE

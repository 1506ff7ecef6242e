CONSTANTS
  Frames = {f1, f2}
  CaptureThreads = {c1}
  Callbacks = {k1}
  Surfaces = {}
  MaxFrame = 1
  PoolSize = 1
  Mjpeg = FALSE
  SpuriousWakeups = FALSE
  App = App
  None = None
SPECIFICATION Spec
PROPERTIES
  SetterWaitsForCapture
CHECK_DEADLOCK FALSE

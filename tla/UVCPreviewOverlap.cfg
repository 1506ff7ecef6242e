CONSTANTS
  Frames = {f1, f2}
  CaptureThreads = {c1, c2}
  Callbacks = {}
  Surfaces = {}
  MaxFrame = 2
  PoolSize = 1
  Mjpeg = TRUE
  SpuriousWakeups = TRUE
  App = App
  None = None

SPECIFICATION Spec

SYMMETRY Symmetry

INVARIANTS
  FrameOwnership
  NoSleeperMissesAFrame

PROPERTIES
  StreamAsPromised

CHECK_DEADLOCK FALSE

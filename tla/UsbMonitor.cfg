CONSTANTS
  Devices = {d1, d2}
  Blocks = {b1, b2, b3, b4}
  None = None

SPECIFICATION Spec

INVARIANTS
  CameraHasItsConnection

PROPERTIES
  LosesConnectionOnlyBy
  NewCameraIsAnnounced
  ReleaseClosesCamera

CHECK_DEADLOCK FALSE

CONSTANTS
  Sessions = {c1, c2, c3}
  None = None

SPECIFICATION Spec

INVARIANTS
  FramesAreLostOnlyInAStop
  NumeralsHaveOneOwner
  NothingIsLeft
  ThrowsOnlyFor

PROPERTIES
  StopPusherReturns

CHECK_DEADLOCK FALSE

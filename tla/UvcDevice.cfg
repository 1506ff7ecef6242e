CONSTANTS
  main = main
  preview = preview
  Handler = handler
  Callers <- MCCallers
  Client = main
  Status = status
  MaxSubmitted = 3
  None = None

SPECIFICATION Spec

INVARIANTS
  CallbacksEndAtClose
  SleepersAreWoken
  NothingIsLeft

PROPERTIES
  ControlReturns
  ReleaseReturns

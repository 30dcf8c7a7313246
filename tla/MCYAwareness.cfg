SPECIFICATION AwarenessLiveSpec
CONSTANTS
  UseBc = FALSE
  MaxBackoff = 0
  MaxTimers = 1
  MaxCalls = 3
  MaxBehind = 0
INVARIANTS
  FlagsAgree
  OneController
  ClosedIsRemoved
PROPERTIES
  Connects
  PresentIsShown
  GoneIsRemoved
  OthersAreShown
CHECK_DEADLOCK FALSE

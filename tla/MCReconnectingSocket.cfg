SPECIFICATION LiveSpec
CONSTANTS
  RetryLimits = {1, 3}
  RetryCap = 2
  MaxEnqueued = 2
  MaxCalls = 3
  MaxSends = 3
INVARIANTS
  NeverIdle
PROPERTIES
  NoLeakedSocket
  EventsAlternate
  ImplementsOutbox
  Reopens
CHECK_DEADLOCK FALSE

SPECIFICATION Spec
CONSTANTS
  Id = {i1, i2}
  Nothing = Nothing
  Horizon = 3
  Never = 5
  MaxCalls = 3
  MaxCrashes = 0
  PastTimes = FALSE
INVARIANTS
  TasksAreKept

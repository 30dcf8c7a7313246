SPECIFICATION LiveSpec
CONSTANTS
  Id = {i1, i2}
  Nothing = Nothing
  Horizon = 2
  Never = 4
  MaxCalls = 3
  MaxCrashes = 1
  PastTimes = TRUE
INVARIANTS
  UpcomingCovered
PROPERTIES
  NotRunAgain
  ConstructorEnds

SPECIFICATION LiveSpec
CONSTANTS
  Client = {c1, c2}
  MaxEdits = 1
  MaxBreaks = 2
  MaxCrashes = 1
INVARIANTS
  NothingMissed
  SyncedMeansSynced
  SaveIsPending
PROPERTIES
  Converges
CHECK_DEADLOCK FALSE

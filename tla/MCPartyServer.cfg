SPECIFICATION LiveSpec
CONSTANTS
  c1 = c1
  c2 = c2
  c3 = c3
  i1 = i1
  i2 = i2
  t1 = t1
  t2 = t2
  None = None
  Conn <- MCConn
  Id <- MCId
  IdOf <- MCIdOf
  Task <- MCTask
  MaxLives = 2
INVARIANTS
  BroadcastReachesAll
  MapIsExact
  HooksAfterStart
PROPERTIES
  EveryEventAnswered

SPECIFICATION SyncSpec
CONSTANTS
  c1 = c1
  c2 = c2
  i1 = i1
  i2 = i2
  Browser <- MCBrowser
  Id <- MCId
  MaxCalls = 2
  Settings <- MCSettings
SYMMETRY Symmetry
INVARIANTS
  FirstPageAgrees
  
CHECK_DEADLOCK FALSE

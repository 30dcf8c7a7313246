SPECIFICATION LiveSpec
CONSTANTS
  a = a
  b = b
  Devices = {a, b}
  Lists <- MCLists
  Settings <- MCSettings
  Slots = {1, 2, 3}
  MaxChanges = 1
  None = None
INVARIANTS
  NothingLeftOn
  OneAtATime
PROPERTIES
  SettlesInOrder

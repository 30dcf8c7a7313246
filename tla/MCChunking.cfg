SPECIFICATION ChunkingSpec
CONSTANTS
  Conn = {c1, c2}
  ChunkMax = 2
  Sizes = {2, 3, 4}
  MaxMessages = 2
  NoBatch = NoBatch
  MaxLosses = 1
  MaxEvictions = 1
INVARIANTS
  AssembledIntact
  ChunkingUnseen
CHECK_DEADLOCK FALSE

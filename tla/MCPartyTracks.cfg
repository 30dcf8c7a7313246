SPECIFICATION Spec
CONSTANTS
  Pushed = {p1, p2, p3}
  Pulled = {q1}
  Limit = 2
  MaxFailures = 1
  MaxCalls = 4
SYMMETRY Symmetric
INVARIANTS
  SentByThen
  OwnRequest
  NoLeak

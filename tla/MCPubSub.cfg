SPECIFICATION Spec
CONSTANTS
  Client = {c1, c2}
  Part <- MCPart
  Room <- MCRoom
  Location <- MCLocation
  MaxNodes = 2
  MaxWeight = 2
  Topic <- MCTopic
  Topics <- MCTopics
  MaxMessages = 1
  None = None
SYMMETRY Symmetric
INVARIANTS
  NothingLost
PROPERTY
  SentInOneGo
  ImplementsFeed

SPECIFICATION FairSpec
CONSTANTS
  p1 = p1
  p2 = p2
  Peer = {p1, p2}
  Block = {"G","A1","A2"}
  Genesis = "G"
  Parent <- MCParent
  Number <- MCNumber
  Body <- MCBody
  Empty = "empty"
  Invalid = {}
  hashLimit = 2
  blockLimit = 1
  maxUncleDist = 1
  maxQueueDist = 2
  MaxNotify = 2
  MaxPropagated = 1
  Synced = {"A1"}
  None = None
INVARIANT TablesExact
PROPERTIES Resolves ChildFollows
CHECK_DEADLOCK FALSE

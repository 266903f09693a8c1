SPECIFICATION FairSpec
CONSTANTS
  p1 = p1
  p2 = p2
  Peer = {p1, p2}
  N = 3
  Parts <- MCFull
  Noop <- MCNoopFull
  blockCacheItems = 2
  maxResultsProcess = 1
  maxQueuedHeaders = 3
  minFails = 1
  Capacity = {2}
  MaxFaults = 1
INVARIANTS Conserved InCache
PROPERTIES NoDoubleFetch Implements Ends
CHECK_DEADLOCK FALSE

SPECIFICATION FairSpec
CONSTANTS
  Account = {"a", "b"}
  Tx <- FewTx
  Block <- Fork
  Genesis = "g"
  Parent <- ForkParent
  Td <- ForkTd
  Included <- SharedIncluded
  Balance <- FewBalance
  GasLimit <- FewGasLimit
  Stateless = {"x1"}
  PriceBump = 10
  AccountSlots = 4
  GlobalSlots = 8
  AccountQueue = 1
  GlobalQueue = 2
  PriceLimit = 10
  NoLocals = FALSE
  Journaling = TRUE
  maxReorgDepth = 2
  Thresholds = {}
  MaxBatch = 1
  MaxRestarts = 2
  None = None
INVARIANT FitsState
PROPERTIES Reinjected Survives FollowsHighest

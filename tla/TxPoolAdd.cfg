SPECIFICATION Spec
CONSTANTS
  Account = {"a", "b"}
  Tx <- AddTx
  Block <- OneBlock
  Genesis = "g"
  Parent <- NoParent
  Td <- OneTd
  Included <- NothingIncluded
  Balance <- OneBalance
  GasLimit <- OneGasLimit
  Stateless = {}
  PriceBump = 10
  AccountSlots = 1
  GlobalSlots = 2
  AccountQueue = 1
  GlobalQueue = 2
  PriceLimit = 10
  NoLocals = FALSE
  Journaling = FALSE
  maxReorgDepth = 2
  Thresholds = {11}
  MaxBatch = 2
  MaxRestarts = 0
  None = None
INVARIANTS Tracked Promoted QueuesCapped
PROPERTY LocalsKept

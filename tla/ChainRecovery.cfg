SPECIFICATION FairSpec
CONSTANTS
  Block <- SmallBlock
  Genesis = "G"
  Parent <- SmallParent
  Difficulty <- SmallDifficulty
  Tx = {}
  Txs <- SmallTxs
  Bad = {}
  Early = {}
  Far = {}
  Mined = {}
  Archive = FALSE
  TriesInMemory = 2
  MaxBatch = 2
  MaxStops = 1
  None = "none"
INVARIANT
  HeadSound
PROPERTIES
  Recovers

SPECIFICATION ProgressSpec
CONSTANTS
  Block <- SmallBlock
  Genesis = "G"
  Parent <- SmallParent
  Difficulty <- SmallDifficulty
  Tx = {}
  Txs <- SmallTxs
  Bad = {}
  Early = {"D2", "D3"}
  Far = {"D3"}
  Mined = {}
  Archive = FALSE
  TriesInMemory = 2
  MaxBatch = 1
  MaxStops = 0
  None = "none"
PROPERTIES
  FutureImported

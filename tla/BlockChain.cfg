SPECIFICATION Spec
CONSTANTS
  Block <- MCBlock
  Genesis = "G"
  Parent <- MCParent
  Difficulty <- MCDifficulty
  Tx <- MCTx
  Txs <- MCTxs
  Bad = {}
  Early = {}
  Far = {}
  Mined = {"B2"}
  Archive = FALSE
  TriesInMemory = 2
  MaxBatch = 2
  MaxStops = 0
  None = "none"
INVARIANTS
  HeadIsBest
  IndexesExact

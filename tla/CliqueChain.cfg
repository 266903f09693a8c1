SPECIFICATION Spec
CONSTANTS
  Address = {0, 1, 2, 3}
  GenesisSigners = {1, 2, 3}
  GenesisVoters = {1, 2}
  Epoch = 5
  Candidates = {0, 1, 2, 3}
  MaxNumber = 7
INVARIANTS
  TallyExact
  DifficultyImpliesRecency
  DifficultyRanks
  PlainBlockAccepted
PROPERTIES
  MajorityDecides
CHECK_DEADLOCK FALSE

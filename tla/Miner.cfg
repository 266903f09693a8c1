SPECIFICATION FairSpec
CONSTANTS
  Address = {0, 1, 2}
  GenesisSigners = {1, 2}
  GenesisVoters = {1}
  Epoch = 3
  Account = {1}
  Proposals <- MCProposals
  Period = 0
  Serial = TRUE
  resultQueueSize = 1
  Budgets <- MCBudgets
  MaxWorks = 5
INVARIANTS BlocksValid
PROPERTIES MuReleased  Honoured
CHECK_DEADLOCK FALSE

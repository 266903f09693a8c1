SPECIFICATION Spec
CONSTANTS
  None = None
  Address <- MCAddress
  Slot = {1}
  Ripemd = "r"
  CreateAddress <- MCCreateAddress
  Precompiles = {"r"}
  Coinbase = "k"
  BlockReward = 1
  GasLimit = 20
  Message <- MCMessage
  Genesis <- MCGenesis
  Operand = {"c", "d", "r"}
  Amount = {0, 1}
  Request = {4}
  Word = 64
  Fraction = 4
  CallCreateDepth = 2
  TxGas = 2
  TxGasContractCreation = 3
  CallsGas = 1
  CallNewAccountGas = 2
  CallValueTransferGas = 2
  CallStipend = 1
  SstoreSetGas = 2
  SstoreClearGas = 1
  SstoreResetGas = 1
  SstoreRefundGas = 2
  LogGas = 1
  CreateGas = 2
  CreateDataGas = 1
  SuicideGas = 1
  CreateBySuicideGas = 1
  SuicideRefundGas = 3
  PrecompileGas = 1
  Budgets <- MCBudgets
INVARIANTS RevertExact Persisted Conserved FailedOnlyPays StaticPure
CHECK_DEADLOCK FALSE

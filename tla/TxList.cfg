SPECIFICATION Spec
CONSTANTS
  Nonce = {0, 1, 2}
  Cost = {1, 2}
  Gas = {1, 2}
  Tx <- MCTx
  PriceBump = 10
  Nil = Nil
INVARIANTS
  Coherent
PROPERTIES
  Implements

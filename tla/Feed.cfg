SPECIFICATION FairSpec
CONSTANTS
  ch1 = ch1
  ch2 = ch2
  ch3 = ch3
  Timer = Timer
  Channel = {ch1, ch2, ch3}
  Canceling = {ch1, ch2}
  Capacity = 1
  MaxSends = 2
INVARIANTS
  Ordered
  EveryValueOnce
PROPERTIES
  SendReturns
CHECK_DEADLOCK FALSE

SPECIFICATION Spec
CONSTANTS
  Nodes = {1, 2, 3}
  InitialLinks <- Ring
  InitialParent <- ChainParent
  InitialDistance <- ChainDistance
  CheckInterval = 1
  MaxTxFailures = 0
  TxCounterSize = 4
  Timely = TRUE
  FifoSize = 2
  MaxPackets = 2
  MaxWaits = 2
  MaxLosses = 1
INVARIANT NoCircularReference
CHECK_DEADLOCK FALSE

SPECIFICATION Spec
CONSTANTS
  Nodes = {1, 2, 3}
  InitialLinks <- Ring
  InitialParent <- ChainParent
  InitialDistance <- ChainDistance
  CheckInterval = 1
  MaxTxFailures = 0
  TxCounterSize = 3
  Timely = TRUE
  FifoSize = 2
  MaxPackets = 2
  MaxWaits = 1
  MaxLosses = 1
INVARIANT NoReadyCircle
PROPERTIES PingsMoveOn KeepsUplinkPromise
CHECK_DEADLOCK FALSE

SPECIFICATION FairSpec
CONSTANTS
  Nodes = {1, 2}
  InitialLinks <- Chain
  InitialParent <- AllBooting
  InitialDistance <- Unknown
  CheckInterval = 1
  MaxTxFailures = 0
  TxCounterSize = 4
  Timely = TRUE
  FifoSize = 3
  MaxPackets = 3
  MaxWaits = 1
  MaxLosses = 0
PROPERTY EverybodyJoins
CHECK_DEADLOCK FALSE

SPECIFICATION MCSpec
CONSTANTS
  Neighbours = {0, 3}
  Ids = {7}
  InitialIds = {0, 255}
  Hops = {1, 2}
  Distances = {0, 254, 255}
  MY_NODE_ID = 255
  MY_PARENT_NODE_ID = 3
  MY_PARENT_NODE_IS_STATIC = FALSE
  MY_REPEATER_FEATURE = TRUE
  UplinkCheckEnabled = TRUE
  MY_TRANSPORT_MAX_TX_FAILURES = 1
  MY_TRANSPORT_MAX_TSM_FAILURES = 2
  MY_TRANSPORT_STATE_RETRIES = 2
  TxCounterSize = 4
  StateTimeout = 1
  FailureTimeout = 0
  ExtFailureTimeout = 1
  CheckInterval = 1
  MaxDepth = 2
  MaxFaults = 1
INVARIANTS ReadyMeansConnected PingGateReopens
PROPERTIES GivesUpAfterAllRetries ImplementsUplink

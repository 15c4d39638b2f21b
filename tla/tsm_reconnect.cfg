SPECIFICATION MCFairSpec
CONSTANTS
  Neighbours = {0, 3}
  Ids = {7}
  InitialIds = {255}
  Hops = {1}
  Distances = {0}
  MY_NODE_ID = 255
  MY_PARENT_NODE_ID = 255
  MY_PARENT_NODE_IS_STATIC = FALSE
  MY_REPEATER_FEATURE = TRUE
  UplinkCheckEnabled = TRUE
  MY_TRANSPORT_MAX_TX_FAILURES = 0
  MY_TRANSPORT_MAX_TSM_FAILURES = 1
  MY_TRANSPORT_STATE_RETRIES = 1
  TxCounterSize = 2
  StateTimeout = 0
  FailureTimeout = 0
  ExtFailureTimeout = 0
  CheckInterval = 0
  MaxDepth = 1
  MaxFaults = 0
PROPERTIES AlwaysReconnects

SPECIFICATION FairSpec
CONSTANTS
  Size = 2
  RadioFifo = 3
  LostMax = 2
  MaxMessages = 5
  MaxFaults = 1
INVARIANTS NoneLostSilently
PROPERTIES InOrder KeepsMailboxPromise NoneStuck
CHECK_DEADLOCK FALSE

SPECIFICATION Spec
CONSTANTS
  s1 = s1
  s2 = s2
  r1 = r1
  r2 = r2
  m1 = m1
  m2 = m2
  Senders = {s1, s2}
  Receivers = {r1, r2}
  Messages = {m1, m2}
  NonceRequest = NonceRequest
  None = None
  LockAfter = 2
  LockCounterSize = 3
  MaxDepth = 2
  MaxNonces = 2
  MaxResets = 1
INVARIANTS NonceAcceptedOnce SignedForItsDestination LockInEEPROM SendsItsOwnUnlessNested
CHECK_DEADLOCK FALSE

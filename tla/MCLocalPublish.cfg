SPECIFICATION Spec
CONSTANTS
  None = None
  c1 = c1
  c2 = c2
  c3 = c3
  c4 = c4
  c5 = c5
  k1 = k1
  k2 = k2
  d1 = d1
  d2 = d2
  Calls <- MCCalls
  IdemKeys <- MCIdemKeys
  Digests <- MCDigests
  Request <- MCRequest
  MaxCrashes = 2
INVARIANT StableReceipt
INVARIANT ExecutedIsServed
PROPERTY ImplementsAbstractPublish
CHECK_DEADLOCK FALSE

SPECIFICATION FairSpec
CONSTANTS
  None = None
  c1 = c1
  c2 = c2
  c3 = c3
  k1 = k1
  k2 = k2
  Calls <- MCCalls
  IdemKeys <- MCIdemKeys
  Request <- MCRequest
  MaxRetries = 1
  Skew = 1
  Lifetimes = {3}
  DefaultLife = 2
  MaxNow = 2
INVARIANT RefIsThePost
INVARIANT CachedTokenLives
PROPERTY ImplementsAbstractPublish
PROPERTY Terminates
CHECK_DEADLOCK FALSE

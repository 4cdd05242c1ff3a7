SPECIFICATION Spec
CONSTANTS
  None = None
  a = a
  b = b
  w1 = w1
  w2 = w2
  w3 = w3
  p1 = p1
  p2 = p2
  logKey = logKey
  otherKey = otherKey
  KeyIds <- MCKeyIds
  LogKey = logKey
  Leaves <- MCLeaves
  Heads <- MCHeads
  Witnesses <- MCWitnesses
  Distributors <- MCDistributors
  MinWitnesses = 2
  Worlds <- MCWorlds
INVARIANT WitnessChain
INVARIANT QuorumNeverSplits
INVARIANT NoFalseAlarm
PROPERTY RefusedOnlyByRace
SYMMETRY MCSymmetry
CHECK_DEADLOCK FALSE

SPECIFICATION LogSpec
CONSTANTS
  d1 = d1
  d2 = d2
  Entries <- MCEntries
  MaxSize = 8
  MaxFaultySize = 4
  MaxProof = 3
  MaxFaults = 1
  MaxCheckpoints = 1
INVARIANT CheckpointsStayConsistent
INVARIANT AckedIsProvable
INVARIANT ForkIsNoticed
INVARIANT OnlyLeavesAreIncluded
SYMMETRY MCSymmetry
CHECK_DEADLOCK FALSE

CONSTANTS
  g1 = g1
  g2 = g2
  Generators <- MCGenerators
  Cap = 1
  LineSize <- MCLineSize
  MaxEvents <- MCMaxEvents
  MaxFaults = 1
  Null = Null
SPECIFICATION FairStreamSpec
INVARIANTS FileIsTail DeliveredInOrder
PROPERTIES NothingSkipped CatchesUp
CHECK_DEADLOCK FALSE

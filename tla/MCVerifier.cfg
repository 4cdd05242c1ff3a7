SPECIFICATION Spec
CONSTANTS
  None = None
  k1 = k1
  k2 = k2
  k3 = k3
  Passports <- MCPassports
  Entries <- MCEntries
  MaxRecords = 2
  MaxEntries = 2
INVARIANT OnlyPublishedIdsCount
PROPERTY NeverTakenBack
PROPERTY RestartCatchesUp
CHECK_DEADLOCK FALSE

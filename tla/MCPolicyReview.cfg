SPECIFICATION ReviewSpec
CONSTANTS
  None = None
  tenantA = tenantA
  tenantB = tenantB
  keyA = keyA
  keyB = keyB
  siteX = siteX
  siteY = siteY
  asset1 = asset1
  Inputs <- MCInputs
  RightsPool <- MCRightsPool
  KeyIds <- MCKeyIds
  Platforms <- MCPlatforms
  MaxClock = 2
  MaxEdits = 4
PROPERTY OnlyReliefRelaxes
PROPERTY ReliefNeverHardens
CHECK_DEADLOCK FALSE

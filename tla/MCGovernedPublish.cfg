SPECIFICATION SpecWithRunner
CONSTANTS
  None = None
  tenantA = tenantA
  tenantB = tenantB
  keyA = keyA
  keyB = keyB
  siteX = siteX
  asset1 = asset1
  r1 = r1
  r2 = r2
  k1 = k1
  Tenants <- MCTenants
  Identities <- MCIdentities
  Keys <- MCKeys
  Claims <- MCClaims
  Proposals <- MCProposals
  Requests <- MCRequests
  Runs <- MCRuns
  IdemKeys <- MCIdemKeys
  InitialClaims <- MCInitialClaims
  InitialTrust <- MCInitialTrust
  MaxTime = 1
  MaxClaims = 4
  MaxApprovals = 2
INVARIANT ExecutedIsAuthorised
INVARIANT AgentNeedsAnotherKey
INVARIANT OneReceiptPerKey
INVARIANT PublishedWasPermitted
SYMMETRY RunSymmetry
CHECK_DEADLOCK FALSE

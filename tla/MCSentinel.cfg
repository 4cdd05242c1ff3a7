SPECIFICATION Spec
CONSTANTS
  None = None
  alice = alice
  bob = bob
  judge = judge
  Targets <- MCTargets
  ReporterIds <- MCReporterIds
  KeyIds <- MCKeyIds
  ReporterKeyIds <- MCReporterKeyIds
  Reports <- MCReports
  Appeals <- MCAppeals
  Adjudications <- MCAdjudications
  Quorum = 2
  MaxLog = 6
INVARIANT CorroborationIsLogged
INVARIANT OverturnedIsOut
PROPERTY ContestedUntilAdjudicated
CHECK_DEADLOCK FALSE

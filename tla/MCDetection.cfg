SPECIFICATION DetectionSpec
CONSTANTS
  Null = Null
  alice = alice
  bob = bob
  carol = carol
  k1 = k1
  k2 = k2
  Chars <- MCChars
  LowerOf <- MCLowerOf
  Confusables <- MCConfusables
  Names <- MCNames
  Contents <- MCContents
  Empty = ""
  Images <- MCImages
  CdcSim <- MCCdcSim
  LookSim <- MCLookSim
  ClipSim <- MCClipSim
  Threshold <- MCThreshold
  Accounts <- MCAccounts
  SigningKeyIds = {k1}
  Passports <- MCPassports
  Raws <- MCRaws
  Clips <- MCClips
  Protected <- MCProtected
  Candidates <- MCCandidates
  OtherLinks <- MCOtherLinks
  Levels = {0, 500, 900}
  MaxEntries = 3
  MaxSigned = 2
  MaxPresented = 2
INVARIANT DetectionIsBest
INVARIANT EvidenceStaysGood
INVARIANT ClusterIsReach
CHECK_DEADLOCK FALSE

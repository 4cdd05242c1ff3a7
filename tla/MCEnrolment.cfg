SPECIFICATION EnrolmentSpec
CONSTANTS
  Undefined = Undefined
  alice = alice
  bob = bob
  keyA = keyA
  keyB = keyB
  Subjects <- MCSubjects
  KeyIds <- MCKeyIds
  Modalities <- MCModalities
  Consents <- MCConsents
  Withdrawals <- MCWithdrawals
  MaxEnrolments = 4
  MaxTime = 2
INVARIANT GoneOnceWithdrawn
INVARIANT ExistingCanBeShredded
CHECK_DEADLOCK FALSE

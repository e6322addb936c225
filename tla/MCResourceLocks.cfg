SPECIFICATION Spec
CONSTANTS
  r1 = r1
  r2 = r2
  r3 = r3
  a = a
  b = b
  NoRun = NoRun
  Runs <- MCRuns
  LockIds <- MCLockIds
  IdsOf <- MCIdsOf
  TTL = 1
  MaxTime = 3
INVARIANTS
  ExclusiveUnlessRacedOrLapsed
  RowsHaveLiveOrCrashedOwners
PROPERTIES
  LeaseEndsByExpiryOrRelease
CHECK_DEADLOCK FALSE

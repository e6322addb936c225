SPECIFICATION Spec
CONSTANTS
  w = w
  e = e
  h = h
  q1 = q1
  q2 = q2
  s1 = s1
  NoRun = NoRun
  Names <- MCNames
  Wildcards <- MCWildcards
  CoverPairs <- MCCoverPairs
  Reqs <- OneReq
  Sse <- Nobody
  Domains <- OneDomains
  Scans <- OneScan
  PastSans <- PastAny
  MaxRows = 2
  MaxDeletes = 1
  MaxFaults = 1
INVARIANTS
  StoredCertCoversSans
  CompletedImpliesStored
CHECK_DEADLOCK FALSE

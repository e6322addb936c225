SPECIFICATION Spec
CONSTANTS
  w = w
  e = e
  h = h
  q1 = q1
  q2 = q2
  s1 = s1
  NoRun = NoRun
  Names <- MCNames
  Wildcards <- MCWildcards
  CoverPairs <- MCCoverPairs
  Reqs <- SameReqs
  Sse <- SameSse
  Domains <- SameDomains
  Scans <- Nobody
  PastSans <- PastHost
  MaxRows = 3
  MaxDeletes = 1
  MaxFaults = 1
INVARIANTS
  FailureHasACause
  StreamsEndWithVerdict
PROPERTIES
  ImplementsHub
  OwnSuccessIsServed
CHECK_DEADLOCK FALSE

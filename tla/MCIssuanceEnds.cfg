SPECIFICATION FairSpec
CONSTANTS
  w = w
  e = e
  h = h
  q1 = q1
  q2 = q2
  s1 = s1
  NoRun = NoRun
  Names <- MCNames
  Wildcards <- MCWildcards
  CoverPairs <- MCCoverPairs
  Reqs <- SameReqs
  Sse <- SameSse
  Domains <- SameDomains
  Scans <- Nobody
  PastSans <- PastNone
  MaxRows = 2
  MaxDeletes = 0
  MaxFaults = 1
PROPERTIES
  EveryRequestEnds
CHECK_DEADLOCK FALSE

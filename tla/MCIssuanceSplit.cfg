SPECIFICATION Spec
CONSTANTS
  w = w
  e = e
  h = h
  q1 = q1
  q2 = q2
  s1 = s1
  NoRun = NoRun
  Names <- MCNames
  Wildcards <- MCWildcards
  CoverPairs <- MCCoverPairs
  Reqs <- SameReqs
  Sse <- SameSse
  Domains <- SplitDomains
  Scans <- Nobody
  PastSans <- PastSplit
  MaxRows = 3
  MaxDeletes = 0
  MaxFaults = 1
INVARIANTS
  AnswersCoverTheRequest
CHECK_DEADLOCK FALSE

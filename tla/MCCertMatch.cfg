SPECIFICATION Spec
CONSTANTS
  c1 = c1
  c2 = c2
  Label <- MCLabel
  Names <- MCNames
  Hosts <- MCHosts
  Consumers <- TwoConsumers
  Allow <- TwoAllow
  Asks <- MCAsks
  AnyOutcome = TRUE
  MaxRows = 3
INVARIANTS
  AnswersServeHosts
  CoverageIsSemantic
CHECK_DEADLOCK FALSE

CONSTANTS
  a = a
  b = b
  s1 = s1
  s2 = s2
  n1 = n1
  n2 = n2
  nobody = nobody
  Crs <- MCCrs
  Present <- MCPresent
  SecretNames <- MCSecretNames
  NameSets <- MCNameSets
  Nobody <- nobody
  CanDelete = TRUE
  MaxEvents = 3
SPECIFICATION RSpec
CHECK_DEADLOCK FALSE
INVARIANTS
  AlwaysScheduled
  ReadyHasItsSecret

PROPERTIES
  DeletionFinishes
  EventuallySynced

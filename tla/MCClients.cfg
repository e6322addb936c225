CONSTANTS
  Label <- MCLabel
  Hosts <- MCHosts
  Wildcards <- MCWildcards
  Handshakes <- MCHandshakes
  Configs <- MCConfigs
  Calls <- MCCalls
  Verbs <- MCVerbs
  Unknown = "bogus"
  Empty = "chain"
  Lifetime = 8
  RenewAge = 5
  LocalAge = 7
  Margin = 2
  Timeout = 1
  Base = 1
  MaxDelay = 3
  Horizon = 12
  Namespaced = {"n"}
  Clustered = {"k"}
  TokenSecrets = {"s"}
  MaxChanges = 4
SPECIFICATION ClientsSpec
CHECK_DEADLOCK FALSE
INVARIANTS
  CachedNotDue
  EntriesServeTheirHosts
  StrongestSourceWins
  InstalledInTime
  OwnResponses
  ConditionsFollowTheSpec
PROPERTIES
  StopsOnSignal
  CallsReturn

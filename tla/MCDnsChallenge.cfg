CONSTANTS
  Orders <- MCOrders
  Challenges <- MCChallenges
  OrderOf <- MCOrderOf
  Bare <- MCBare
  Value <- MCValue
  Zones <- MCZones
  Suffixes <- MCSuffixes
  Creds <- MCCreds
  Filled = {"cf", "ali"}
  Alicloud = {"ali"}
  Contains <- MCContains
  Tables <- MCTables
  Foreign <- MCForeign
  Unbound = "unbound"
  Unregistered = "unregistered"
  FirstId = 1
  PageSize = 2
  MaxEdits = 1
  MaxErrors = 1
  MaxRecords = 4
SPECIFICATION FairSpec
CHECK_DEADLOCK FALSE
INVARIANTS
  RecordStandsWhileOffered
  NothingLeftBehind
PROPERTIES
  OrdersEnd

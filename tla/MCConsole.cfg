CONSTANTS
  Accounts = {"A1"}
  Credentials = {"D1"}
  Consumers = {"c1"}
  Certificates = {"x1"}
  Domains = {"d1"}
  Admins = {"t1", "t2"}
  None = "none"
  MaxToken = 2
  MaxEdit = 1
  Ids = {1}
  Editors = {"e1"}
  Dirs = {"letsencrypt", "zerossl"}
  EabDirs = {"zerossl"}
  MaxKey = 2
  Windows = {"0.5"}
  Passwords = {"p1"}
  Pages = {"s1", "s2"}
  Tabs = {"b1", "b2"}
  Clients = {"a", "b"}
  MaxFetches = 2
  MaxLoads = 3
  MaxPageToken = 3
  MaxIssued = 1
  Limit = 2
  MaxLogs = 5
  Rows = {"r", "s", "x"}
  PageOf <- MCPageOf
  Elsewhere = "-"
  MaxVisits = 4
  MaxReads = 3
SPECIFICATION ConsoleSpec
CHECK_DEADLOCK FALSE
INVARIANTS
  DanglingNeedsALateWrite
  RevokedStaysRevoked
  AccountsCanSign
  UntouchedFieldsKeepTheirValues
  AppPagesAreSignedIn
  ListFollowsConsumer
  PagingMissesNothing
  LastPageIsTheEnd
  ButtonsActOnOneRow

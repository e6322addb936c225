SPECIFICATION Spec
CONSTANTS
  a = a
  b = b
  d = d
  NoRow = NoRow
  NoRun = NoRun
  Certs <- ThreeCerts
  Stuck <- OneStuck
  Limit = 2
  Lookback = 2
  Lead = 2
  Lifetime = 6
  MaxEvictions = 1
  Horizon = 8
SYMMETRY Sym
INVARIANTS
  SlotsFitTheScan
  SlotsLieAhead
  HealthyNeverExpire
CHECK_DEADLOCK FALSE

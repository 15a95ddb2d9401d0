SPECIFICATION ServerSpec
CONSTANTS
  r1 = r1
  r2 = r2
  k1 = k1
  k2 = k2
  AnyKind = AnyKind
  Requests <- McRequests
  Configs <- McConfigs
  Kinds <- McKinds
  Asks <- McAsks
  MaxEvents = 2
  DefaultLimit = 1
  MaxLimit = 2
  Fits = 1
  MaxWrites = 3
INVARIANTS ServerInv PagesComplete CleanStop
PROPERTIES StopsInTime
CHECK_DEADLOCK FALSE

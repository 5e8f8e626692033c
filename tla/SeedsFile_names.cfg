SPECIFICATION FileSpec
CONSTANTS
  ip1 = ip1
  ip2 = ip2
  pool = pool
  host = host
  POOL = POOL
  poolDot = poolDot
  hostDot = hostDot
  app = app
  chronyd = chronyd
  none = none
  Value <- WithDots
  IP <- OneAddress
  Canonical <- OnlySpelling
  Lower <- LowerDots
  EndsWith <- BelowDots
  Reported <- WithDot
  Port <- Ports
  Fleet <- Fleets
  Chronyd <- TimeFleets
  NoGroup = none
  MaxEntries = 1
INVARIANTS PoolCoversReportedNames
CHECK_DEADLOCK FALSE

SPECIFICATION FileSpec
CONSTANTS
  ip1 = ip1
  ip2 = ip2
  pool = pool
  host = host
  POOL = POOL
  poolDot = poolDot
  hostDot = hostDot
  app = app
  chronyd = chronyd
  none = none
  Value <- Plain
  IP <- Addresses
  Canonical <- FirstSpelling
  Lower <- LowerPlain
  EndsWith <- BelowPlain
  Reported <- AsIs
  Port <- Ports
  Fleet <- Fleets
  Chronyd <- TimeFleets
  NoGroup = none
  MaxEntries = 2
INVARIANTS DeclaredIsCovered ConfigurationIsCovered UnseededTrafficCollapses
PROPERTIES SuggestionsOnlyGrow
CHECK_DEADLOCK FALSE

SPECIFICATION Spec
CONSTANTS
  i1 = i1
  i2 = i2
  ip1 = ip1
  ip2 = ip2
  pool = pool
  host = host
  other = other
  app = app
  chronyd = chronyd
  none = none
  NoName = none
  NoGroup = none
  NoProposal = NoProposal
  Instance = {i1, i2}
  Port <- Ports
  IP <- PoolIPs
  Form <- PoolForms
  SeedFiles <- PoolSeeds
  MaxEvents = 2
  MaxPosts = 2
  MaxDecide = 1
  MaxDismiss = 1
  MaxRestart = 1
  Handler = {h1, h2}
  Value <- PoolValues
  Fleet <- PoolFleets
  Chronyd <- PoolFleets
  Canonical <- PoolAsIs
  Lower <- PoolLower
  EndsWith <- PoolBelow
  Observable <- PoolEvents
INVARIANTS QueueIsComplete DecisionsStayInForce
CHECK_DEADLOCK FALSE
SYMMETRY Symmetry

SPECIFICATION Spec
CONSTANTS
  i1 = i1
  i2 = i2
  ip1 = ip1
  ip2 = ip2
  pool = pool
  host = host
  other = other
  app = app
  chronyd = chronyd
  none = none
  NoName = none
  NoGroup = none
  NoProposal = NoProposal
  Instance = {i1, i2}
  Port <- Ports
  IP <- Addresses
  Form <- PlainForms
  SeedFiles <- NoSeeds
  MaxEvents = 2
  MaxPosts = 2
  MaxDecide = 2
  MaxDismiss = 1
  MaxRestart = 0
  Handler = {h1, h2}
  Value <- PlainValues
  Fleet <- PlainFleets
  Chronyd <- Nothing
  Canonical <- AsWritten
  Lower <- PlainLower
  EndsWith <- Nothing
  Observable <- PlainEvents
INVARIANTS TypeOK IngestIsAtomic
CHECK_DEADLOCK FALSE
SYMMETRY Symmetry

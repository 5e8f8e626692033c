SPECIFICATION Spec
CONSTANTS
  p1 = p1
  p2 = p2
  c1 = c1
  c2 = c2
  c3 = c3
  k1 = k1
  k2 = k2
  httpd = httpd
  slice = slice
  image = image
  None = None
  Pid = {p1, p2}
  Cgroup = {c1, c2, c3}
  PathOf <- Paths
  ImageOf <- Images
  WorkloadOf <- Workloads
  Started <- OneInC1
  Path = {x}
  Addr = {a1, a2}
  Host = {h1, h2}
  Ttl = {1}
  IdentCap = 1
  LineageCap = 1
  DnsCap = 1
  WireCap = 1
  MaxOps = 4
INVARIANTS TypeOK NamedByWorkload NameIsCurrent ProgramIsOwn
PROPERTIES NameIsStable UnknownIsRetried
CHECK_DEADLOCK FALSE

SPECIFICATION FairSpec
CONSTANTS
  th1 = th1
  th2 = th2
  th3 = th3
  Thread = {th1, th2, th3}
  ProcOf <- TwoAndOne
  p1 = p1
  p2 = p2
  cg = cg
  Proc = {p1, p2}
  Cgroup = {cg}
  CgroupOf <- OneCgroup
  Sensor = p2
  None = None
  SeenCap = 1
  RingCap = 2
  LineageCap = 1
  MaxOps = 3
  Endpoint = {e1, e2}
  Path = {x, y}
  Socket <- Sockets
INVARIANTS TypeOK SeenIsReported ReportsBounded LineageIsRight
PROPERTIES RecordsAreConsumed
CHECK_DEADLOCK FALSE

SPECIFICATION Spec
CONSTANTS
  f1 = f1  f2 = f2  a = a  b = b
  None = None  Broken = Broken
  Fleet = {f1}
  Endpoint = {e1}
  Dir = {a}
  Sanitize <- OneFleet
  Stamp = {0}
  Ratifier = {r1}
  MaxRatify = 2
  MaxCrash = 1
INVARIANT CachedWasCommitted
CHECK_DEADLOCK FALSE

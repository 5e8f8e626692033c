SPECIFICATION Spec
CONSTANTS
  f1 = f1  f2 = f2  a = a  b = b
  None = None  Broken = Broken
  Fleet = {f1, f2}
  Endpoint = {e1}
  Dir = {a, b}
  Sanitize <- KeptApart
  Stamp = {0}
  Ratifier = {r1, r2}
  MaxRatify = 3
  MaxCrash = 1
INVARIANTS RatifiedStaysDecided CommittedUnlessSpoiled TrailAgrees
PROPERTY RefinesRegister
CHECK_DEADLOCK FALSE

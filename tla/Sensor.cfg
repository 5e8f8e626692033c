SPECIFICATION FairSpec
CONSTANTS
  Fd = {1, 2}
  None = None
  Hooks = 2
  Valid = {0, 2}
  FlushEvery = 2
  Interval = 1
  MaxEdits = 2
  MaxHangups = 2
  MaxEvents = 2
  MaxClock = 1
  MaxDials = 2
INVARIANTS TypeOK OutputIsTimely SnooperKeepsToItself
PROPERTIES ReloadTakesEffect
CHECK_DEADLOCK FALSE

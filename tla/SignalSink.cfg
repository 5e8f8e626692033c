SPECIFICATION Spec
CONSTANTS
  Ring = 2
  Torn = Torn
  MaxSignals = 5
  MaxRestarts = 2
  MaxFull = 2
INVARIANTS DashboardIsRecent FileHasNoHoles
CHECK_DEADLOCK FALSE

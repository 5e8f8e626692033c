SPECIFICATION FairSpec
CONSTANTS
  Host = {h1}
  Tuple = {a, b}
  SeenCap = 1
  RingCap = 1
  BufCap = 1
  MaxUses = 3
  MaxLives = 1
  MaxReviews = 1
  MaxRestarts = 1
  Followed = {a}
INVARIANTS TypeOK SilentIsKnown LossNeedsOverflow
PROPERTIES ReportsArrive
CHECK_DEADLOCK FALSE

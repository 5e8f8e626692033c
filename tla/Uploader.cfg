SPECIFICATION FairSpec
CONSTANTS
  Cap = 2
  MaxEvents = 5
  MaxLate = 1
INVARIANTS TypeOK LossPaidByEviction FinalDrainComplete
PROPERTIES AckClearsBatch BacklogDrains ShutdownTerminates RefinesOutbox
CHECK_DEADLOCK FALSE

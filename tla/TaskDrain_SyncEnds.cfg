SPECIFICATION DrainFairSpec
CONSTANTS
  Tip = 3
  BatchSize = 2
  Capacity = 1
  MaxErrors = 2
PROPERTY SyncEnds
CHECK_DEADLOCK FALSE

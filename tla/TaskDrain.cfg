SPECIFICATION DrainFairSpec
CONSTANTS
  Tip = 3
  BatchSize = 2
  Capacity = 1
  MaxErrors = 2
INVARIANTS DrainTypeOK EndsDrained ZeroMeansQuiet SleepsSoundly
PROPERTIES ImplementsFetcher SendersAreServed
CHECK_DEADLOCK FALSE

SPECIFICATION Spec
CONSTANTS
  MaxHeight = 6
  Notes <- MCNotes
  BatchSize = 2
  MaxWalSize = 2
  MaxRestarts = 2
  MaxFaults = 1
  Torn = Torn
CHECK_DEADLOCK FALSE
INVARIANT SyncedToIsComplete

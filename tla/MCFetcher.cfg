SPECIFICATION FairSpec
CONSTANTS
  MaxHeight = 6
  Notes <- MCNotes
  BatchSize = 2
  MaxWalSize = 2
  MaxRestarts = 2
  MaxFaults = 2
  Torn = Torn
INVARIANTS TypeOK FetchesDisjoint ExactlyOnce NothingElseLost DoubledOnlyByFaults NoHoleAfterSync
PROPERTIES ChainIsFetched ShutdownStops
CHECK_DEADLOCK FALSE

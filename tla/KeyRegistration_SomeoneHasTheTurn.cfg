SPECIFICATION RegSpec
CONSTANTS
  Clients = {alice, bob}
  None = None
  MaxCrashes = 1
  MaxGarbled = 0
INVARIANT SomeoneHasTheTurn
CHECK_DEADLOCK FALSE

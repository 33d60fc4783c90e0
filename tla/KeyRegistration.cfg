SPECIFICATION RegFairSpec
CONSTANTS
  Clients = {alice, bob}
  None = None
  MaxCrashes = 1
  MaxGarbled = 1
INVARIANTS RegTypeOK RepliesMatch EnclaveNotLeftWaiting SuccessIsTrue
PROPERTIES ServedUnlessHung FmdGoesOn
CHECK_DEADLOCK FALSE

SPECIFICATION ServiceFairSpec
CONSTANTS
  MaxHeight = 3
  Notes <- MCNotes
  BatchSize = 2
  MaxWalSize = 2
  MaxRestarts = 1
  MaxFaults = 1
  Torn = Torn
  Owners = {alice}
  NoBirthday = NoBirthday
  Flags = {}
  NoFlag = NoFlag
  Detected = {}
  Birthdays <- MCBirthdays
  MaxRegistrations = 1
PROPERTIES KeysCatchUp HostStops
CHECK_DEADLOCK FALSE

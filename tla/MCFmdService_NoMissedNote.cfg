SPECIFICATION ServiceSpec
CONSTANTS
  MaxHeight = 3
  Notes <- MCNotes
  BatchSize = 2
  MaxWalSize = 2
  MaxRestarts = 1
  MaxFaults = 1
  Torn = Torn
  Owners = {alice, bob}
  NoBirthday = NoBirthday
  Flags = {}
  NoFlag = NoFlag
  Detected = {}
  Birthdays <- MCBirthdays
  MaxRegistrations = 2
INVARIANT NoMissedNote
CHECK_DEADLOCK FALSE

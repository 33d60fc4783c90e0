SPECIFICATION ClientSpec
CONSTANTS
  Services = {s1, s2}
  Txs <- MCTxs
  Relevant <- MCRelevant
  Noise <- MCNoise
  Birthdays <- MCBirthdays
  NoBirthday = NoBirthday
  MaxHeight = 3
  MaxServices = 3
  MaxRegistrations = 2
  MaxFaults = 1
INVARIANTS ClientTypeOK SharesApart OkMeansRegistered AnswersAreOwn AnswersCombine
SYMMETRY ServiceSymmetry
CHECK_DEADLOCK FALSE

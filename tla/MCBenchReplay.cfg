CONSTANTS
  Configs = {1, 2, 3}
  Forks = {3}
  Params <- MCParams
  MaxKills = 1
  Backend <- MCBackend
  Headline = {1, 2}
SPECIFICATION ReportSpec
INVARIANT
  ReplayPutsGeneratorBack
CHECK_DEADLOCK FALSE

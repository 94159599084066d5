CONSTANTS
  Configs = {1, 2, 3}
  Forks = {3}
  Params <- MCParams
  MaxKills = 2
  Backend <- MCBackend
  Headline = {1, 2}
SPECIFICATION FairSpec
INVARIANTS
  CheckpointConsistent
  BalancedReport
  OneTrialPerSession
  ReplayExact
  MeasurementReported
PROPERTIES
  SessionEnds
  HeadlineWhole
CHECK_DEADLOCK FALSE

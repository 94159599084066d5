CONSTANTS
  NGpus = 3
  NPairs = 2
  NDims = 2
  MaxWarmups = 1
  MaxRepeats = 3
SPECIFICATION FairSpec
INVARIANTS
  ResultsFresh
  VerdictCoversBatches
PROPERTY
  RunEnds
CHECK_DEADLOCK FALSE

CONSTANTS
  World = 3
  MaxDims = 4
SPECIFICATION FairJobSpec
INVARIANTS
  SumsComplete
  SameStatus
PROPERTY
  JobEnds
CHECK_DEADLOCK FALSE

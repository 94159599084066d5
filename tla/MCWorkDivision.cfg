CONSTANTS
  NGpus = 3
  NPairs = 2
  NDims = 4
SPECIFICATION Spec
INVARIANTS
  EveryPairInPlace
  OwnedOnce
  ChecksPass
CHECK_DEADLOCK FALSE

CONSTANTS
  NGpus = 2
  NPairs = 7
  Chunk = 2
  Order <- MCOrder
SPECIFICATION FairSpec
INVARIANTS
  NoSlotRace
  CompleteAtExit
PROPERTIES
  RefinesSlotProtocol
  Termination
CHECK_DEADLOCK FALSE

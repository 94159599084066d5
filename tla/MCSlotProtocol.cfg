CONSTANTS
  Gpus <- MCGpus
  Root = 0
  NChunks = 4
SPECIFICATION Spec
INVARIANTS
  NoSlotRace
  ResultsCorrect
  CollectivesMatch
  IInv
CHECK_DEADLOCK FALSE

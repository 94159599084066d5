CONSTANTS
  Entities = {0, 1, 2}
  RowChoices <- MCRowChoices
  Ranges <- MCRanges
  Pairs <- MCPairs
  Orders <- MCOrders
  MaxSlots = 2
  Width = 4
  Block = 4
  Groups = {1, 2, 4}
SPECIFICATION Spec
INVARIANTS
  StatsExact
PROPERTIES
  OneWriter
  KernelEnds
CHECK_DEADLOCK FALSE

CONSTANTS
  Atoi <- MCAtoi
  Visible = 2
  Profiling = TRUE
  CommandLines <- MCLines
  PairCounts = {0, 3, 5}
  NBlocks = 2
  Segment = 1
  NPairs = 5
  Limits = {0, 1, 2}
  Batches <- MCBatches
  ArmSpecs <- MCArmSpecs
  ArmCount = 2
  Warmups = 1
  Repeats = 2
  NBlocksPaired = 3
  Chunks <- MCChunks
  Delays <- MCDelays
  MaxWrong = 2
SPECIFICATION MeasureSpec
INVARIANTS
  RecordTrue
  NothingDropped
  RunsAsNamed
  ReportTrue
CHECK_DEADLOCK FALSE

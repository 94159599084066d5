SPECIFICATION DataSpec
CONSTANTS
  MIN_OVERLAP = 2
  LSH_P = 24251
  N = 2
  Window = 0
  WARP = 2
  Hashes <- MCHashes
  Inputs <- MCInputs
  Collected <- MCCollected
  Test <- MCTest
  Bands <- MCBands
  Sizes = {1, 2, 3}
  Buckets <- MCBuckets
INVARIANT CanonicalOrder
CHECK_DEADLOCK FALSE

CONSTANTS
  Gpus = {0, 1}
  Dims = {1, 2, 3}
  Owner <- TheOwner
  Ratings <- TheRatings
  OtherRows = {0, 3}
  Base = 3
  Word = 32
  IntMax = 7
SPECIFICATION Spec
INVARIANTS
  Lossless
  NoCarry
CHECK_DEADLOCK FALSE

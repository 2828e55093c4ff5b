\* Three threads, up to five cells, any of which may make the operation throw.
SPECIFICATION Spec
CONSTANTS
  ValueMod = 16
  IntMax = 7
  N = 3
  MaxLength = 5
  NoException = NoException
  MayThrow = TRUE
  MayShare = TRUE
INVARIANTS
  ScanIsPrefixSum
  LatchSeparates
  CellsArePrivate
  ReturnsTogether
PROPERTY
  ScanReturns
\* The call hangs once a task cannot arrive at the latch.
CHECK_DEADLOCK FALSE

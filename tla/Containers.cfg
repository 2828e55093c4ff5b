SPECIFICATION ContainersSpec
CONSTANTS
  Values = {v1, v2}
  Arrays = {x, y}
  MaxLen = 3
  MaxCap = 8
  Places = 3
  Digits = 4
  BlockSize = 2
  MaxBlocks = 3
  N = 2
  MaxGroups = 3
  MaxLength = 2
  Keys = {1, 2, 3, 4}
  Mapped = {1, 2}
  Threads = {t1, t2}
  PerChunk = 2
  MaxSize = 3
  IntWidth = 2
SYMMETRY Symmetric
INVARIANTS
  ArraysOwnTheirElements
  ArraysHoldTheirSequence
  BlocksHoldTheirElements
  PartsMakeTheGroups
  FlatMapsTheKeys
  NeighboursKeepTheirBits
  BitsAreClaimedOnce
  CountsAreOfElements
CHECK_DEADLOCK FALSE

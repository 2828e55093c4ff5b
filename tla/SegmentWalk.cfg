\* Every segmenter of up to 15 indices of a type of four bits that is as wide as int.
SPECIFICATION Spec
CONSTANTS
  ValueMod = 16
  IntMax = 7
  Sizes = {0, 1, 2, 3, 4, 5, 6, 7, 8, 9, 10, 11, 12, 13, 14, 15}
  SegmentNums = {1, 2, 3, 4, 5, 7, 12, 15}
  Kinds = {"uniform", "offset", "affine", "blocked"}
  Factors = {1, 2, 3}
  Offsets = {0, 1, 5}
  Blocks = {1, 2, 3, 7}
  PaddedKinds = {"uniform", "blocked"}
  Paddings = {0, 1, 3}
  BlocksMayOverflow = FALSE
INVARIANTS
  SegmentOfFindsIt
  Balanced
  DivisionIsExact
  UndefinedOnlyAtTheMaximum
PROPERTIES
  WalksTheRange

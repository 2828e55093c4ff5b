\* Blocks of a type as wide as int, the last of which may end beyond its largest value.
SPECIFICATION Spec
CONSTANTS
  ValueMod = 16
  IntMax = 7
  Sizes = {7, 8, 14, 15}
  SegmentNums = {1, 2, 3}
  Kinds = {"blocked"}
  Factors = {1}
  Offsets = {0}
  Blocks = {2, 4, 8}
  PaddedKinds = {}
  Paddings = {0}
  BlocksMayOverflow = TRUE
INVARIANT
  BlocksEndAtTheSize

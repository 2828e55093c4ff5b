\* Segments of bytes, which are promoted to int, as is the inverse of a divisor.
SPECIFICATION Spec
CONSTANTS
  ValueMod = 256
  IntMax = 2147483647
  Sizes = {6, 7}
  SegmentNums = {1, 2, 3}
  Kinds = {"uniform"}
  Factors = {1}
  Offsets = {0}
  Blocks = {1}
  PaddedKinds = {}
  Paddings = {0}
  BlocksMayOverflow = FALSE
INVARIANT
  TestsDivisibility

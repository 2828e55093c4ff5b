\* A padded segmenter around one with an offset.
SPECIFICATION Spec
CONSTANTS
  ValueMod = 16
  IntMax = 7
  Sizes = {3, 4, 5}
  SegmentNums = {1, 2, 3}
  Kinds = {"offset"}
  Factors = {1}
  Offsets = {0, 3}
  Blocks = {1}
  PaddedKinds = {"offset"}
  Paddings = {0, 2}
  BlocksMayOverflow = FALSE
INVARIANT
  PaddedStartsAtTheFirst

---------------------------- MODULE SegmentWalk ----------------------------
(***************************************************************************)
(* A walk over all segments of an index segmenter and over all indices of  *)
(* each, the way the tests and the parallel algorithms use one.            *)
(***************************************************************************)
EXTENDS IndexSegmentation

CONSTANTS
  Sizes, SegmentNums,         \* bounds: sizes and numbers of segments
  Kinds,                      \* the kinds of segmenters
  Factors, Offsets, Blocks,   \* bounds: their further parameters
  PaddedKinds,                \* the kinds that are also padded
  Paddings,                   \* bound: numbers of indices of padding
  BlocksMayOverflow           \* whether the blocks may end beyond the largest index

ASSUME BoundsAssumption ==
  /\ Sizes \subseteq Values /\ SegmentNums \subseteq Values \ {0}
  /\ Kinds \subseteq {"uniform", "offset", "affine", "blocked"} /\ PaddedKinds \subseteq Kinds
  /\ Factors \subseteq Values \ {0} /\ Offsets \subseteq Values
  /\ Blocks \subseteq Values \ {0} /\ Paddings \subseteq Values
  /\ BlocksMayOverflow \in BOOLEAN

VARIABLES
  seg,     \* the segmenter
  phase,   \* what the walk does next
  s,       \* the segment it is in
  index    \* the index it has come to

vars == <<seg, phase, s, index>>

\* The first index of the range that is segmented, and one past its last index.
First(g) == g.offset
Last(g) == g.factor * g.size + g.offset + g.n0 + g.n1

Segmenters ==
  {g \in [kind : Kinds, size : Sizes, n : SegmentNums, factor : Factors, offset : Offsets,
          block : Blocks, padded : BOOLEAN, n0 : Paddings, n1 : Paddings] :
     /\ g.kind # "affine" => g.factor = 1
     /\ g.kind \notin {"offset", "affine"} => g.offset = 0
     /\ g.kind # "blocked" => g.block = 1
     /\ IF g.padded THEN g.kind \in PaddedKinds ELSE g.n0 = 0 /\ g.n1 = 0
     /\ Last(g) \in Values
     /\ BlocksMayOverflow \/ g.block * BlockNum(g) \in Values}

Init ==
  /\ seg \in Segmenters
  /\ phase = "construct"
  /\ s = 0
  /\ index = First(seg)

\* Setting up a divisor of zero is undefined.
Construct ==
  /\ phase = "construct"
  /\ phase' = IF 0 \in Divisors(seg) THEN "undefined" ELSE "segment"
  /\ UNCHANGED <<seg, s, index>>

EnterSegment ==
  /\ phase = "segment"
  /\ s < seg.n
  /\ index' = SegmentStart(seg, s)
  /\ phase' = "indices"
  /\ UNCHANGED <<seg, s>>

Visit ==
  /\ phase = "indices"
  /\ index # SegmentEnd(seg, s)
  /\ index' = Size(index + 1)
  /\ UNCHANGED <<seg, phase, s>>

LeaveSegment ==
  /\ phase = "indices"
  /\ index = SegmentEnd(seg, s)
  /\ s' = s + 1
  /\ phase' = "segment"
  /\ UNCHANGED <<seg, index>>

End ==
  /\ phase = "segment"
  /\ s = seg.n
  /\ phase' = "done"
  /\ UNCHANGED <<seg, s, index>>

Terminated == phase \in {"done", "undefined"} /\ UNCHANGED vars

Next == Construct \/ EnterSegment \/ Visit \/ LeaveSegment \/ End \/ Terminated

Spec == Init /\ [][Next]_vars

-----------------------------------------------------------------------------
(* Properties *)

\* What makes a partition of the segments: the ends of all blocks are values of the type,
\* and only segmenters that start at 0 are padded.
Partitionable == ~BlocksMayOverflow /\ PaddedKinds \subseteq {"uniform", "blocked"}

Abstract ==
  INSTANCE IotaWalk WITH
    first <- First(seg), last <- Last(seg), at <- index, ended <- (phase = "done")

\* The segments partition the range: they follow each other without a gap or an overlap,
\* the first starts where the range does and the last ends where the range does.
WalksTheRange == Abstract!Spec

\* segment_of of the index that is visited is the segment it is visited in.
SegmentOfFindsIt ==
  phase = "indices" /\ index # SegmentEnd(seg, s) => SegmentOf(seg, index) = s

\* No segment of a segmenter without blocks and padding is longer than another by more
\* than one step, and none is empty if there is an index for each.
Balanced ==
  LET length(t) == (SegmentEnd(seg, t) - SegmentStart(seg, t)) \div seg.factor
  IN  phase = "segment" /\ seg.kind # "blocked" /\ ~seg.padded =>
        \A t, u \in 0 .. seg.n - 1 :
          /\ length(t) - length(u) \in {-1, 0, 1}
          /\ seg.size >= seg.n => length(t) > 0

\* Multiplying by the inverse divides exactly, for every dividend of the type, whichever
\* way the product is computed.
DivisionIsExact ==
  phase = "segment" =>
    \A d \in Divisors(seg), a \in Values :
      /\ Quotient(a, d) = a \div d
      /\ Remainder(a, d) = a % d
      /\ QuotientAndRemainder(a, d) = <<a \div d, a % d>>
      /\ MulFracIntInParts(Invert(d), a) = MulFracInt(Invert(d), a)

\* The one segmenter that cannot be set up is a single segment of as many indices as the
\* type has values, less one.
UndefinedOnlyAtTheMaximum ==
  phase = "undefined" => seg.size = ValueMod - 1 /\ seg.n = 1

\* is_divisible answers whether the divisor divides, for every dividend of the type.
TestsDivisibility ==
  phase = "segment" =>
    \A d \in Divisors(seg), a \in Values : IsDivisible(a, d) <=> a % d = 0

\* The segments of blocks end where the range does, as the test of a partition requires.
BlocksEndAtTheSize == phase = "done" => index = seg.size

\* The padded range starts where the padded segmenter's does.
PaddedStartsAtTheFirst == phase = "indices" /\ s = 0 => SegmentStart(seg, 0) = First(seg)

=============================================================================

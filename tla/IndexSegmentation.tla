------------------------- MODULE IndexSegmentation -------------------------
(***************************************************************************)
(* The index segmenters: where each of n segments of a range of indices    *)
(* starts and ends, and which segment an index is in.  A segmenter is a    *)
(* record of what it has been constructed from.                            *)
(***************************************************************************)
EXTENDS Divisor

Size(x) == x % ValueMod

Least(a, b) == IF a <= b THEN a ELSE b

-----------------------------------------------------------------------------
(* Plausible mistakes, to stand in for the definition they misspell. *)

\* The indices that are left over all go to the last segment.
UniformStartUnbalanced(size, n, s) == IF s = n THEN size ELSE Size(s * (size \div n))

\* The first segments are taken to be as short as the others.
UniformOfShort(size, n, index) == Quotient(index, Least(size, size \div n + 1))

\* Only the segments after the first one are shifted, by the base and not by the padding.
PaddedStartUnshifted(start, s, n0) == IF s = 0 THEN 0 ELSE Size(start)

\* The divisor for the short segments is set up even where there are none.
UniformDivisorsUnchecked(size, n) == {size \div n, Size(size \div n + 1)}

-----------------------------------------------------------------------------
(* UniformIndexSegmenter *)

UniformStart(size, n, s) == Size(s * (size \div n) + Least(size % n, s))

\* The divisors the constructor sets up.  div_div_ is empty if div_ is zero; that div_ + 1
\* is a value of the type is asserted at most.
UniformDivisors(size, n) == ({size \div n} \ {0}) \cup {Size(size \div n + 1)}

UniformOf(size, n, index) ==
  LET div == size \div n
      mod == size % n
      ref == Size(mod * (div + 1))
  IN  IF index <= ref THEN Quotient(index, div + 1) ELSE Size(mod + Quotient(index - ref, div))

-----------------------------------------------------------------------------
(* The other segmenters.  kind is "uniform", "offset", "affine" or          *)
(* "blocked"; factor, offset and block are 1, 0 and 1 where a kind has none *)
(* of them.  A segmenter may be padded, which wraps it into another one.    *)

DivCeil(dividend, divisor) == dividend \div divisor + IF dividend % divisor # 0 THEN 1 ELSE 0

\* saturate_cast<Size> of what has been computed in a type that may be wider
Saturate(x) == Least(x, ValueMod - 1)

BlockNum(g) == DivCeil(g.size, g.block)

OffsetStart(g, s) == Size(UniformStart(g.size, g.n, s) + g.offset)

AffineStart(g, s) == Size(g.factor * UniformStart(g.size, g.n, s) + g.offset)

BlockedStart(g, s) ==
  Least(Saturate(Arith(ValueMod, g.block * UniformStart(BlockNum(g), g.n, s))), g.size)

BaseStart(g, s) ==
  CASE g.kind = "uniform" -> UniformStart(g.size, g.n, s)
    [] g.kind = "offset"  -> OffsetStart(g, s)
    [] g.kind = "affine"  -> AffineStart(g, s)
    [] g.kind = "blocked" -> BlockedStart(g, s)

BaseEnd(g, s) == BaseStart(g, s + 1)

BaseSize(g) == Size(g.size * g.factor)

OffsetOf(g, index) == UniformOf(g.size, g.n, index - g.offset)

AffineOf(g, index) == UniformOf(g.size, g.n, (index - g.offset) \div g.factor)

BlockedOf(g, index) == UniformOf(BlockNum(g), g.n, index \div g.block)

BaseOf(g, index) ==
  CASE g.kind = "uniform" -> UniformOf(g.size, g.n, index)
    [] g.kind = "offset"  -> OffsetOf(g, index)
    [] g.kind = "affine"  -> AffineOf(g, index)
    [] g.kind = "blocked" -> BlockedOf(g, index)

\* The divisors of the segmenter of indices or, if they are blocked, of blocks
Divisors(g) == UniformDivisors(IF g.kind = "blocked" THEN BlockNum(g) ELSE g.size, g.n)

-----------------------------------------------------------------------------
(* PaddedIndexSegmenter *)

PaddedStart(start, s, n0) == IF s = 0 THEN 0 ELSE Size(start + n0)

PaddedEnd(g, s) == Size(BaseEnd(g, s) + g.n0 + IF s + 1 = g.n THEN g.n1 ELSE 0)

PaddedOf(g, index) ==
  LET first == Size(BaseStart(g, 0) + g.n0)
      last == Size(BaseEnd(g, g.n - 1) + g.n0)
  IN  IF index < first THEN 0
      ELSE IF index >= last THEN g.n - 1
      ELSE BaseOf(g, index - g.n0)

-----------------------------------------------------------------------------
SegmentStart(g, s) == IF g.padded THEN PaddedStart(BaseStart(g, s), s, g.n0) ELSE BaseStart(g, s)

SegmentEnd(g, s) == IF g.padded THEN PaddedEnd(g, s) ELSE BaseEnd(g, s)

SegmentOf(g, index) == IF g.padded THEN PaddedOf(g, index) ELSE BaseOf(g, index)

TotalSize(g) == IF g.padded THEN Size(BaseSize(g) + g.n0 + g.n1) ELSE BaseSize(g)

=============================================================================

------------------------- MODULE SegmentWalkProofs -------------------------
(***************************************************************************)
(* For types of every width and for segmenters of every kind and size, a   *)
(* walk over the segments is a walk over the range, and segment_of agrees  *)
(* with it.                                                                *)
(***************************************************************************)
EXTENDS SegmentWalk, IndexSegmentationProofs

-----------------------------------------------------------------------------
(* The segmenters *)

LEMMA SegmenterTypes ==
  ASSUME NEW g \in Segmenters
  PROVE  /\ g.kind \in {"uniform", "offset", "affine", "blocked"}
         /\ g.size \in Values
         /\ g.n \in Values \ {0} /\ g.n \in Nat \ {0}
         /\ g.factor \in Values \ {0}
         /\ g.offset \in Values
         /\ g.block \in Values \ {0}
         /\ g.padded \in BOOLEAN
         /\ g.n0 \in Values /\ g.n1 \in Values
         /\ g.kind # "affine" => g.factor = 1
         /\ g.kind \in {"uniform", "blocked"} => g.offset = 0
         /\ g.padded => g.kind \in PaddedKinds
         /\ ~g.padded => g.n0 = 0 /\ g.n1 = 0
         /\ Last(g) \in Values
         /\ Partitionable => g.block * BlockNum(g) \in Values
<1>1. Values \subseteq Nat
  BY ValueModAssumption, SMT DEF Values
<1> QED
  BY <1>1, BoundsAssumption, Zenon DEF Segmenters, Partitionable

\* How many blocks there are: as many as it takes to hold all indices.
LEMMA BlocksHoldTheIndices ==
  ASSUME NEW size \in Values, NEW block \in Values \ {0}
  PROVE  /\ DivCeil(size, block) \in 0 .. size
         /\ size <= block * DivCeil(size, block)
<1> DEFINE q == size \div block
           r == size % block
<1>1. size \in Nat /\ block \in Nat \ {0}
  BY ValueModAssumption, SMT DEF Values
<1>2. q \in Nat /\ r \in 0 .. block - 1 /\ size = block * q + r
  BY <1>1, Division
<1>3. DivCeil(size, block) = q + IF r # 0 THEN 1 ELSE 0
  BY DEF DivCeil
<1> HIDE DEF q, r
<1>4. block * (q + 1) = block * q + block /\ block * q \in Nat
  BY <1>1, <1>2, SMT
<1>5. 1 * q <= block * q
  BY <1>1, <1>2, ProductMonotone, SMT
<1>6. CASE r = 0
  BY <1>1, <1>2, <1>3, <1>4, <1>5, <1>6, SMT
<1>7. CASE r # 0
  BY <1>1, <1>2, <1>3, <1>4, <1>5, <1>7, SMT
<1> QED
  BY <1>6, <1>7

-----------------------------------------------------------------------------
(* The boundaries of the segments *)

\* The start of a segment of a segmenter without blocks, free of reductions.
LEMMA PlainStartIs ==
  ASSUME NEW g \in Segmenters, g.kind # "blocked", NEW t \in 0 .. g.n
  PROVE  /\ UniformStart(g.size, g.n, t) \in 0 .. g.size
         /\ BaseStart(g, t) = g.factor * UniformStart(g.size, g.n, t) + g.offset
<1> DEFINE size == g.size
           n == g.n
           f == g.factor
           o == g.offset
           U == UniformStart(size, n, t)
<1>1. ValueMod \in Nat \ {0} /\ ValueMod >= 2
  BY ValueModAssumption
<1>2. /\ size \in Values /\ n \in Nat \ {0} /\ f \in Values \ {0} /\ o \in Values
      /\ t \in 0 .. n
  BY SegmenterTypes
<1>3. f * size + o \in Values
  <2>1. /\ Last(g) \in Values /\ Last(g) = f * size + o + g.n0 + g.n1
        /\ g.n0 \in Values /\ g.n1 \in Values
    BY SegmenterTypes DEF Last
  <2>2. f * size \in Nat
    BY <1>2, ProductIsNatural, SMT DEF Values
  <2> QED
    BY <1>1, <1>2, <2>1, <2>2, SMT DEF Values
<1>4. /\ g.kind \in {"uniform", "offset", "affine"}
      /\ g.kind # "affine" => f = 1
      /\ g.kind = "uniform" => o = 0
  BY SegmenterTypes
<1>5. U \in 0 .. size
  BY <1>2, UniformStartIs
<1>6. BaseStart(g, t) = CASE g.kind = "uniform" -> U
                          [] g.kind = "offset"  -> Size(U + o)
                          [] g.kind = "affine"  -> Size(f * U + o)
                          [] g.kind = "blocked" -> BlockedStart(g, t)
  BY DEF BaseStart, OffsetStart, AffineStart
<1> HIDE DEF size, n, f, o, U
<1>7. f * U <= f * size /\ f * U \in Nat /\ f * size \in Nat
  BY <1>1, <1>2, <1>5, ProductMonotone, ProductIsNatural, SMT DEF Values
<1>8. f * U + o \in 0 .. ValueMod - 1
  BY <1>1, <1>2, <1>3, <1>7, SMT DEF Values
<1>9. Size(f * U + o) = f * U + o
  BY <1>1, <1>8, NotReduced DEF Size
<1>10. f = 1 => f * U = U
  BY <1>5, SMT
<1>11. o = 0 => U + o = U
  BY <1>5, SMT
<1>12. BaseStart(g, t) = f * U + o
  <2>1. CASE g.kind = "uniform"
    BY <1>4, <1>5, <1>6, <1>10, <1>11, <2>1
  <2>2. CASE g.kind = "offset"
    BY <1>4, <1>5, <1>6, <1>9, <1>10, <2>2
  <2>3. CASE g.kind = "affine"
    BY <1>5, <1>6, <1>9, <2>3
  <2> QED
    BY <1>4, <2>1, <2>2, <2>3
<1> QED
  BY <1>5, <1>12 DEF size, n, f, o, U

\* The start of a segment before padding, free of reductions.
LEMMA BaseStartIs ==
  ASSUME Partitionable, NEW g \in Segmenters, NEW t \in 0 .. g.n
  PROVE  /\ g.kind # "blocked" =>
              /\ UniformStart(g.size, g.n, t) \in 0 .. g.size
              /\ BaseStart(g, t) = g.factor * UniformStart(g.size, g.n, t) + g.offset
         /\ g.kind = "blocked" =>
              /\ UniformStart(BlockNum(g), g.n, t) \in 0 .. BlockNum(g)
              /\ BaseStart(g, t) = Least(g.block * UniformStart(BlockNum(g), g.n, t), g.size)
<1> DEFINE size == g.size
           n == g.n
           b == g.block
           m == BlockNum(g)
           B == UniformStart(m, n, t)
<1>1. ValueMod \in Nat \ {0} /\ ValueMod >= 2
  BY ValueModAssumption
<1>2. /\ size \in Values /\ n \in Nat \ {0} /\ b \in Values \ {0} /\ t \in 0 .. n
  BY SegmenterTypes
<1>3. b * m \in Values
  BY SegmenterTypes
<1>4. g.kind = "blocked" => B \in 0 .. m /\ BaseStart(g, t) = Least(b * B, size)
  <2>1. m \in 0 .. size
    BY <1>2, BlocksHoldTheIndices DEF BlockNum
  <2>2. m \in Values
    BY <1>1, <1>2, <2>1, SMT DEF Values
  <2>3. B \in 0 .. m
    BY <1>2, <2>2, UniformStartIs
  <2>4. g.kind = "blocked" => BaseStart(g, t) = Least(Saturate(Arith(ValueMod, b * B)), size)
    BY DEF BaseStart, BlockedStart
  <2> HIDE DEF size, n, b, m, B
  <2>5. b * B <= b * m /\ b * B \in Nat
    BY <1>1, <1>2, <2>1, <2>3, ProductMonotone, ProductIsNatural, SMT DEF Values
  <2>6. b * B \in 0 .. ValueMod - 1
    BY <1>1, <1>3, <2>5, SMT DEF Values
  <2>7. Arith(ValueMod, b * B) = b * B
    BY <1>1, <2>6, NotReduced, Zenon DEF Arith
  <2>8. Saturate(b * B) = b * B
    BY <1>1, <2>6, SMT DEF Saturate, Least
  <2> QED
    BY <2>3, <2>4, <2>7, <2>8
<1> QED
  BY <1>4, PlainStartIs

\* Before padding, the segments partition the range of the segmenter.
LEMMA BaseSegmentsPartition ==
  ASSUME Partitionable, NEW g \in Segmenters
  PROVE  /\ BaseStart(g, 0) = g.offset
         /\ BaseStart(g, g.n) = g.factor * g.size + g.offset
         /\ \A t \in 0 .. g.n : BaseStart(g, t) \in Nat
         /\ \A t, u \in 0 .. g.n : t <= u => BaseStart(g, t) <= BaseStart(g, u)
<1> DEFINE size == g.size
           n == g.n
           f == g.factor
           o == g.offset
           b == g.block
           m == BlockNum(g)
           U(t) == UniformStart(size, n, t)
           B(t) == UniformStart(m, n, t)
<1>1. ValueMod \in Nat \ {0} /\ ValueMod >= 2
  BY ValueModAssumption
<1>2. /\ size \in Values /\ n \in Nat \ {0} /\ f \in Values \ {0} /\ o \in Values
      /\ b \in Values \ {0}
      /\ g.kind \in {"uniform", "offset", "affine", "blocked"}
      /\ g.kind = "blocked" => f = 1 /\ o = 0
  BY SegmenterTypes
<1>3. /\ size \in Nat /\ f \in Nat /\ o \in Nat /\ b \in Nat
  BY <1>1, <1>2, SMT DEF Values
<1>4. m \in 0 .. size /\ size <= b * m
  BY <1>2, BlocksHoldTheIndices DEF BlockNum
<1>5. m \in Values
  BY <1>1, <1>2, <1>4, SMT DEF Values
<1>6. 0 \in 0 .. n /\ n \in 0 .. n
  BY <1>2, SMT
<1>7. U(0) = 0 /\ U(n) = size /\ B(0) = 0 /\ B(n) = m
  BY <1>2, <1>5, UniformSegmentsPartition
<1>8. CASE g.kind # "blocked"
  <2>1. \A t \in 0 .. n : U(t) \in 0 .. size /\ BaseStart(g, t) = f * U(t) + o
    BY <1>8, BaseStartIs
  <2>2. \A t, u \in 0 .. n : t <= u => U(t) <= U(u)
    BY <1>2, UniformStartMonotone
  <2> HIDE DEF size, n, f, o, b, m, U, B
  <2>3. BaseStart(g, 0) = o
    BY <1>3, <1>6, <1>7, <2>1, SMT
  <2>4. BaseStart(g, n) = f * size + o
    BY <1>6, <1>7, <2>1
  <2>5. \A t \in 0 .. n : f * U(t) \in Nat
    <3>1. ASSUME NEW t \in 0 .. n PROVE f * U(t) \in Nat
      <4>1. U(t) \in Nat
        BY <1>3, <2>1, SMT
      <4> QED
        BY <1>3, <4>1, ProductIsNatural
    <3> QED
      BY <3>1
  <2>6. \A t \in 0 .. n : BaseStart(g, t) \in Nat
    BY <1>3, <2>1, <2>5, SMT
  <2>7. ASSUME NEW t \in 0 .. n, NEW u \in 0 .. n, t <= u
        PROVE  BaseStart(g, t) <= BaseStart(g, u)
    <3>1. U(t) \in Nat /\ U(u) \in Nat /\ U(t) <= U(u)
      BY <1>3, <2>1, <2>2, <2>7, SMT
    <3>2. f * U(t) <= f * U(u)
      BY <1>3, <3>1, ProductMonotone
    <3> QED
      BY <1>3, <2>1, <2>5, <3>2, SMT
  <2> QED
    BY <2>3, <2>4, <2>6, <2>7 DEF size, n, f, o
<1>9. CASE g.kind = "blocked"
  <2>1. \A t \in 0 .. n : B(t) \in 0 .. m /\ BaseStart(g, t) = Least(b * B(t), size)
    BY <1>9, BaseStartIs
  <2>2. \A t, u \in 0 .. n : t <= u => B(t) <= B(u)
    BY <1>2, <1>5, UniformStartMonotone
  <2>3. f = 1 /\ o = 0
    BY <1>2, <1>9
  <2> HIDE DEF size, n, f, o, b, m, U, B
  <2>4. \A t \in 0 .. n : B(t) \in Nat /\ b * B(t) \in Nat
    <3>1. ASSUME NEW t \in 0 .. n PROVE B(t) \in Nat /\ b * B(t) \in Nat
      <4>1. B(t) \in Nat
        BY <1>3, <1>4, <2>1, SMT
      <4> QED
        BY <1>3, <4>1, ProductIsNatural
    <3> QED
      BY <3>1
  <2>5. BaseStart(g, 0) = o
    <3>1. b * B(0) = 0
      BY <1>3, <1>7, SMT
    <3>2. Least(0, size) = 0
      BY <1>3, SMT DEF Least
    <3> QED
      BY <1>6, <2>1, <2>3, <3>1, <3>2
  <2>6. BaseStart(g, n) = f * size + o
    <3>1. Least(b * m, size) = size
      <4>1. b * m \in Nat
        BY <1>3, <1>6, <1>7, <2>4
      <4> QED
        BY <1>3, <1>4, <4>1, SMT DEF Least
    <3>2. f * size + o = size
      BY <1>3, <2>3, SMT
    <3> QED
      BY <1>6, <1>7, <2>1, <3>1, <3>2
  <2>7. \A t \in 0 .. n : BaseStart(g, t) \in Nat
    BY <1>3, <2>1, <2>4, SMT DEF Least
  <2>8. ASSUME NEW t \in 0 .. n, NEW u \in 0 .. n, t <= u
        PROVE  BaseStart(g, t) <= BaseStart(g, u)
    <3>1. B(t) <= B(u)
      BY <2>2, <2>8
    <3>2. b * B(t) <= b * B(u)
      BY <1>3, <2>4, <3>1, ProductMonotone
    <3> QED
      BY <1>3, <2>1, <2>4, <3>2, SMT DEF Least
  <2> QED
    BY <2>5, <2>6, <2>7, <2>8 DEF size, n, f, o
<1> QED
  BY <1>8, <1>9

\* The segments partition the range: the first starts where it does, the last ends where
\* it does, and each ends where the next one starts.
THEOREM SegmentsPartition ==
  ASSUME Partitionable, NEW g \in Segmenters
  PROVE  /\ SegmentStart(g, 0) = First(g)
         /\ SegmentEnd(g, g.n - 1) = Last(g)
         /\ \A t \in 0 .. g.n - 1 : /\ SegmentStart(g, t) \in First(g) .. Last(g)
                                    /\ SegmentEnd(g, t) \in SegmentStart(g, t) .. Last(g)
         /\ \A t \in 0 .. g.n - 2 : SegmentEnd(g, t) = SegmentStart(g, t + 1)
<1> DEFINE n == g.n
           o == g.offset
           top == g.factor * g.size + g.offset
           S(t) == BaseStart(g, t)
<1>1. ValueMod \in Nat \ {0} /\ ValueMod >= 2
  BY ValueModAssumption
<1>2. /\ n \in Nat \ {0} /\ o \in Values /\ g.n0 \in Values /\ g.n1 \in Values
      /\ g.padded \in BOOLEAN
      /\ g.padded => o = 0
      /\ ~g.padded => g.n0 = 0 /\ g.n1 = 0
      /\ Last(g) \in Values
  BY SegmenterTypes DEF Partitionable
<1>3. /\ S(0) = o /\ S(n) = top
      /\ \A t \in 0 .. n : S(t) \in Nat
      /\ \A t, u \in 0 .. n : t <= u => S(t) <= S(u)
  BY BaseSegmentsPartition
<1>4. First(g) = o /\ Last(g) = top + g.n0 + g.n1
  BY DEF First, Last
<1>5. top \in Nat /\ o \in Nat /\ g.n0 \in Nat /\ g.n1 \in Nat
  BY <1>1, <1>2, <1>3, SMT DEF Values
<1>6. \A t \in 0 .. n : S(t) \in o .. top
  <2>1. ASSUME NEW t \in 0 .. n PROVE S(t) \in o .. top
    <3>1. 0 \in 0 .. n /\ n \in 0 .. n /\ 0 <= t /\ t <= n
      BY <1>2, SMT
    <3>2. S(0) <= S(t) /\ S(t) <= S(n) /\ S(t) \in Nat
      BY <1>3, <3>1
    <3> QED
      BY <1>3, <1>5, <3>2, SMT
  <2> QED
    BY <2>1
<1>7. CASE ~g.padded
  <2>1. \A t : SegmentStart(g, t) = S(t) /\ SegmentEnd(g, t) = S(t + 1)
    BY <1>7 DEF SegmentStart, SegmentEnd, BaseEnd
  <2>2. Last(g) = top
    BY <1>2, <1>4, <1>5, <1>7, SMT
  <2> HIDE DEF n, o, top, S
  <2>3. \A t \in 0 .. n - 1 : S(t) \in o .. top /\ S(t + 1) \in S(t) .. top
    <3>1. ASSUME NEW t \in 0 .. n - 1 PROVE S(t) \in o .. top /\ S(t + 1) \in S(t) .. top
      <4>1. t \in 0 .. n /\ t + 1 \in 0 .. n /\ t <= t + 1
        BY <1>2, SMT
      <4>2. S(t) <= S(t + 1)
        BY <1>3, <4>1
      <4> QED
        BY <1>5, <1>6, <4>1, <4>2, SMT
    <3> QED
      BY <3>1
  <2>4. (n - 1) + 1 = n
    BY <1>2, SMT
  <2> QED
    BY <1>3, <1>4, <2>1, <2>2, <2>3, <2>4 DEF n
<1>8. CASE g.padded
  <2> DEFINE n0 == g.n0
             n1 == g.n1
  <2>1. /\ \A t : SegmentStart(g, t) = IF t = 0 THEN 0 ELSE Size(S(t) + n0)
        /\ \A t : SegmentEnd(g, t) = Size(S(t + 1) + n0 + IF t + 1 = n THEN n1 ELSE 0)
    BY <1>8 DEF SegmentStart, SegmentEnd, PaddedStart, PaddedEnd, BaseEnd
  <2>2. o = 0
    BY <1>2, <1>8
  <2>3. top + n0 + n1 \in Values /\ Last(g) = top + n0 + n1 /\ First(g) = 0
    BY <1>2, <1>4, <2>2
  <2>4. n0 \in Nat /\ n1 \in Nat
    BY <1>5
  <2> HIDE DEF n, o, top, S, n0, n1
  <2>5. \A t \in 0 .. n : /\ Size(S(t) + n0) = S(t) + n0
                          /\ Size(S(t) + n0 + n1) = S(t) + n0 + n1
                          /\ Size(S(t) + n0 + 0) = S(t) + n0
    <3>1. ASSUME NEW t \in 0 .. n
          PROVE  /\ Size(S(t) + n0) = S(t) + n0
                 /\ Size(S(t) + n0 + n1) = S(t) + n0 + n1
                 /\ Size(S(t) + n0 + 0) = S(t) + n0
      <4>1. S(t) \in 0 .. top
        BY <1>6, <2>2
      <4>2. /\ S(t) + n0 \in 0 .. ValueMod - 1
            /\ S(t) + n0 + n1 \in 0 .. ValueMod - 1
            /\ S(t) + n0 + 0 = S(t) + n0
        BY <1>1, <1>5, <2>3, <2>4, <4>1, SMT DEF Values
      <4> QED
        BY <1>1, <4>2, NotReduced DEF Size
    <3> QED
      BY <3>1
  <2>6. SegmentStart(g, 0) = First(g)
    BY <2>1, <2>3
  <2>7. SegmentEnd(g, n - 1) = Last(g)
    <3>1. (n - 1) + 1 = n /\ n \in 0 .. n
      BY <1>2, SMT
    <3> QED
      BY <1>3, <2>1, <2>3, <2>5, <3>1
  <2>8. ASSUME NEW t \in 0 .. n - 1
        PROVE  /\ SegmentStart(g, t) \in First(g) .. Last(g)
               /\ SegmentEnd(g, t) \in SegmentStart(g, t) .. Last(g)
    <3>1. t \in 0 .. n /\ t + 1 \in 0 .. n /\ t <= t + 1
      BY <1>2, SMT
    <3>2. S(t) <= S(t + 1) /\ S(t) \in 0 .. top /\ S(t + 1) \in 0 .. top
      BY <1>3, <1>6, <2>2, <3>1
    <3>3. SegmentStart(g, t) \in {0, S(t) + n0}
      BY <2>1, <2>5, <3>1
    <3>4. SegmentEnd(g, t) \in {S(t + 1) + n0, S(t + 1) + n0 + n1}
      BY <2>1, <2>5, <3>1
    <3> QED
      BY <1>5, <2>3, <2>4, <3>2, <3>3, <3>4, SMT
  <2>9. ASSUME NEW t \in 0 .. n - 2
        PROVE  SegmentEnd(g, t) = SegmentStart(g, t + 1)
    <3>1. t + 1 \in 0 .. n /\ t + 1 # n /\ t + 1 # 0
      BY <1>2, SMT
    <3> QED
      BY <2>1, <2>5, <3>1
  <2> QED
    BY <2>6, <2>7, <2>8, <2>9 DEF n
<1> QED
  BY <1>7, <1>8

-----------------------------------------------------------------------------
(* segment_of *)

\* A segmenter that has been set up is not the one with a divisor of zero.
LEMMA SetUpIs ==
  ASSUME NEW g \in Segmenters, 0 \notin Divisors(g)
  PROVE  /\ g.kind # "blocked" => ~(g.size = ValueMod - 1 /\ g.n = 1)
         /\ g.kind = "blocked" => ~(BlockNum(g) = ValueMod - 1 /\ g.n = 1)
<1> DEFINE size == IF g.kind = "blocked" THEN BlockNum(g) ELSE g.size
<1>1. ASSUME size = ValueMod - 1, g.n = 1 PROVE FALSE
  <2>1. ValueMod \in Nat \ {0} /\ ValueMod >= 2
    BY ValueModAssumption
  <2>2. size \div g.n + 1 = ValueMod
    BY <1>1, <2>1, SMT
  <2>3. Size(size \div g.n + 1) = 0
    BY <2>1, <2>2, SMT DEF Size
  <2> QED
    BY <2>3 DEF Divisors, UniformDivisors
<1> QED
  BY <1>1

\* Before padding, segment_of of an index between the boundaries of a segment is that
\* segment.
LEMMA BaseOfFinds ==
  ASSUME Partitionable, NEW g \in Segmenters, 0 \notin Divisors(g), NEW t \in 0 .. g.n - 1,
         NEW i \in Nat, BaseStart(g, t) <= i, i < BaseStart(g, t + 1)
  PROVE  BaseOf(g, i) = t
<1> DEFINE size == g.size
           n == g.n
           f == g.factor
           o == g.offset
           b == g.block
           m == BlockNum(g)
<1>1. ValueMod \in Nat \ {0} /\ ValueMod >= 2
  BY ValueModAssumption
<1>2. /\ size \in Values /\ n \in Nat \ {0} /\ f \in Values \ {0} /\ o \in Values
      /\ b \in Values \ {0}
      /\ g.kind \in {"uniform", "offset", "affine", "blocked"}
      /\ g.kind # "affine" => f = 1
      /\ g.kind \in {"uniform", "blocked"} => o = 0
  BY SegmenterTypes
<1>3. size \in Nat /\ f \in Nat \ {0} /\ o \in Nat /\ b \in Nat \ {0}
  BY <1>1, <1>2, SMT DEF Values
<1>4. t \in 0 .. n /\ t + 1 \in 0 .. n
  BY <1>2, SMT
<1>5. CASE g.kind # "blocked"
  <2> DEFINE j == (i - o) \div f
             U(r) == UniformStart(size, n, r)
  <2>1. \A r \in 0 .. n : U(r) \in 0 .. size /\ BaseStart(g, r) = f * U(r) + o
    BY <1>5, BaseStartIs
  <2>2. ~(size = ValueMod - 1 /\ n = 1)
    BY <1>5, SetUpIs
  <2>3. BaseOf(g, i) = UniformOf(size, n, j)
    <3>1. j = IF g.kind = "affine" THEN (i - o) \div f ELSE i - o
      <4>1. CASE f = 1
        BY <1>3, <4>1, SMT
      <4>2. CASE f # 1
        BY <1>2, <4>2
      <4> QED
        BY <4>1, <4>2
    <3>2. o = 0 => i - o = i
      BY <1>3, SMT
    <3> HIDE DEF j
    <3>3. CASE g.kind = "uniform"
      BY <1>2, <3>1, <3>2, <3>3 DEF BaseOf
    <3>4. CASE g.kind = "offset"
      BY <3>1, <3>4 DEF BaseOf, OffsetOf
    <3>5. CASE g.kind = "affine"
      BY <3>1, <3>5 DEF BaseOf, AffineOf, j
    <3> QED
      BY <1>2, <1>5, <3>3, <3>4, <3>5
  <2>4. f * U(t) + o <= i /\ i < f * U(t + 1) + o
    BY <1>4, <2>1
  <2> HIDE DEF size, n, f, o, U
  <2>5. U(t) \in Nat /\ U(t + 1) \in Nat /\ U(t + 1) <= size
    BY <1>3, <1>4, <2>1, SMT
  <2>6. f * U(t) \in Nat /\ f * U(t + 1) \in Nat
    BY <1>3, <2>5, ProductIsNatural
  <2>7. i - o \in Nat
    BY <1>3, <2>4, <2>6, SMT
  <2>8. j \in Nat /\ (i - o) % f \in 0 .. f - 1 /\ i - o = f * j + ((i - o) % f)
    BY <1>3, <2>7, Division
  <2> HIDE DEF j
  <2>9. U(t) <= j
    <3>1. (j + 1) * f = f * j + f /\ f * j \in Nat /\ j + 1 \in Nat /\ U(t) * f = f * U(t)
      BY <1>3, <2>5, <2>8, SMT
    <3>2. U(t) * f < (j + 1) * f
      BY <1>3, <2>4, <2>6, <2>8, <3>1, SMT
    <3>3. U(t) < j + 1
      BY <1>3, <2>5, <3>1, <3>2, ProductStrictlyMonotone
    <3> QED
      BY <2>5, <2>8, <3>3, SMT
  <2>10. j < U(t + 1)
    <3>1. j * f = f * j /\ f * j \in Nat /\ U(t + 1) * f = f * U(t + 1)
      BY <1>3, <2>5, <2>8, SMT
    <3>2. j * f < U(t + 1) * f
      BY <1>3, <2>4, <2>6, <2>8, <3>1, SMT
    <3> QED
      BY <1>3, <2>5, <2>8, <3>2, ProductStrictlyMonotone
  <2>11. j \in 0 .. size - 1
    BY <1>3, <2>5, <2>8, <2>10, SMT
  <2> DEFINE r == UniformOf(size, n, j)
  <2>12. r \in 0 .. n - 1 /\ UniformStart(size, n, r) <= j /\ j < UniformStart(size, n, r + 1)
    BY <1>2, <2>2, <2>11, UniformOfFinds DEF size, n
  <2>13. t \in 0 .. n - 1
    BY DEF n
  <2> HIDE DEF r
  <2>14. r = t
    BY <1>2, <2>8, <2>9, <2>10, <2>12, <2>13, UniformSegmentIsUnique DEF U
  <2> QED
    BY <2>3, <2>14 DEF r
<1>6. CASE g.kind = "blocked"
  <2> DEFINE j == i \div b
             B(r) == UniformStart(m, n, r)
  <2>1. \A r \in 0 .. n : B(r) \in 0 .. m /\ BaseStart(g, r) = Least(b * B(r), size)
    BY <1>6, BaseStartIs
  <2>2. ~(m = ValueMod - 1 /\ n = 1)
    BY <1>6, SetUpIs
  <2>3. BaseOf(g, i) = UniformOf(m, n, j)
    BY <1>6 DEF BaseOf, BlockedOf
  <2>4. Least(b * B(t), size) <= i /\ i < Least(b * B(t + 1), size)
    BY <1>4, <2>1
  <2>5. m \in 0 .. size
    BY <1>2, BlocksHoldTheIndices DEF BlockNum
  <2>6. m \in Values
    BY <1>1, <1>2, <2>5, SMT DEF Values
  <2> HIDE DEF size, n, b, m, B
  <2>7. B(t) \in Nat /\ B(t + 1) \in Nat /\ B(t + 1) <= m /\ m \in Nat
    BY <1>3, <1>4, <2>1, <2>5, SMT
  <2>8. b * B(t) \in Nat /\ b * B(t + 1) \in Nat
    BY <1>3, <2>7, ProductIsNatural
  <2>9. b * B(t) <= i /\ i < b * B(t + 1)
    BY <1>3, <2>4, <2>8, SMT DEF Least
  <2>10. j \in Nat /\ i % b \in 0 .. b - 1 /\ i = b * j + (i % b)
    BY <1>3, Division
  <2> HIDE DEF j
  <2>11. B(t) <= j
    <3>1. (j + 1) * b = b * j + b /\ b * j \in Nat /\ j + 1 \in Nat /\ B(t) * b = b * B(t)
      BY <1>3, <2>7, <2>10, SMT
    <3>2. B(t) * b < (j + 1) * b
      BY <1>3, <2>8, <2>9, <2>10, <3>1, SMT
    <3>3. B(t) < j + 1
      BY <1>3, <2>7, <3>1, <3>2, ProductStrictlyMonotone
    <3> QED
      BY <2>7, <2>10, <3>3, SMT
  <2>12. j < B(t + 1)
    <3>1. j * b = b * j /\ b * j \in Nat /\ B(t + 1) * b = b * B(t + 1)
      BY <1>3, <2>7, <2>10, SMT
    <3>2. j * b < B(t + 1) * b
      BY <1>3, <2>8, <2>9, <2>10, <3>1, SMT
    <3> QED
      BY <1>3, <2>7, <2>10, <3>2, ProductStrictlyMonotone
  <2>13. j \in 0 .. m - 1
    BY <2>7, <2>10, <2>12, SMT
  <2> DEFINE r == UniformOf(m, n, j)
  <2>14. r \in 0 .. n - 1 /\ UniformStart(m, n, r) <= j /\ j < UniformStart(m, n, r + 1)
    BY <1>2, <2>2, <2>6, <2>13, UniformOfFinds
  <2>15. t \in 0 .. n - 1
    BY DEF n
  <2> HIDE DEF r
  <2>16. r = t
    BY <1>2, <2>6, <2>10, <2>11, <2>12, <2>14, <2>15, UniformSegmentIsUnique DEF B
  <2> QED
    BY <2>3, <2>16 DEF r
<1> QED
  BY <1>5, <1>6

\* segment_of returns the segment that an index is in, whichever segmenter it is asked of.
THEOREM SegmentOfIsInverse ==
  ASSUME Partitionable, NEW g \in Segmenters, 0 \notin Divisors(g), NEW t \in 0 .. g.n - 1,
         NEW i \in Nat, SegmentStart(g, t) <= i, i < SegmentEnd(g, t)
  PROVE  SegmentOf(g, i) = t
<1>1. CASE ~g.padded
  BY <1>1, BaseOfFinds DEF SegmentOf, SegmentStart, SegmentEnd, BaseEnd
<1>2. CASE g.padded
  <2> DEFINE n == g.n
             n0 == g.n0
             n1 == g.n1
             top == g.factor * g.size + g.offset
             S(u) == BaseStart(g, u)
             first == Size(S(0) + n0)
             last == Size(S(n) + n0)
  <2>1. ValueMod \in Nat \ {0} /\ ValueMod >= 2
    BY ValueModAssumption
  <2>2. /\ n \in Nat \ {0} /\ n0 \in Values /\ n1 \in Values /\ g.offset = 0
        /\ Last(g) \in Values /\ Last(g) = top + n0 + n1
    BY <1>2, SegmenterTypes DEF Partitionable, Last
  <2>3. /\ S(0) = 0 /\ S(n) = top
        /\ \A u \in 0 .. n : S(u) \in Nat
        /\ \A u, v \in 0 .. n : u <= v => S(u) <= S(v)
    BY <2>2, BaseSegmentsPartition
  <2>4. /\ SegmentStart(g, t) = IF t = 0 THEN 0 ELSE Size(S(t) + n0)
        /\ SegmentEnd(g, t) = Size(S(t + 1) + n0 + IF t + 1 = n THEN n1 ELSE 0)
    BY <1>2 DEF SegmentStart, SegmentEnd, PaddedStart, PaddedEnd, BaseEnd
  <2>5. (n - 1) + 1 = n
    BY <2>2, SMT
  <2>6. SegmentOf(g, i) = IF i < first THEN 0 ELSE IF i >= last THEN n - 1 ELSE BaseOf(g, i - n0)
    BY <1>2, <2>5 DEF SegmentOf, PaddedOf, BaseEnd
  <2>7. \A u \in 0 .. n - 1, j \in Nat : S(u) <= j /\ j < S(u + 1) => BaseOf(g, j) = u
    BY BaseOfFinds
  <2>8. t \in 0 .. n - 1
    OBVIOUS
  <2> HIDE DEF n, n0, n1, top, S, first, last
  <2>9. 0 \in 0 .. n /\ n \in 0 .. n /\ t \in 0 .. n /\ t + 1 \in 0 .. n
    BY <2>2, <2>8, SMT
  <2>10. top \in Nat /\ n0 \in Nat /\ n1 \in Nat /\ top + n0 + n1 < ValueMod
    BY <2>1, <2>2, <2>3, <2>9, SMT DEF Values
  <2>11. /\ S(t) <= S(t + 1) /\ S(t) \in Nat /\ S(t + 1) \in Nat /\ S(t + 1) <= top
         /\ t # 0 => S(t) >= 0
    <3>1. t <= t + 1 /\ t + 1 <= n
      BY <2>2, <2>8, SMT
    <3> QED
      BY <2>3, <2>9, <3>1, SMT
  <2>12. first = n0 /\ last = top + n0
    <3>1. S(0) + n0 \in 0 .. ValueMod - 1 /\ S(n) + n0 \in 0 .. ValueMod - 1 /\ S(0) + n0 = n0
      BY <2>1, <2>3, <2>10, SMT
    <3> QED
      BY <2>1, <2>3, <3>1, NotReduced DEF first, last, Size
  <2>13. Size(S(t) + n0) = S(t) + n0
    <3>1. S(t) + n0 \in 0 .. ValueMod - 1
      BY <2>1, <2>10, <2>11, SMT
    <3> QED
      BY <2>1, <3>1, NotReduced DEF Size
  <2>14. t + 1 # n => SegmentEnd(g, t) = S(t + 1) + n0
    <3>1. S(t + 1) + n0 + 0 = S(t + 1) + n0 /\ S(t + 1) + n0 \in 0 .. ValueMod - 1
      BY <2>1, <2>10, <2>11, SMT
    <3> QED
      BY <2>1, <2>4, <3>1, NotReduced DEF Size
  <2>15. CASE i < first
    <3>1. t = 0
      BY <2>4, <2>10, <2>11, <2>12, <2>13, <2>15, SMT
    <3> QED
      BY <2>6, <2>15, <3>1
  <2>16. CASE ~(i < first) /\ i >= last
    <3>1. t + 1 = n
      BY <2>10, <2>11, <2>12, <2>14, <2>16, SMT
    <3> QED
      BY <2>2, <2>6, <2>8, <2>16, <3>1, SMT
  <2>17. CASE ~(i < first) /\ ~(i >= last)
    <3> DEFINE j == i - n0
    <3>1. j \in Nat
      BY <2>10, <2>12, <2>17, SMT
    <3>2. S(t) <= j
      <4>1. CASE t = 0
        BY <2>3, <3>1, <4>1, SMT
      <4>2. CASE t # 0
        BY <2>4, <2>10, <2>11, <2>13, <4>2, SMT
      <4> QED
        BY <4>1, <4>2
    <3>3. j < S(t + 1)
      <4>1. CASE t + 1 = n
        BY <2>3, <2>10, <2>12, <2>17, <4>1, SMT
      <4>2. CASE t + 1 # n
        BY <2>10, <2>11, <2>14, <4>2, SMT
      <4> QED
        BY <4>1, <4>2
    <3>4. BaseOf(g, j) = t
      BY <2>7, <2>8, <3>1, <3>2, <3>3
    <3> QED
      BY <2>6, <2>17, <3>4
  <2> QED
    BY <2>15, <2>16, <2>17
<1> QED
  BY <1>1, <1>2, SegmenterTypes

-----------------------------------------------------------------------------
(* The walk *)

WalkInv ==
  /\ seg \in Segmenters
  /\ phase \in {"construct", "undefined", "segment", "indices", "done"}
  /\ s \in 0 .. seg.n
  /\ phase \in {"construct", "undefined"} => s = 0 /\ index = First(seg)
  /\ phase = "undefined" => 0 \in Divisors(seg)
  /\ phase \in {"segment", "indices", "done"} => 0 \notin Divisors(seg)
  /\ phase = "segment" => index = IF s = 0 THEN First(seg) ELSE SegmentEnd(seg, s - 1)
  /\ phase = "indices" => s < seg.n /\ index \in SegmentStart(seg, s) .. SegmentEnd(seg, s)
  /\ phase = "done" => index = Last(seg)

\* The boundaries of a segment, as the steps of the walk need them.
LEMMA Boundaries ==
  ASSUME Partitionable, NEW g \in Segmenters
  PROVE  /\ g.n \in Nat \ {0}
         /\ First(g) \in Nat /\ Last(g) \in Values /\ First(g) <= Last(g)
         /\ SegmentStart(g, 0) = First(g) /\ SegmentEnd(g, g.n - 1) = Last(g)
         /\ \A t \in 0 .. g.n - 1 : /\ SegmentStart(g, t) \in Nat /\ SegmentEnd(g, t) \in Nat
                                    /\ SegmentStart(g, t) <= SegmentEnd(g, t)
                                    /\ SegmentEnd(g, t) <= Last(g)
                                    /\ t # 0 => SegmentEnd(g, t - 1) = SegmentStart(g, t)
<1>1. Values \subseteq Nat
  BY ValueModAssumption, SMT DEF Values
<1>2. g.n \in Nat \ {0} /\ First(g) \in Nat /\ Last(g) \in Values /\ Last(g) \in Nat
  BY <1>1, SegmenterTypes DEF First
<1>3. /\ SegmentStart(g, 0) = First(g) /\ SegmentEnd(g, g.n - 1) = Last(g)
      /\ \A t \in 0 .. g.n - 1 : /\ SegmentStart(g, t) \in First(g) .. Last(g)
                                 /\ SegmentEnd(g, t) \in SegmentStart(g, t) .. Last(g)
      /\ \A t \in 0 .. g.n - 2 : SegmentEnd(g, t) = SegmentStart(g, t + 1)
  BY SegmentsPartition
<1>4. ASSUME NEW t \in 0 .. g.n - 1
      PROVE  /\ SegmentStart(g, t) \in Nat /\ SegmentEnd(g, t) \in Nat
             /\ SegmentStart(g, t) <= SegmentEnd(g, t)
             /\ SegmentEnd(g, t) <= Last(g)
             /\ t # 0 => SegmentEnd(g, t - 1) = SegmentStart(g, t)
  <2>1. /\ SegmentStart(g, t) \in First(g) .. Last(g)
        /\ SegmentEnd(g, t) \in SegmentStart(g, t) .. Last(g)
    BY <1>3
  <2>2. ASSUME t # 0 PROVE SegmentEnd(g, t - 1) = SegmentStart(g, t)
    <3>1. t - 1 \in 0 .. g.n - 2 /\ (t - 1) + 1 = t
      BY <1>2, <2>2, SMT
    <3>2. SegmentEnd(g, t - 1) = SegmentStart(g, (t - 1) + 1)
      BY <1>3, <3>1
    <3> QED
      BY <3>1, <3>2
  <2> QED
    BY <1>2, <2>1, <2>2, SMT
<1>5. First(g) <= Last(g)
  <2>1. 0 \in 0 .. g.n - 1
    BY <1>2, SMT
  <2>2. SegmentStart(g, 0) \in First(g) .. Last(g)
    BY <1>3, <2>1
  <2> QED
    BY <1>2, <2>2, SMT
<1> QED
  BY <1>2, <1>3, <1>4, <1>5

LEMMA WalkInvInit ==
  Init => WalkInv
<1> SUFFICES ASSUME Init PROVE WalkInv
  OBVIOUS
<1>1. seg.n \in Nat
  BY SegmenterTypes DEF Init
<1>2. 0 \in 0 .. seg.n
  BY <1>1, SMT
<1> QED
  BY <1>2 DEF Init, WalkInv

LEMMA WalkInvNext ==
  ASSUME Partitionable, WalkInv, [Next]_vars
  PROVE  WalkInv'
<1> DEFINE g == seg
<1>1. /\ g \in Segmenters
      /\ g.n \in Nat \ {0}
      /\ First(g) \in Nat /\ Last(g) \in Values /\ First(g) <= Last(g)
      /\ SegmentStart(g, 0) = First(g) /\ SegmentEnd(g, g.n - 1) = Last(g)
      /\ \A t \in 0 .. g.n - 1 : /\ SegmentStart(g, t) \in Nat /\ SegmentEnd(g, t) \in Nat
                                 /\ SegmentStart(g, t) <= SegmentEnd(g, t)
                                 /\ SegmentEnd(g, t) <= Last(g)
                                 /\ t # 0 => SegmentEnd(g, t - 1) = SegmentStart(g, t)
  BY Boundaries DEF WalkInv
<1>2. s \in Nat /\ s \in 0 .. g.n
  BY <1>1, SMT DEF WalkInv
<1>3. CASE Construct
  BY <1>3 DEF WalkInv, Construct
<1>4. CASE EnterSegment
  <2>1. s \in 0 .. g.n - 1
    BY <1>1, <1>2, <1>4, SMT DEF EnterSegment
  <2>2. SegmentStart(g, s) \in SegmentStart(g, s) .. SegmentEnd(g, s)
    BY <1>1, <2>1, SMT
  <2> QED
    BY <1>4, <2>2 DEF WalkInv, EnterSegment
<1>5. CASE Visit
  <2>1. /\ phase = "indices" /\ s < g.n /\ index \in SegmentStart(g, s) .. SegmentEnd(g, s)
        /\ index # SegmentEnd(g, s) /\ index' = Size(index + 1)
    BY <1>5 DEF WalkInv, Visit
  <2>2. s \in 0 .. g.n - 1
    BY <1>1, <1>2, <2>1, SMT
  <2>3. index + 1 \in SegmentStart(g, s) .. SegmentEnd(g, s) /\ index + 1 \in Values
    BY <1>1, <2>1, <2>2, ValueModAssumption, SMT DEF Values
  <2>4. Size(index + 1) = index + 1
    <3>1. ValueMod \in Nat \ {0}
      BY ValueModAssumption, SMT
    <3> QED
      BY <2>3, <3>1, NotReduced DEF Size, Values
  <2> QED
    BY <1>5, <2>1, <2>3, <2>4 DEF WalkInv, Visit
<1>6. CASE LeaveSegment
  <2>1. s < g.n /\ index = SegmentEnd(g, s)
    BY <1>6 DEF WalkInv, LeaveSegment
  <2>2. s + 1 \in 0 .. g.n /\ s + 1 # 0 /\ (s + 1) - 1 = s
    BY <1>1, <1>2, <2>1, SMT
  <2> QED
    BY <1>6, <2>1, <2>2 DEF WalkInv, LeaveSegment
<1>7. CASE End
  <2>1. s = g.n /\ s # 0 /\ index = SegmentEnd(g, g.n - 1)
    BY <1>1, <1>7 DEF WalkInv, End
  <2> QED
    BY <1>1, <1>7, <2>1 DEF WalkInv, End
<1>8. CASE Terminated \/ UNCHANGED vars
  BY <1>8 DEF WalkInv, Terminated, vars
<1> QED
  BY <1>3, <1>4, <1>5, <1>6, <1>7, <1>8 DEF Next

THEOREM WalkIsWithinBounds ==
  ASSUME Partitionable
  PROVE  Spec => []WalkInv
<1>1. WalkInv /\ [Next]_vars => WalkInv'
  BY WalkInvNext
<1> QED
  BY WalkInvInit, <1>1, PTL DEF Spec

\* A walk over the segments visits every index of the range once, in order.
THEOREM WalkIsIota ==
  ASSUME Partitionable
  PROVE  Spec => WalksTheRange
<1>1. Init => Abstract!Init
  <2> SUFFICES ASSUME Init PROVE Abstract!Init
    OBVIOUS
  <2>1. seg \in Segmenters
    BY DEF Init
  <2> QED
    BY <2>1, Boundaries DEF Init, Abstract!Init
<1>2. ASSUME WalkInv, [Next]_vars
      PROVE  [Abstract!Next]_(Abstract!vars)
  <2> DEFINE g == seg
  <2>1. /\ g \in Segmenters
        /\ g.n \in Nat \ {0}
        /\ First(g) \in Nat /\ Last(g) \in Values /\ Last(g) \in Nat
        /\ SegmentStart(g, 0) = First(g) /\ SegmentEnd(g, g.n - 1) = Last(g)
        /\ \A t \in 0 .. g.n - 1 : /\ SegmentStart(g, t) \in Nat /\ SegmentEnd(g, t) \in Nat
                                   /\ SegmentStart(g, t) <= SegmentEnd(g, t)
                                   /\ SegmentEnd(g, t) <= Last(g)
                                   /\ t # 0 => SegmentEnd(g, t - 1) = SegmentStart(g, t)
    <3>1. Values \subseteq Nat
      BY ValueModAssumption, SMT DEF Values
    <3> QED
      BY <1>2, <3>1, Boundaries DEF WalkInv
  <2>2. s \in Nat /\ s \in 0 .. g.n
    BY <1>2, <2>1, SMT DEF WalkInv
  <2>3. CASE Construct
    BY <2>3 DEF Construct, Abstract!vars
  <2>4. CASE EnterSegment
    <3>1. s \in 0 .. g.n - 1
      BY <2>1, <2>2, <2>4, SMT DEF EnterSegment
    <3>2. index = SegmentStart(g, s)
      BY <1>2, <2>1, <2>4, <3>1 DEF WalkInv, EnterSegment
    <3> QED
      BY <2>4, <3>2 DEF EnterSegment, Abstract!vars
  <2>5. CASE Visit
    <3>1. /\ phase = "indices" /\ s < g.n /\ index \in SegmentStart(g, s) .. SegmentEnd(g, s)
          /\ index # SegmentEnd(g, s) /\ index' = Size(index + 1)
      BY <1>2, <2>5 DEF WalkInv, Visit
    <3>2. s \in 0 .. g.n - 1
      BY <2>1, <2>2, <3>1, SMT
    <3>3. index < Last(g) /\ index + 1 \in Values
      BY <2>1, <3>1, <3>2, ValueModAssumption, SMT DEF Values
    <3>4. Size(index + 1) = index + 1
      <4>1. ValueMod \in Nat \ {0}
        BY ValueModAssumption, SMT
      <4> QED
        BY <3>3, <4>1, NotReduced DEF Size, Values
    <3>5. Abstract!Next
      BY <2>5, <3>1, <3>3, <3>4 DEF Visit, Abstract!Next, Abstract!Visit
    <3> QED
      BY <3>5
  <2>6. CASE LeaveSegment
    BY <2>6 DEF LeaveSegment, Abstract!vars
  <2>7. CASE End
    <3>1. s = g.n /\ s # 0 /\ index = SegmentEnd(g, g.n - 1)
      BY <1>2, <2>1, <2>7 DEF WalkInv, End
    <3>2. Abstract!Next
      BY <2>1, <2>7, <3>1 DEF End, Abstract!Next, Abstract!End
    <3> QED
      BY <3>2
  <2>8. CASE Terminated \/ UNCHANGED vars
    BY <2>8 DEF Terminated, vars, Abstract!vars
  <2> QED
    BY <1>2, <2>3, <2>4, <2>5, <2>6, <2>7, <2>8 DEF Next
<1> QED
  BY <1>1, <1>2, WalkIsWithinBounds, PTL DEF Spec, WalksTheRange, Abstract!Spec

\* segment_of agrees with the walk.
THEOREM SegmentOfAgrees ==
  ASSUME Partitionable
  PROVE  Spec => []SegmentOfFindsIt
<1>1. ASSUME WalkInv PROVE SegmentOfFindsIt
  <2> SUFFICES ASSUME phase = "indices", index # SegmentEnd(seg, s)
               PROVE  SegmentOf(seg, index) = s
    BY DEF SegmentOfFindsIt
  <2>1. /\ seg \in Segmenters /\ 0 \notin Divisors(seg)
        /\ s \in 0 .. seg.n /\ s < seg.n
        /\ index \in SegmentStart(seg, s) .. SegmentEnd(seg, s)
    BY <1>1 DEF WalkInv
  <2>2. seg.n \in Nat \ {0}
    BY <2>1, Boundaries
  <2>3. s \in 0 .. seg.n - 1
    BY <2>1, <2>2, SMT
  <2>4. SegmentStart(seg, s) \in Nat /\ SegmentEnd(seg, s) \in Nat
    BY <2>1, <2>3, Boundaries
  <2>5. index \in Nat /\ SegmentStart(seg, s) <= index /\ index < SegmentEnd(seg, s)
    BY <2>1, <2>4, SMT
  <2> QED
    BY <2>1, <2>3, <2>5, SegmentOfIsInverse
<1> QED
  BY <1>1, WalkIsWithinBounds, PTL

-----------------------------------------------------------------------------
(* What holds however the segmenter is used *)

SegInv ==
  /\ seg \in Segmenters
  /\ phase = "undefined" => 0 \in Divisors(seg)
  /\ phase \in {"segment", "indices", "done"} => 0 \notin Divisors(seg)

LEMMA SegInvHolds ==
  Spec => []SegInv
<1>1. Init => SegInv
  BY DEF Init, SegInv
<1>2. SegInv /\ [Next]_vars => SegInv'
  BY DEF SegInv, Next, vars, Construct, EnterSegment, Visit, LeaveSegment, End, Terminated
<1> QED
  BY <1>1, <1>2, PTL DEF Spec

\* The only segmenter that cannot be set up is a single segment of the largest size.
THEOREM OnlyTheMaximumIsUndefined ==
  Spec => []UndefinedOnlyAtTheMaximum
<1>1. ASSUME SegInv PROVE UndefinedOnlyAtTheMaximum
  <2> SUFFICES ASSUME phase = "undefined" PROVE seg.size = ValueMod - 1 /\ seg.n = 1
    BY DEF UndefinedOnlyAtTheMaximum
  <2>1. seg \in Segmenters /\ 0 \in Divisors(seg)
    BY <1>1 DEF SegInv
  <2>2. seg.size \in Values /\ seg.n \in Nat \ {0} /\ seg.block \in Values \ {0}
    BY <2>1, SegmenterTypes
  <2>3. CASE seg.kind # "blocked"
    BY <2>1, <2>2, <2>3, UniformDivisorsAre DEF Divisors
  <2>4. CASE seg.kind = "blocked"
    <3>1. BlockNum(seg) \in 0 .. seg.size
      BY <2>2, BlocksHoldTheIndices DEF BlockNum
    <3>2. BlockNum(seg) \in Values
      BY <2>2, <3>1, ValueModAssumption, SMT DEF Values
    <3>3. BlockNum(seg) = ValueMod - 1 /\ seg.n = 1
      BY <2>1, <2>2, <2>4, <3>2, UniformDivisorsAre DEF Divisors
    <3> QED
      BY <2>2, <3>1, <3>3, ValueModAssumption, SMT DEF Values
  <2> QED
    BY <2>3, <2>4
<1> QED
  BY <1>1, SegInvHolds, PTL

\* A quotient of a multiple.
LEMMA MultipleDivided ==
  ASSUME NEW f \in Nat \ {0}, NEW x \in Nat, NEW y \in Nat, NEW o \in Nat, x <= y
  PROVE  ((f * y + o) - (f * x + o)) \div f = y - x
<1>1. f * y \in Nat /\ f * x \in Nat /\ y - x \in Nat
  BY ProductIsNatural, SMT
<1>2. (f * y + o) - (f * x + o) = f * (y - x) + 0
  <2>1. f * y = f * x + f * (y - x)
    <3>1. f * (x + (y - x)) = f * x + f * (y - x) /\ x + (y - x) = y
      BY Distributes, SMT
    <3> QED
      BY <3>1
  <2>2. f * (y - x) \in Nat
    BY <1>1, ProductIsNatural
  <2> QED
    BY <1>1, <2>1, <2>2, SMT
<1>3. 0 \in 0 .. f - 1
  BY SMT
<1> QED
  BY <1>1, <1>2, <1>3, DivisionIsUnique

\* The indices are spread evenly over the segments, steps of a factor and offsets included.
THEOREM SegmentsAreBalanced ==
  Spec => []Balanced
<1>1. ASSUME SegInv PROVE Balanced
  <2> DEFINE g == seg
             length(t) == (SegmentEnd(g, t) - SegmentStart(g, t)) \div g.factor
             q == g.size \div g.n
  <2> SUFFICES ASSUME g.kind # "blocked", ~g.padded, NEW t \in 0 .. g.n - 1, NEW u \in 0 .. g.n - 1
               PROVE  /\ length(t) - length(u) \in {-1, 0, 1}
                      /\ g.size >= g.n => length(t) > 0
    BY DEF Balanced
  <2>1. /\ g \in Segmenters /\ g.size \in Values /\ g.size \in Nat /\ g.n \in Nat \ {0}
        /\ g.factor \in Nat \ {0} /\ g.offset \in Nat
    <3>1. seg \in Segmenters
      BY <1>1 DEF SegInv
    <3>2. g.size \in Values /\ g.n \in Nat \ {0} /\ g.factor \in Values \ {0} /\ g.offset \in Values
      BY <3>1, SegmenterTypes
    <3> QED
      BY <3>1, <3>2, ValueModAssumption, SMT DEF Values
  <2>2. ASSUME NEW v \in 0 .. g.n - 1 PROVE length(v) \in {q, q + 1}
    <3> DEFINE x == UniformStart(g.size, g.n, v)
               y == UniformStart(g.size, g.n, v + 1)
    <3>1. v \in 0 .. g.n /\ v + 1 \in 0 .. g.n
      BY <2>1, SMT
    <3>2. /\ SegmentStart(g, v) = g.factor * x + g.offset
          /\ SegmentEnd(g, v) = g.factor * y + g.offset
      BY <2>1, <3>1, PlainStartIs DEF SegmentStart, SegmentEnd, BaseEnd
    <3>3. x \in Nat /\ y \in Nat /\ x <= y
      <4>1. x \in 0 .. g.size /\ y \in 0 .. g.size /\ x <= y
        BY <2>1, UniformStartsAscend
      <4> QED
        BY <2>1, <4>1, SMT
    <3>4. y - x \in {q, q + 1}
      BY <2>1, UniformSegmentsPartition
    <3>5. length(v) = ((g.factor * y + g.offset) - (g.factor * x + g.offset)) \div g.factor
      BY <3>2
    <3> HIDE DEF x, y, length
    <3>6. length(v) = y - x
      BY <2>1, <3>3, <3>5, MultipleDivided
    <3> QED
      BY <3>4, <3>6
  <2>3. q \in Nat /\ g.size % g.n \in 0 .. g.n - 1 /\ g.size = g.n * q + (g.size % g.n)
    BY <2>1, Division
  <2>4. length(t) \in {q, q + 1} /\ length(u) \in {q, q + 1}
    BY <2>2
  <2>5. ASSUME g.size >= g.n PROVE q # 0
    <3> SUFFICES ASSUME q = 0 PROVE FALSE
      OBVIOUS
    <3>1. g.n * 0 = 0
      BY <2>1, SMT
    <3>2. g.size = g.size % g.n
      BY <2>1, <2>3, <3>1, SMT
    <3> QED
      BY <2>1, <2>3, <2>5, <3>2, SMT
  <2> HIDE DEF length, q
  <2> QED
    BY <2>3, <2>4, <2>5, SMT
<1> QED
  BY <1>1, SegInvHolds, PTL

\* Whatever segmenter is set up, its divisors divide exactly.
THEOREM DivisorsDivide ==
  Spec => []DivisionIsExact
<1>1. ASSUME SegInv PROVE DivisionIsExact
  <2> SUFFICES ASSUME phase = "segment", NEW d \in Divisors(seg), NEW a \in Values
               PROVE  /\ Quotient(a, d) = a \div d
                      /\ Remainder(a, d) = a % d
                      /\ QuotientAndRemainder(a, d) = <<a \div d, a % d>>
                      /\ MulFracIntInParts(Invert(d), a) = MulFracInt(Invert(d), a)
    BY DEF DivisionIsExact
  <2>1. seg \in Segmenters /\ 0 \notin Divisors(seg)
    BY <1>1 DEF SegInv
  <2>2. seg.size \in Values /\ seg.n \in Nat \ {0} /\ seg.block \in Values \ {0}
    BY <2>1, SegmenterTypes
  <2>3. d \in Values \ {0}
    <3>1. CASE seg.kind # "blocked"
      BY <2>1, <2>2, <3>1, SetUpIs, UniformDivisorsAre DEF Divisors
    <3>2. CASE seg.kind = "blocked"
      <4>1. BlockNum(seg) \in 0 .. seg.size
        BY <2>2, BlocksHoldTheIndices DEF BlockNum
      <4>2. BlockNum(seg) \in Values
        BY <2>2, <4>1, ValueModAssumption, SMT DEF Values
      <4> QED
        BY <2>1, <2>2, <3>2, <4>2, SetUpIs, UniformDivisorsAre DEF Divisors
    <3> QED
      BY <3>1, <3>2
  <2>4. Invert(d) \in 0 .. WideMod - 1
    <3>1. CASE d = 1
      BY <3>1, InverseOfOne, WideModType, SMT
    <3>2. CASE d # 1
      <4>1. d \in Values /\ d >= 2
        BY <2>3, <3>2, ValueModAssumption, SMT DEF Values
      <4>2. Invert(d) \in 1 .. WideMod - 1
        BY <4>1, InverseRoundsUp
      <4> QED
        BY <4>2, WideModType, SMT
    <3> QED
      BY <3>1, <3>2
  <2> QED
    BY <2>3, <2>4, QuotientIsExact, RemainderIsExact, DivmodIsExact, PartsAreExact
<1> QED
  BY <1>1, SegInvHolds, PTL

=============================================================================

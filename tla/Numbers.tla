------------------------------- MODULE Numbers -------------------------------
(***************************************************************************)
(* The integer algorithms of math/ and random/: on an unsigned type of     *)
(* `Digits2` bits, whose values wrap, and on integer types given by their  *)
(* least and greatest value.  Each is an operator that follows the code;   *)
(* what it has to give is said by NumberRight, without its algorithm.      *)
(***************************************************************************)
EXTENDS Integers, Sequences, FiniteSets, FiniteSetsExt, SequencesExt

CONSTANT Digits2

Word == 2 ^ Digits2
T == 0 .. Word - 1
Greatest == Word - 1

Least(a, b) == IF a <= b THEN a ELSE b
Most(a, b) == IF a <= b THEN b ELSE a
BitWidth(n) == CHOOSE w \in 0 .. 2 * Digits2 : n < 2 ^ w /\ (w = 0 \/ 2 ^ (w - 1) <= n)
BitOf(n, i) == (n \div 2 ^ i) % 2
BitAnd(a, b) == FoldSet(LAMBDA i, s : s + 2 ^ i * BitOf(a, i) * BitOf(b, i), 0, 0 .. Digits2 - 1)
BitXor(a, b) == a + b - 2 * BitAnd(a, b)
BitNot(a) == Greatest - a

-----------------------------------------------------------------------------
(* math/arithmetic.hpp *)

AddMax(a, b, max) == Least(a + Least(b, Greatest - a), max)
SubMin(a, b, min) == Most(a - Least(a, b), min)
DivideUp(a, d) == a \div d + (IF a % d # 0 THEN 1 ELSE 0)

\* By squaring: x is squared once per bit of the exponent, and multiplied in where the bit is set.
Pow(x, exponent) ==
  LET Step(s, i) == [x |-> (s.x * s.x) % Word,
                     y |-> IF BitOf(exponent, i) = 1 THEN (s.y * s.x) % Word ELSE s.y]
  IN  FoldLeft(Step, [x |-> x, y |-> 1], [i \in 1 .. BitWidth(exponent) |-> i - 1]).y

RECURSIVE StaticPow(_, _)
StaticPow(x, exponent) ==
  IF exponent = 0 THEN 1 ELSE IF exponent = 1 THEN x
  ELSE LET half == StaticPow(x, exponent \div 2)
       IN  (half * half * (IF exponent % 2 = 0 THEN 1 ELSE x)) % Word

Log2Floor(n) == BitWidth(n) - 1
Log2Ceil(n) == BitWidth(n - 1)
BitMask(a) == IF a = 0 THEN 0 ELSE Greatest \div 2 ^ (Digits2 - BitWidth(a))

\* Division truncates, also the one of a negative number.
RECURSIVE AbsLogCeil(_, _)
AbsLogCeil(base, num) ==
  IF num < 0 THEN (IF num > -base THEN 1 ELSE 1 + AbsLogCeil(base, -((-num) \div base)))
  ELSE IF num < base THEN 1 ELSE 1 + AbsLogCeil(base, num \div base)

SetBit(value, i, b) == BitAnd(value, BitNot(2 ^ i)) + b * 2 ^ i
CombineBits(bits) == FoldLeft(LAMBDA s, i : s + bits[i] * 2 ^ (i - 1), 0, [i \in 1 .. Len(bits) |-> i])

\* The root is found bit by bit, from the highest one it can have.
IsqrtFloor(x) ==
  IF x < 2 THEN x
  ELSE LET top == Log2Floor(x) \div 2
           Try(root, i) == IF ((root + 2 ^ (top - i)) * (root + 2 ^ (top - i))) % Word <= x
                           THEN root + 2 ^ (top - i) ELSE root
       IN  FoldLeft(Try, 2 ^ top, [i \in 1 .. top |-> i])
IsqrtCeil(x) == LET lb == IsqrtFloor(x) IN IF lb * lb = x THEN lb ELSE lb + 1

\* The largest divisor up to the square root
GreatestDivisor(value) == Max({1} \cup {c \in 2 .. IsqrtFloor(value) : value % c = 0})

-----------------------------------------------------------------------------
(* math/overflow.hpp and math/integer-cast.hpp, whose results carry what was lost.  A type is a    *)
(* record of its least and greatest value.                                                         *)

Unsigned(digits) == [lo |-> 0, hi |-> 2 ^ digits - 1]
Signed(digits) == [lo |-> -(2 ^ digits), hi |-> 2 ^ digits - 1]
Into(type, x) == type.lo + ((x - type.lo) % (type.hi - type.lo + 1))
Fits(type, x) == x \in type.lo .. type.hi

Overflowing(type, x) == [value |-> Into(type, x), valid |-> Fits(type, x)]
OverflowAdd(type, a, b) == Overflowing(type, a + b)
OverflowSubtract(type, a, b) == Overflowing(type, a - b)
OverflowMultiply(type, a, b) == Overflowing(type, a * b)
ValueOr(result, default) == IF result.valid THEN result.value ELSE default

SaturateAdd(a, b) == LET sum == (a + b) % Word IN IF sum < a THEN Greatest ELSE sum
SaturateSubtract(a, b) == LET diff == (a - b) % Word IN IF a < diff THEN 0 ELSE diff
SaturateMultiply(a, b) == ValueOr(OverflowMultiply(Unsigned(Digits2), a, b), Greatest)

\* Only what the types allow is compared: a bound of Dst has to be a value of Src.
TooSmall(src, dst, in) == src.lo < 0 /\ (IF dst.lo = 0 THEN in < 0 ELSE dst.hi < src.hi /\ in < dst.lo)
TooLarge(src, dst, in) == dst.hi < src.hi /\ in > dst.hi
CastInfo(src, dst, in) ==
  IF TooLarge(src, dst, in) THEN "too_large" ELSE IF TooSmall(src, dst, in) THEN "too_small" ELSE "okay"
SafeCast(src, dst, in) == [value |-> Into(dst, in), valid |-> CastInfo(src, dst, in) = "okay"]
SaturateCast(src, dst, in) ==
  CASE CastInfo(src, dst, in) = "okay" -> Into(dst, in)
    [] CastInfo(src, dst, in) = "too_small" -> dst.lo
    [] CastInfo(src, dst, in) = "too_large" -> dst.hi

-----------------------------------------------------------------------------
(* math/factorization.hpp and math/integer-tessellation.hpp *)

RECURSIVE DivideOut(_, _)
DivideOut(n, d) == IF n % d # 0 THEN [n |-> n, times |-> 0]
                   ELSE LET r == DivideOut(n \div d, d) IN [r EXCEPT !.times = @ + 1]

Increments == <<4, 2, 4, 2, 4, 6, 2, 6>>

\* From 7 on, only what 2, 3 and 5 do not divide; the square of the divisor wraps.
RECURSIVE FactorsFrom(_, _, _)
FactorsFrom(n, d, i) ==
  IF (d * d) % Word > n THEN IF n > 1 THEN <<n>> ELSE <<>>
  ELSE LET r == DivideOut(n, d)
       IN  [j \in 1 .. r.times |-> d] \o FactorsFrom(r.n, (d + Increments[i]) % Word, (i % 8) + 1)

FactorizeFlat(n) ==
  LET two == DivideOut(n, 2) three == DivideOut(two.n, 3) five == DivideOut(three.n, 5)
  IN  [j \in 1 .. two.times |-> 2] \o [j \in 1 .. three.times |-> 3]
        \o [j \in 1 .. five.times |-> 5] \o FactorsFrom(five.n, 7, 1)
FactorizeMap(n) ==
  LET fs == FactorizeFlat(n) IN [p \in ToSet(fs) |-> Cardinality({j \in 1 .. Len(fs) : fs[j] = p})]

\* The splits of a number of tiles over the dimensions, in the order they are tried.
RECURSIVE Splits(_, _)
Splits(tiles, dims) ==
  IF dims = 1 THEN <<<<tiles>>>>
  ELSE LET parts == SelectSeq([i \in 1 .. tiles |-> tiles + 1 - i], LAMBDA p : tiles % p = 0)
       IN  FlattenSeq([i \in 1 .. Len(parts) |->
             LET rest == Splits(tiles \div parts[i], dims - 1)
             IN  [j \in 1 .. Len(rest) |-> <<parts[i]>> \o rest[j]]])

\* Whether the longest side of a tile is shorter in terms of its shortest one: fractions a/b compared.
CheaperSplit(box, s, t) ==
  LET Sides(u) == {<<box[i], u[i]>> : i \in 1 .. Len(box)}
      Longest(u) == CHOOSE f \in Sides(u) : \A g \in Sides(u) : g[1] * f[2] <= f[1] * g[2]
      Shortest(u) == CHOOSE f \in Sides(u) : \A g \in Sides(u) : f[1] * g[2] <= g[1] * f[2]
      Cost(u) == <<Longest(u)[1] * Shortest(u)[2], Longest(u)[2] * Shortest(u)[1]>>
  IN  Cost(s)[1] * Cost(t)[2] < Cost(t)[1] * Cost(s)[2]
BoxTesselate(tiles, box) ==
  LET splits == Splits(tiles, Len(box))
  IN  FoldLeft(LAMBDA best, s : IF CheaperSplit(box, s, best) THEN s ELSE best, splits[1], splits)

-----------------------------------------------------------------------------
(* random/lcg.hpp and random/randomize-range.hpp *)

Added(size, value, step) ==
  LET ref == size - step IN IF value < ref THEN value + step ELSE value - ref

Next1(size, increment, value) == Added(size, value, increment)
Previous1(size, increment, value) == Added(size, value, size - increment)

\* The step of a jump, by doubling
RECURSIVE SkipStep(_, _, _, _)
SkipStep(size, step, num, prod) ==
  IF num = 0 THEN prod
  ELSE SkipStep(size, IF step < size - step THEN 2 * step ELSE step - (size - step), num \div 2,
                IF num % 2 = 1 THEN Added(size, prod, step) ELSE prod)
Jump(size, increment, value, diff) ==
  Added(size, value, SkipStep(size, IF diff >= 0 THEN increment ELSE size - increment,
                              IF diff >= 0 THEN diff ELSE -diff, 0))

Multiplier == 12605985 * 2 + 1  \* any odd number: only its last Digits2 bits count

\* RangeRandomizer::transform, each step of which permutes 0 .. size - 1
RandomizePart(size, y) ==
  LET m == 2 ^ (BitWidth(BitAnd(size, BitNot(y))) - 1) - 1
      z == (BitXor(y, y \div 2) * Multiplier) % Word
  IN  BitAnd(y, BitNot(m)) + BitAnd(z, m)
Randomized(size, offset, x) ==
  LET a == 2 ^ (BitWidth(size) - 1)
      b == a - (size - a)
      top == size - 1
      x1 == top - (IF x >= size - offset THEN x - (size - offset) ELSE x + offset)
      x2 == top - (IF x1 >= b THEN top - x1 + b ELSE x1)
      y == x2 % a
      x3 == IF y < size % a /\ BitOf((y * Multiplier) % Word, Digits2 \div 2) = 1 THEN BitXor(x2, a) ELSE x2
  IN  RandomizePart(size, top - x3)

\* sort_indices: each element is swapped towards the front until it is in order; less
\* has the pairs that are.
SortIndices(s, less) ==
  LET Swapped(r, j) == [r EXCEPT ![j] = r[j - 1], ![j - 1] = r[j]]
      Sift(r, k) == IF r.j > 1 /\ <<r.s[r.j], r.s[r.j - 1]>> \in less
                    THEN [s |-> Swapped(r.s, r.j), j |-> r.j - 1] ELSE r
      Insert(r, i) == FoldLeft(Sift, [s |-> r, j |-> i], [k \in 1 .. i |-> k]).s
  IN  FoldLeft(Insert, s, [i \in 1 .. Len(s) |-> i])

-----------------------------------------------------------------------------
Types == {Unsigned(2), Unsigned(4), Signed(2), Signed(3)}
Boxes == {<<b>> : b \in 1 .. 3} \cup ((1 .. 4) \X (1 .. 4)) \cup ((1 .. 3) \X (1 .. 3) \X (1 .. 3))

NumberQuestions ==
  {<<"one", n>> : n \in T} \cup {<<"cast", s, d>> : s \in Types, d \in Types}
    \cup {<<"tiles", n, box>> : n \in 1 .. 12, box \in Boxes}
    \cup {<<"range", size>> : size \in 1 .. 2 ^ (Digits2 - 3)}
    \cup {<<"sort", s>> : s \in UNION {[1 .. n -> 1 .. 3] : n \in 0 .. 4}}

\* Second operands: around 0, the middle and the greatest value
Edges == (0 .. 9) \cup ((Word \div 2 - 3) .. (Word \div 2 + 3)) \cup ((Greatest - 6) .. Greatest)

RECURSIVE Product(_)
Product(s) == IF s = <<>> THEN 1 ELSE Head(s) * Product(Tail(s))

OneRight(n) ==
  /\ \A b \in Edges : /\ SaturateAdd(n, b) = Least(n + b, Greatest) /\ SaturateSubtract(n, b) = Most(n - b, 0)
                      /\ SaturateMultiply(n, b) = Least(n * b, Greatest)
                      /\ AddMax(n, b, Greatest - 1) = Least(n + b, Greatest - 1) /\ SubMin(n, b, 1) = Most(n - b, 1)
                      /\ b > 0 => (DivideUp(n, b) - 1) * b < n /\ n <= DivideUp(n, b) * b
  /\ \A e \in 0 .. 5 : LET power == Product([i \in 1 .. e |-> n % 16]) % Word
                       IN  Pow(n % 16, e) = power /\ StaticPow(n % 16, e) = power
  /\ n > 0 => /\ 2 ^ Log2Floor(n) <= n /\ n < 2 ^ (Log2Floor(n) + 1)
              /\ n <= 2 ^ Log2Ceil(n) /\ (n > 1 => 2 ^ (Log2Ceil(n) - 1) < n)
              /\ LET fs == FactorizeFlat(n)
                 IN  /\ Product(fs) = n /\ \A i \in 1 .. Len(fs) : \A d \in 2 .. fs[i] - 1 : fs[i] % d # 0
                     /\ \A i \in 2 .. Len(fs) : fs[i - 1] <= fs[i]
                     /\ \A p \in DOMAIN FactorizeMap(n) : n % (p ^ FactorizeMap(n)[p]) = 0
  /\ BitMask(n) = 2 ^ BitWidth(n) - 1
  /\ 10 ^ (AbsLogCeil(10, n) - 1) <= Most(n, 1) /\ n < 10 ^ AbsLogCeil(10, n)
  /\ AbsLogCeil(10, -n) = AbsLogCeil(10, n)
  /\ \A i \in 0 .. Digits2 - 1, b \in {0, 1} : \A j \in 0 .. Digits2 - 1 :
       BitOf(SetBit(n, i, b), j) = IF i = j THEN b ELSE BitOf(n, j)
  /\ CombineBits([i \in 1 .. Digits2 |-> BitOf(n, i - 1)]) = n
  /\ IsqrtFloor(n) * IsqrtFloor(n) <= n /\ n < (IsqrtFloor(n) + 1) * (IsqrtFloor(n) + 1)
  /\ n <= IsqrtCeil(n) * IsqrtCeil(n) /\ (n > 0 => (IsqrtCeil(n) - 1) * (IsqrtCeil(n) - 1) < n)
  /\ n > 0 => n % GreatestDivisor(n) = 0 /\ GreatestDivisor(n) * GreatestDivisor(n) <= n

CastRight(src, dst) ==
  \A in \in src.lo .. src.hi :
    /\ SafeCast(src, dst, in).valid <=> Fits(dst, in)
    /\ Fits(dst, in) => SafeCast(src, dst, in).value = in
    /\ SaturateCast(src, dst, in) = IF in < dst.lo THEN dst.lo ELSE IF in > dst.hi THEN dst.hi ELSE in

TilesRight(tiles, box) ==
  LET best == BoxTesselate(tiles, box)
  IN  /\ Product(best) = tiles
      /\ \A s \in [1 .. Len(box) -> 1 .. tiles] : Product(s) = tiles => ~CheaperSplit(box, s, best)

RangeRight(size) ==
  /\ \A increment, seed \in 0 .. size - 1 :
       /\ \A diff \in -(size + 1) .. size + 1 : Jump(size, increment, seed, diff) = (seed + diff * increment) % size
       /\ Next1(size, increment, seed) = Jump(size, increment, seed, 1)
       /\ Previous1(size, increment, seed) = Jump(size, increment, seed, -1)
  /\ \A offset \in 0 .. size : {Randomized(size, offset, x) : x \in 0 .. size - 1} = 0 .. size - 1

\* The pairs say where each element came from: equal ones keep their order.
SortRight(s) ==
  LET pairs == [i \in 1 .. Len(s) |-> <<s[i], i>>]
      less == {pq \in ToSet(pairs) \X ToSet(pairs) : pq[1][1] < pq[2][1]}
      sorted == SortIndices(pairs, less)
  IN  /\ {sorted[i][2] : i \in 1 .. Len(s)} = 1 .. Len(s)
      /\ \A i \in 2 .. Len(s) : \/ sorted[i - 1][1] < sorted[i][1]
                                \/ sorted[i - 1][1] = sorted[i][1] /\ sorted[i - 1][2] < sorted[i][2]

NumberRight(q) ==
  CASE q[1] = "one" -> OneRight(q[2])
    [] q[1] = "cast" -> CastRight(q[2], q[3])
    [] q[1] = "tiles" -> TilesRight(q[2], q[3])
    [] q[1] = "range" -> RangeRight(q[2])
    [] q[1] = "sort" -> SortRight(q[2])
=============================================================================

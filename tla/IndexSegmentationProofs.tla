---------------------- MODULE IndexSegmentationProofs ----------------------
(***************************************************************************)
(* What the operators of Divisor and IndexSegmentation compute, for types  *)
(* of every width: the inverse divides exactly, the uniform segments       *)
(* partition the range evenly, and segment_of is the inverse of the        *)
(* segments' boundaries.                                                   *)
(***************************************************************************)
EXTENDS IndexSegmentation, TLAPS

-----------------------------------------------------------------------------
(* Arithmetic *)

\* A quotient and a remainder recombine to the dividend.
LEMMA Division ==
  ASSUME NEW a \in Nat, NEW b \in Nat \ {0}
  PROVE  /\ a \div b \in Nat
         /\ a % b \in 0 .. b - 1
         /\ a = b * (a \div b) + (a % b)
BY SMT

\* They are the only ones that do.
LEMMA DivisionIsUnique ==
  ASSUME NEW b \in Nat \ {0}, NEW q \in Nat, NEW r \in 0 .. b - 1, NEW a, a = b * q + r
  PROVE  a \div b = q /\ a % b = r
BY SMT

\* A number below the modulus is not reduced.
LEMMA NotReduced ==
  ASSUME NEW b \in Nat \ {0}, NEW x \in 0 .. b - 1
  PROVE  x % b = x
BY SMT

LEMMA ProductMonotone ==
  ASSUME NEW a \in Nat, NEW b \in Nat, NEW c \in Nat, a <= b
  PROVE  a * c <= b * c /\ c * a <= c * b
BY SMT

LEMMA ProductStrictlyMonotone ==
  ASSUME NEW a \in Nat, NEW b \in Nat, NEW c \in Nat \ {0}, a * c < b * c
  PROVE  a < b
<1>1. SUFFICES ASSUME b <= a PROVE FALSE
  BY SMT
<1>2. b * c <= a * c
  BY <1>1, ProductMonotone, SMT
<1> QED
  BY <1>2, SMT

LEMMA Distributes ==
  ASSUME NEW a \in Int, NEW b \in Int, NEW c \in Int
  PROVE  a * (b + c) = a * b + a * c /\ (a + b) * c = a * c + b * c
BY SMT

LEMMA Associates ==
  ASSUME NEW a \in Int, NEW b \in Int, NEW c \in Int
  PROVE  (a * b) * c = a * (b * c)
BY SMT

LEMMA ProductIsNatural ==
  ASSUME NEW a \in Nat, NEW b \in Nat
  PROVE  a * b \in Nat
BY SMT

-----------------------------------------------------------------------------
(* Divisor *)

LEMMA WideModType == WideMod \in Nat /\ WideMod >= 4 /\ WideMod >= 2 * ValueMod
<1>1. ValueMod \in Nat /\ ValueMod >= 2
  BY ValueModAssumption
<1>2. 2 * ValueMod <= ValueMod * ValueMod
  BY <1>1, ProductMonotone, SMT
<1>3. ValueMod * ValueMod \in Nat
  BY <1>1, ProductIsNatural
<1> QED
  BY <1>1, <1>2, <1>3, SMT DEF WideMod

\* For a divisor other than 1, the inverse times the divisor exceeds WideMod by less
\* than the divisor.
LEMMA InverseRoundsUp ==
  ASSUME NEW d \in Values, d >= 2
  PROVE  \E e \in 0 .. d - 1 :
           /\ Invert(d) \in 1 .. WideMod - 1
           /\ Invert(d) * d = WideMod + e
<1> DEFINE q == (WideMod - 1) \div d
           r == (WideMod - 1) % d
<1>1. WideMod \in Nat /\ WideMod >= 4 /\ d \in Nat /\ d >= 2
  BY WideModType, ValueModAssumption, SMT DEF Values
<1>2. q \in Nat /\ r \in 0 .. d - 1 /\ WideMod - 1 = d * q + r
  <2>1. WideMod - 1 \in Nat /\ d \in Nat \ {0}
    BY <1>1, SMT
  <2> QED
    BY <2>1, Division
<1> HIDE DEF q, r
<1>3. 2 * q <= d * q
  BY <1>1, <1>2, ProductMonotone, SMT
<1>4. q + 1 \in 1 .. WideMod - 1
  BY <1>1, <1>2, <1>3, SMT
<1>5. Invert(d) = q + 1
  BY <1>1, <1>4, NotReduced, SMT DEF Invert, q
<1>6. (q + 1) * d = d * q + d
  BY <1>1, <1>2, SMT
<1>7. (q + 1) * d = WideMod + (d - 1 - r)
  BY <1>1, <1>2, <1>6, SMT
<1> QED
  BY <1>1, <1>2, <1>4, <1>5, <1>7, SMT

LEMMA InverseOfOne == Invert(1) = 0
<1>1. WideMod \in Nat /\ WideMod >= 4
  BY WideModType
<1>2. (WideMod - 1) \div 1 = WideMod - 1
  BY <1>1, SMT
<1>3. WideMod % WideMod = 0
  BY <1>1, SMT
<1> QED
  BY <1>1, <1>2, <1>3, SMT DEF Invert

\* What multiplying a dividend by the inverse does: the quotient is above the binary
\* point, and times the divisor the fraction is the remainder and less than one more.
LEMMA ScaledDividend ==
  ASSUME NEW d \in Values, d >= 2, NEW a \in Values
  PROVE  \E x \in 0 .. WideMod - 1, y \in 0 .. WideMod - 1 :
           /\ Invert(d) * a = WideMod * (a \div d) + x
           /\ x * d = WideMod * (a % d) + y
<1> DEFINE k == a \div d
           m == a % d
           I == Invert(d)
<1>1. WideMod \in Nat /\ WideMod >= 4 /\ d \in Nat \ {0} /\ a \in Nat
  BY WideModType, ValueModAssumption, SMT DEF Values
<1>2. k \in Nat /\ m \in 0 .. d - 1 /\ a = d * k + m
  BY <1>1, Division
<1>3. PICK e \in 0 .. d - 1 : I \in 1 .. WideMod - 1 /\ I * d = WideMod + e
  BY InverseRoundsUp
<1> HIDE DEF k, m, I
<1>4. I \in Nat /\ m \in Nat /\ e \in Nat
  BY <1>1, <1>2, <1>3, SMT
<1> DEFINE x == e * k + I * m
           y == e * a
<1>5. x \in Nat /\ y \in Nat
  <2>1. e * k \in Nat /\ I * m \in Nat /\ e * a \in Nat
    BY <1>1, <1>2, <1>4, ProductIsNatural
  <2> QED
    BY <2>1, SMT
<1>6. I * a = WideMod * k + x
  <2>1. I * (d * k + m) = I * (d * k) + I * m
    BY <1>1, <1>2, <1>4, SMT
  <2>2. I * (d * k) = (I * d) * k
    BY <1>1, <1>2, <1>4, SMT
  <2>3. (WideMod + e) * k = WideMod * k + e * k
    BY <1>1, <1>2, <1>4, SMT
  <2>4. I * m \in Nat /\ e * k \in Nat /\ WideMod * k \in Nat
    BY <1>1, <1>2, <1>4, ProductIsNatural
  <2> QED
    BY <1>2, <1>3, <2>1, <2>2, <2>3, <2>4, SMT
<1>7. x * d = WideMod * m + y
  <2>1. (e * k + I * m) * d = e * (d * k) + (I * d) * m
    BY <1>1, <1>2, <1>4, SMT
  <2>2. (WideMod + e) * m = WideMod * m + e * m
    BY <1>1, <1>2, <1>4, SMT
  <2>3. e * (d * k + m) = e * (d * k) + e * m
    BY <1>1, <1>2, <1>4, SMT
  <2>4. e * (d * k) \in Nat /\ e * m \in Nat /\ WideMod * m \in Nat
    BY <1>1, <1>2, <1>4, ProductIsNatural
  <2> QED
    BY <1>2, <1>3, <2>1, <2>2, <2>3, <2>4, SMT
<1>8. y < WideMod
  <2>1. e < ValueMod /\ a < ValueMod /\ ValueMod \in Nat
    BY <1>3, ValueModAssumption, SMT DEF Values
  <2>2. e * a <= e * ValueMod /\ e * ValueMod <= (ValueMod - 1) * ValueMod
    BY <1>1, <1>4, <2>1, ProductMonotone, SMT
  <2>3. (ValueMod - 1) * ValueMod = ValueMod * ValueMod - ValueMod
    BY <2>1, SMT
  <2>4. e * a \in Nat /\ e * ValueMod \in Nat /\ ValueMod * ValueMod \in Nat
    BY <1>1, <1>4, <2>1, ProductIsNatural
  <2> QED
    BY <2>1, <2>2, <2>3, <2>4, ValueModAssumption, SMT DEF WideMod
<1>9. x < WideMod
  <2>1. WideMod * m <= WideMod * (d - 1)
    BY <1>1, <1>2, <1>4, ProductMonotone, SMT
  <2>2. WideMod * (d - 1) = WideMod * d - WideMod
    BY <1>1, SMT
  <2>3. WideMod * m \in Nat /\ WideMod * d \in Nat
    BY <1>1, <1>4, ProductIsNatural
  <2>4. x * d < WideMod * d
    BY <1>1, <1>5, <1>7, <1>8, <2>1, <2>2, <2>3, SMT
  <2> QED
    BY <1>1, <1>5, <2>4, ProductStrictlyMonotone
<1>10. x \in 0 .. WideMod - 1 /\ y \in 0 .. WideMod - 1
  BY <1>1, <1>5, <1>8, <1>9, SMT
<1> HIDE DEF x, y
<1> QED
  BY <1>6, <1>7, <1>10 DEF k, m, I

\* Dividing by a Divisor is division, for every dividend and every divisor of the type.
THEOREM QuotientIsExact ==
  ASSUME NEW d \in Values \ {0}, NEW a \in Values
  PROVE  Quotient(a, d) = a \div d
<1>1. WideMod \in Nat \ {0} /\ d \in Nat \ {0} /\ a \in Nat /\ ValueMod \in Nat \ {0}
  BY WideModType, ValueModAssumption, SMT DEF Values
<1>2. a \div d \in 0 .. ValueMod - 1
  <2>1. a \div d \in Nat /\ a % d \in 0 .. d - 1 /\ a = d * (a \div d) + (a % d)
    BY <1>1, Division
  <2>2. 1 * (a \div d) <= d * (a \div d)
    BY <1>1, <2>1, ProductMonotone, SMT
  <2> QED
    BY <1>1, <2>1, <2>2, SMT DEF Values
<1>3. CASE d = 1
  <2>1. Invert(d) = 0
    BY <1>3, InverseOfOne
  <2>2. MulFracInt(0, a) = 0
    BY <1>1, SMT DEF MulFracInt
  <2>3. a \div d = a
    BY <1>1, <1>3, SMT
  <2>4. a % ValueMod = a
    BY <1>1, NotReduced DEF Values
  <2> QED
    BY <1>1, <2>1, <2>2, <2>3, <2>4, SMT DEF Quotient
<1>4. CASE d # 1
  <2>1. d \in Values /\ d >= 2
    BY <1>1, <1>4, SMT
  <2>2. PICK x \in 0 .. WideMod - 1 : Invert(d) * a = WideMod * (a \div d) + x
    BY <2>1, ScaledDividend
  <2>3. Invert(d) # 0
    BY <2>1, InverseRoundsUp, SMT
  <2>4. (Invert(d) * a) \div WideMod = a \div d
    <3> DEFINE k == a \div d
               p == Invert(d) * a
    <3>1. k \in Nat /\ p = WideMod * k + x
      BY <1>2, <2>2, SMT
    <3> HIDE DEF k, p
    <3>2. p \div WideMod = k
      BY <1>1, <3>1, DivisionIsUnique
    <3> QED
      BY <3>2 DEF k, p
  <2>5. MulFracInt(Invert(d), a) = a \div d
    BY <1>1, <1>2, <2>4, NotReduced DEF MulFracInt
  <2>6. (a \div d + 0) % ValueMod = a \div d
    BY <1>1, <1>2, NotReduced, SMT
  <2> QED
    BY <2>3, <2>5, <2>6 DEF Quotient
<1> QED
  BY <1>3, <1>4

\* The remainder is exact as well.
THEOREM RemainderIsExact ==
  ASSUME NEW d \in Values \ {0}, NEW a \in Values
  PROVE  Remainder(a, d) = a % d
<1>1. WideMod \in Nat \ {0} /\ d \in Nat \ {0} /\ a \in Nat /\ ValueMod \in Nat \ {0}
  BY WideModType, ValueModAssumption, SMT DEF Values
<1>2. a \div d \in Nat /\ a % d \in 0 .. d - 1 /\ a % d \in 0 .. ValueMod - 1
  <2>1. a \div d \in Nat /\ a % d \in 0 .. d - 1
    BY <1>1, Division
  <2> QED
    BY <1>1, <2>1, SMT DEF Values
<1>3. CASE d = 1
  <2>1. Invert(d) * a = 0
    BY <1>1, <1>3, InverseOfOne, SMT
  <2>2. MulFracInt(0 % WideMod, d) = 0
    BY <1>1, <1>3, SMT DEF MulFracInt
  <2>3. a % d = 0
    BY <1>2, <1>3, SMT
  <2> QED
    BY <2>1, <2>2, <2>3 DEF Remainder
<1>4. CASE d # 1
  <2>1. d \in Values /\ d >= 2
    BY <1>1, <1>4, SMT
  <2>2. PICK x \in 0 .. WideMod - 1, y \in 0 .. WideMod - 1 :
          /\ Invert(d) * a = WideMod * (a \div d) + x
          /\ x * d = WideMod * (a % d) + y
    BY <2>1, ScaledDividend
  <2>3. (Invert(d) * a) % WideMod = x
    BY <1>1, <1>2, <2>2, DivisionIsUnique
  <2>4. (x * d) \div WideMod = a % d
    <3> DEFINE m == a % d
               p == x * d
    <3>1. m \in Nat /\ p = WideMod * m + y
      BY <1>2, <2>2, SMT
    <3> HIDE DEF m, p
    <3>2. p \div WideMod = m
      BY <1>1, <3>1, DivisionIsUnique
    <3> QED
      BY <3>2 DEF m, p
  <2>5. MulFracInt(x, d) = a % d
    BY <1>1, <1>2, <2>4, NotReduced DEF MulFracInt
  <2> QED
    BY <2>3, <2>5 DEF Remainder
<1> QED
  BY <1>3, <1>4

\* divmod returns both.
THEOREM DivmodIsExact ==
  ASSUME NEW d \in Values \ {0}, NEW a \in Values
  PROVE  QuotientAndRemainder(a, d) = <<a \div d, a % d>>
<1>1. d \in Nat \ {0} /\ a \in Nat /\ ValueMod \in Nat \ {0}
  BY ValueModAssumption, SMT DEF Values
<1>2. a \div d \in Nat /\ a % d \in 0 .. d - 1 /\ a = d * (a \div d) + (a % d)
  BY <1>1, Division
<1>3. Quotient(a, d) = a \div d
  BY QuotientIsExact
<1>4. ModFactor(d) = d
  <2>1. CASE d = 1
    BY <2>1, InverseOfOne DEF ModFactor
  <2>2. CASE d # 1
    <3>1. d \in Values /\ d >= 2
      BY <1>1, <2>2, SMT
    <3>2. Invert(d) # 0
      BY <3>1, InverseRoundsUp, SMT
    <3> QED
      BY <3>2 DEF ModFactor
  <2> QED
    BY <2>1, <2>2
<1>5. a - (a \div d) * d = a % d
  BY <1>1, <1>2, SMT
<1>6. (a % d) % ValueMod = a % d
  BY <1>1, <1>2, NotReduced, SMT DEF Values
<1> QED
  BY <1>3, <1>4, <1>5, <1>6 DEF QuotientAndRemainder

\* The 192-bit product that is computed in parts is rounded down to the same integer.
THEOREM PartsAreExact ==
  ASSUME NEW a \in 0 .. WideMod - 1, NEW b \in Values
  PROVE  MulFracIntInParts(a, b) = MulFracInt(a, b)
<1> DEFINE B == ValueMod
           al == a % B
           ah == a \div B
           low == (al * b) \div B
           lowest == (al * b) % B
           q == (low + ah * b) \div B
           r == (low + ah * b) % B
<1>1. B \in Nat \ {0} /\ a \in Nat /\ b \in Nat
  BY WideModType, ValueModAssumption, SMT DEF Values
<1>2. ah \in Nat /\ al \in 0 .. B - 1 /\ a = B * ah + al
  BY <1>1, Division
<1>3. al * b \in Nat
  BY <1>1, <1>2, ProductIsNatural, SMT
<1>4. low \in Nat /\ lowest \in 0 .. B - 1 /\ al * b = B * low + lowest
  BY <1>1, <1>3, Division
<1>5. low + ah * b \in Nat
  BY <1>1, <1>2, <1>4, ProductIsNatural, SMT
<1>6. q \in Nat /\ r \in 0 .. B - 1 /\ low + ah * b = B * q + r
  BY <1>1, <1>5, Division
<1>7. MulFracIntInParts(a, b) = q % B
  BY DEF MulFracIntInParts
<1> HIDE DEF B, al, ah, low, lowest, q, r
<1>8. a * b = B * (ah * b + low) + lowest
  <2>1. (B * ah + al) * b = B * (ah * b) + al * b
    BY <1>1, <1>2, SMT
  <2>2. ah * b \in Nat
    BY <1>1, <1>2, ProductIsNatural
  <2>3. B * (ah * b + low) = B * (ah * b) + B * low
    BY <1>1, <1>4, <2>2, Distributes, SMT
  <2>4. B * (ah * b) \in Nat /\ B * low \in Nat
    BY <1>1, <1>4, <2>2, ProductIsNatural
  <2> QED
    BY <1>2, <1>3, <1>4, <2>1, <2>3, <2>4, SMT
<1>9. B * (ah * b + low) = (B * B) * q + B * r
  <2>1. ah * b + low = B * q + r
    BY <1>1, <1>2, <1>4, <1>6, ProductIsNatural, SMT
  <2>2. B * (B * q + r) = (B * B) * q + B * r
    BY <1>1, <1>6, SMT
  <2> QED
    BY <2>1, <2>2
<1>10. B * r + lowest \in 0 .. B * B - 1
  <2>1. B * r <= B * (B - 1)
    BY <1>1, <1>6, ProductMonotone, SMT
  <2>2. B * (B - 1) = B * B - B
    BY <1>1, SMT
  <2>3. B * r \in Nat /\ B * B \in Nat
    BY <1>1, <1>6, ProductIsNatural, SMT
  <2> QED
    BY <1>1, <1>4, <2>1, <2>2, <2>3, SMT
<1>11. a * b = (B * B) * q + (B * r + lowest)
  <2>1. (B * B) * q \in Nat /\ B * r \in Nat
    BY <1>1, <1>6, ProductIsNatural, SMT
  <2> QED
    BY <1>4, <1>8, <1>9, <2>1, SMT
<1>12. B * B \in Nat \ {0}
  BY WideModType, SMT DEF WideMod, B
<1>13. (a * b) \div (B * B) = q
  BY <1>6, <1>10, <1>11, <1>12, DivisionIsUnique
<1> QED
  BY <1>7, <1>13 DEF MulFracInt, WideMod, B

-----------------------------------------------------------------------------
(* UniformIndexSegmenter *)

\* Nothing is reduced: segment s starts after s segments of the shorter length and one
\* more index for each of them that is among the first ones.
LEMMA UniformStartIs ==
  ASSUME NEW size \in Values, NEW n \in Nat \ {0}, NEW s \in 0 .. n
  PROVE  /\ UniformStart(size, n, s) = s * (size \div n) + Least(size % n, s)
         /\ UniformStart(size, n, s) \in 0 .. size
<1> DEFINE q == size \div n
           r == size % n
           m == Least(r, s)
<1>1. size \in Nat /\ ValueMod \in Nat \ {0} /\ s \in Nat /\ s <= n
  BY ValueModAssumption, SMT DEF Values
<1>2. q \in Nat /\ r \in 0 .. n - 1 /\ size = n * q + r
  BY <1>1, Division
<1>3. UniformStart(size, n, s) = (s * q + m) % ValueMod
  BY DEF UniformStart, Size
<1> HIDE DEF q, r
<1>4. m \in Nat /\ m <= r
  BY <1>1, <1>2, SMT DEF Least
<1> HIDE DEF m
<1>5. s * q <= n * q /\ s * q \in Nat /\ n * q \in Nat
  BY <1>1, <1>2, ProductMonotone, ProductIsNatural
<1>6. s * q + m \in 0 .. size
  BY <1>1, <1>2, <1>4, <1>5, SMT
<1>7. s * q + m \in 0 .. ValueMod - 1
  BY <1>1, <1>6, SMT DEF Values
<1>8. (s * q + m) % ValueMod = s * q + m
  BY <1>1, <1>7, NotReduced
<1> QED
  BY <1>3, <1>6, <1>8 DEF q, r, m

\* The segments partition the range [0, size), and none is longer than another by more
\* than one index.
THEOREM UniformSegmentsPartition ==
  ASSUME NEW size \in Values, NEW n \in Nat \ {0}
  PROVE  /\ UniformStart(size, n, 0) = 0
         /\ UniformStart(size, n, n) = size
         /\ \A s \in 0 .. n - 1 :
              UniformStart(size, n, s + 1) - UniformStart(size, n, s)
                \in {size \div n, size \div n + 1}
<1> DEFINE q == size \div n
           r == size % n
<1>1. size \in Nat
  BY ValueModAssumption, SMT DEF Values
<1>2. q \in Nat /\ r \in 0 .. n - 1 /\ size = n * q + r
  BY <1>1, Division
<1>3. \A s \in 0 .. n : UniformStart(size, n, s) = s * q + Least(r, s)
  BY UniformStartIs
<1> HIDE DEF q, r
<1>4. UniformStart(size, n, 0) = 0
  <2>1. 0 * q = 0 /\ Least(r, 0) = 0
    BY <1>2, SMT DEF Least
  <2> QED
    BY <1>3, <2>1, SMT
<1>5. UniformStart(size, n, n) = size
  <2>1. Least(r, n) = r
    BY <1>2, SMT DEF Least
  <2> QED
    BY <1>2, <1>3, <2>1, SMT
<1>6. ASSUME NEW s \in 0 .. n - 1
      PROVE  UniformStart(size, n, s + 1) - UniformStart(size, n, s) \in {q, q + 1}
  <2>1. s \in Nat /\ s \in 0 .. n /\ s + 1 \in 0 .. n
    BY SMT
  <2>2. (s + 1) * q = s * q + q /\ s * q \in Nat
    BY <1>2, <2>1, SMT
  <2>3. Least(r, s + 1) - Least(r, s) \in {0, 1} /\ Least(r, s) \in Nat /\ Least(r, s + 1) \in Nat
    BY <1>2, <2>1, SMT DEF Least
  <2>4. /\ UniformStart(size, n, s + 1) = (s + 1) * q + Least(r, s + 1)
        /\ UniformStart(size, n, s) = s * q + Least(r, s)
    BY <1>3, <2>1
  <2> QED
    BY <1>2, <2>2, <2>3, <2>4, SMT
<1> QED
  BY <1>4, <1>5, <1>6 DEF q

\* The segments follow each other in order.
LEMMA UniformStartsAscend ==
  ASSUME NEW size \in Values, NEW n \in Nat \ {0}, NEW s \in 0 .. n - 1
  PROVE  /\ UniformStart(size, n, s) \in 0 .. size
         /\ UniformStart(size, n, s + 1) \in 0 .. size
         /\ UniformStart(size, n, s) <= UniformStart(size, n, s + 1)
<1>1. size \in Nat /\ s \in 0 .. n /\ s + 1 \in 0 .. n
  BY ValueModAssumption, SMT DEF Values
<1>2. size \div n \in Nat
  BY <1>1, Division
<1>3. UniformStart(size, n, s + 1) - UniformStart(size, n, s) \in {size \div n, size \div n + 1}
  BY UniformSegmentsPartition
<1>4. UniformStart(size, n, s) \in 0 .. size /\ UniformStart(size, n, s + 1) \in 0 .. size
  BY <1>1, UniformStartIs
<1> QED
  BY <1>1, <1>2, <1>3, <1>4, SMT

\* A later segment does not start before an earlier one.
LEMMA UniformStartMonotone ==
  ASSUME NEW size \in Values, NEW n \in Nat \ {0}, NEW s \in 0 .. n, NEW t \in 0 .. n, s <= t
  PROVE  UniformStart(size, n, s) <= UniformStart(size, n, t)
<1> DEFINE q == size \div n
           r == size % n
<1>1. size \in Nat /\ s \in Nat /\ t \in Nat
  BY ValueModAssumption, SMT DEF Values
<1>2. q \in Nat /\ r \in 0 .. n - 1
  BY <1>1, Division
<1>3. /\ UniformStart(size, n, s) = s * q + Least(r, s)
      /\ UniformStart(size, n, t) = t * q + Least(r, t)
  BY UniformStartIs
<1> HIDE DEF q, r
<1>4. s * q <= t * q /\ s * q \in Nat /\ t * q \in Nat
  BY <1>1, <1>2, ProductMonotone, ProductIsNatural
<1>5. Least(r, s) <= Least(r, t) /\ Least(r, s) \in Nat /\ Least(r, t) \in Nat
  BY <1>1, <1>2, SMT DEF Least
<1> QED
  BY <1>3, <1>4, <1>5, SMT

\* An index lies within the bounds of one segment only.
LEMMA UniformSegmentIsUnique ==
  ASSUME NEW size \in Values, NEW n \in Nat \ {0}, NEW s \in 0 .. n - 1, NEW t \in 0 .. n - 1,
         NEW i \in Nat,
         UniformStart(size, n, s) <= i, i < UniformStart(size, n, s + 1),
         UniformStart(size, n, t) <= i, i < UniformStart(size, n, t + 1)
  PROVE  s = t
<1>1. /\ s \in 0 .. n /\ s + 1 \in 0 .. n
      /\ t \in 0 .. n /\ t + 1 \in 0 .. n
  BY SMT
<1>2. \A u \in 0 .. n : UniformStart(size, n, u) \in Nat
  <2>1. ASSUME NEW u \in 0 .. n PROVE UniformStart(size, n, u) \in Nat
    <3>1. size \in Nat
      BY ValueModAssumption, SMT DEF Values
    <3>2. UniformStart(size, n, u) \in 0 .. size
      BY UniformStartIs
    <3> QED
      BY <3>1, <3>2, SMT
  <2> QED
    BY <2>1
<1>3. ASSUME s < t PROVE FALSE
  <2>1. UniformStart(size, n, s + 1) <= UniformStart(size, n, t)
    BY <1>1, <1>3, UniformStartMonotone, SMT
  <2> QED
    BY <1>1, <1>2, <2>1, SMT
<1>4. ASSUME t < s PROVE FALSE
  <2>1. UniformStart(size, n, t + 1) <= UniformStart(size, n, s)
    BY <1>1, <1>4, UniformStartMonotone, SMT
  <2> QED
    BY <1>1, <1>2, <2>1, SMT
<1> QED
  BY <1>3, <1>4, SMT

\* The only segmenter whose divisors are not all positive values of the type is a single
\* segment of the largest size.
LEMMA UniformDivisorsAre ==
  ASSUME NEW size \in Values, NEW n \in Nat \ {0}, ~(size = ValueMod - 1 /\ n = 1)
  PROVE  /\ size \div n + 1 \in Values \ {0}
         /\ UniformDivisors(size, n) = ({size \div n} \ {0}) \cup {size \div n + 1}
         /\ UniformDivisors(size, n) \subseteq Values \ {0}
<1> DEFINE q == size \div n
<1>1. size \in Nat /\ ValueMod \in Nat /\ ValueMod >= 2 /\ size < ValueMod
  BY ValueModAssumption, SMT DEF Values
<1>2. q \in Nat /\ size % n \in 0 .. n - 1 /\ size = n * q + (size % n)
  BY <1>1, Division
<1>3. q + 1 < ValueMod
  <2>1. CASE n = 1
    BY <1>1, <1>2, <2>1, SMT
  <2>2. CASE n # 1
    <3>1. 2 * q <= n * q /\ n * q \in Nat
      <4>1. n \in Nat /\ 2 <= n /\ q \in Nat
        BY <1>2, <2>2, SMT
      <4> HIDE DEF q
      <4> QED
        BY <4>1, ProductMonotone, ProductIsNatural
    <3> QED
      BY <1>1, <1>2, <3>1, SMT
  <2> QED
    BY <2>1, <2>2
<1>4. Size(q + 1) = q + 1
  BY <1>1, <1>2, <1>3, NotReduced, SMT DEF Size
<1>5. q + 1 \in Values \ {0} /\ q \in Values
  BY <1>1, <1>2, <1>3, SMT DEF Values
<1> HIDE DEF q
<1>6. UniformDivisors(size, n) = ({q} \ {0}) \cup {q + 1}
  BY <1>4 DEF UniformDivisors, q
<1>7. UniformDivisors(size, n) \subseteq Values \ {0}
  BY <1>5, <1>6
<1> QED
  BY <1>5, <1>6, <1>7 DEF q

\* segment_of returns the segment that the index is in, for every index of the range.
THEOREM UniformOfFinds ==
  ASSUME NEW size \in Values, NEW n \in Nat \ {0}, ~(size = ValueMod - 1 /\ n = 1),
         NEW i \in 0 .. size - 1
  PROVE  /\ UniformOf(size, n, i) \in 0 .. n - 1
         /\ UniformStart(size, n, UniformOf(size, n, i)) <= i
         /\ i < UniformStart(size, n, UniformOf(size, n, i) + 1)
<1> DEFINE q == size \div n
           r == size % n
           ref == r * (q + 1)
<1>1. size \in Nat /\ ValueMod \in Nat \ {0} /\ size < ValueMod /\ i \in Nat /\ i < size
  BY ValueModAssumption, SMT DEF Values
<1>2. q \in Nat /\ r \in 0 .. n - 1 /\ size = n * q + r
  BY <1>1, Division
<1>3. q + 1 \in Values \ {0} /\ i \in Values
  BY <1>1, UniformDivisorsAre, SMT DEF Values
<1>4. UniformOf(size, n, i) =
        IF i <= Size(ref) THEN Quotient(i, q + 1) ELSE Size(r + Quotient(i - Size(ref), q))
  BY DEF UniformOf
<1>5. \A s \in 0 .. n : UniformStart(size, n, s) = s * q + Least(r, s)
  BY UniformStartIs
<1> HIDE DEF q, r
<1>6. ref = r * q + r /\ r * q \in Nat /\ r * q <= n * q /\ n * q \in Nat
  <2>1. r \in Nat /\ r <= n
    BY <1>2, SMT
  <2> QED
    BY <1>2, <2>1, ProductMonotone, ProductIsNatural, SMT
<1>7. ref \in 0 .. size
  BY <1>1, <1>2, <1>6, SMT
<1>8. Size(ref) = ref
  <2>1. ref \in 0 .. ValueMod - 1
    BY <1>1, <1>7, SMT
  <2> HIDE DEF ref
  <2> QED
    BY <1>1, <2>1, NotReduced DEF Size
<1> HIDE DEF ref
\* It suffices to name the segment and to show that the index is within its bounds.
<1>9. SUFFICES \E s \in 0 .. n - 1 : /\ UniformOf(size, n, i) = s
                                     /\ s * q + Least(r, s) <= i
                                     /\ i < (s + 1) * q + Least(r, s + 1)
  <2>1. PICK s \in 0 .. n - 1 : /\ UniformOf(size, n, i) = s
                                /\ s * q + Least(r, s) <= i
                                /\ i < (s + 1) * q + Least(r, s + 1)
    BY <1>9
  <2>2. s \in 0 .. n /\ s + 1 \in 0 .. n
    BY <2>1, SMT
  <2>3. /\ UniformStart(size, n, s) = s * q + Least(r, s)
        /\ UniformStart(size, n, s + 1) = (s + 1) * q + Least(r, s + 1)
    BY <1>5, <2>2
  <2> QED
    BY <2>1, <2>3
<1>10. CASE i <= ref
  <2> DEFINE s == i \div (q + 1)
             x == i % (q + 1)
  <2>1. q + 1 \in Nat \ {0}
    BY <1>2, SMT
  <2>2. s \in Nat /\ x \in 0 .. (q + 1) - 1 /\ i = (q + 1) * s + x
    BY <1>1, <2>1, Division
  <2>3. UniformOf(size, n, i) = s
    BY <1>3, <1>4, <1>8, <1>10, QuotientIsExact
  <2> HIDE DEF s, x
  <2>4. (q + 1) * s = s * q + s /\ s * q \in Nat
    BY <1>2, <2>2, SMT
  <2>5. (s + 1) * q = s * q + q
    BY <1>2, <2>2, SMT
  <2>6. CASE i < ref
    <3>1. s < r
      <4>1. SUFFICES ASSUME r <= s PROVE FALSE
        BY <1>2, <2>2, SMT
      <4>2. r * q <= s * q
        BY <1>2, <2>2, <4>1, ProductMonotone, SMT
      <4> QED
        BY <1>1, <1>2, <1>6, <2>2, <2>4, <2>6, <4>1, <4>2, SMT
    <3>2. Least(r, s) = s /\ Least(r, s + 1) = s + 1 /\ s \in 0 .. n - 1
      BY <1>2, <2>2, <3>1, SMT DEF Least
    <3>3. s * q + s <= i /\ i < (s + 1) * q + (s + 1)
      BY <1>1, <1>2, <2>2, <2>4, <2>5, SMT
    <3> QED
      BY <2>3, <3>2, <3>3
  <2>7. CASE i = ref
    <3>1. (q + 1) * s + x = (q + 1) * r + 0
      BY <1>2, <1>6, <2>1, <2>2, <2>7, SMT
    <3>2. s = r
      <4>1. 0 \in 0 .. (q + 1) - 1 /\ r \in Nat
        BY <1>2, SMT
      <4>2. i \div (q + 1) = s
        BY <2>1, <2>2, DivisionIsUnique
      <4>3. i \div (q + 1) = r
        <5>1. i = (q + 1) * r + 0
          BY <2>2, <3>1
        <5> QED
          BY <2>1, <4>1, <5>1, DivisionIsUnique
      <4> QED
        BY <4>2, <4>3
    <3>3. q > 0
      BY <1>1, <1>2, <1>6, <2>7, SMT
    <3>4. Least(r, s) = r /\ Least(r, s + 1) = r /\ s \in 0 .. n - 1
      BY <1>2, <3>2, SMT DEF Least
    <3>5. s * q + r <= i /\ i < (s + 1) * q + r
      BY <1>1, <1>2, <1>6, <2>4, <2>5, <2>7, <3>2, <3>3, SMT
    <3> QED
      BY <2>3, <3>4, <3>5
  <2>8. i < ref \/ i = ref
    BY <1>1, <1>7, <1>10, SMT
  <2> QED
    BY <2>6, <2>7, <2>8
<1>11. CASE ~(i <= ref)
  <2> DEFINE j == i - ref
             t == j \div q
             x == j % q
             s == r + t
  <2>1. j \in Nat \ {0} /\ j \in Values /\ i = ref + j
    BY <1>1, <1>7, <1>11, SMT DEF Values
  <2>2. q \in Nat \ {0} /\ q \in Values \ {0}
    <3>1. q > 0
      BY <1>1, <1>2, <1>6, <1>11, SMT
    <3> QED
      BY <1>1, <1>2, <1>3, <3>1, SMT DEF Values
  <2>3. t \in Nat /\ x \in 0 .. q - 1 /\ j = q * t + x
    BY <2>1, <2>2, Division
  <2>4. UniformOf(size, n, i) = Size(s)
    BY <1>4, <1>8, <1>11, <2>1, <2>2, QuotientIsExact
  <2> HIDE DEF j, t, x
  <2>5. t < n - r
    <3>1. (n - r) * q = n * q - r * q
      BY <1>2, SMT
    <3>2. n - r \in Nat /\ q * t \in Nat /\ q * t = t * q
      BY <1>2, <2>2, <2>3, SMT
    <3>3. t * q < (n - r) * q
      BY <1>1, <1>2, <1>6, <2>1, <2>3, <3>1, <3>2, SMT
    <3> QED
      BY <2>2, <2>3, <3>2, <3>3, ProductStrictlyMonotone
  <2>6. s * q = r * q + q * t /\ (s + 1) * q = r * q + q * t + q /\ q * t \in Nat
    BY <1>2, <2>2, <2>3, SMT
  <2>7. Least(r, s) = r /\ Least(r, s + 1) = r /\ s \in 0 .. n - 1
    BY <1>2, <2>3, <2>5, SMT DEF Least
  <2>8. s * q + r <= i /\ i < (s + 1) * q + r
    BY <1>1, <1>2, <1>6, <2>1, <2>2, <2>3, <2>6, SMT
  <2>9. Size(s) = s
    <3>1. 1 * s <= s * q
      BY <1>2, <2>2, <2>3, ProductMonotone, SMT
    <3>2. s \in 0 .. ValueMod - 1
      BY <1>1, <1>2, <2>2, <2>3, <2>6, <2>8, <3>1, SMT
    <3> QED
      BY <1>1, <3>2, NotReduced DEF Size
  <2> HIDE DEF s
  <2> QED
    BY <2>4, <2>7, <2>8, <2>9
<1> QED
  BY <1>10, <1>11

=============================================================================

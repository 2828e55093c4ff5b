-------------------------- MODULE ContainersProofs --------------------------
(***************************************************************************)
(* Proofs about Containers for every value of the constants: bits and      *)
(* integers that threads write into shared chunks, nested arrays whose     *)
(* parts are built by threads of their own, flat sets and maps and the     *)
(* algorithms on sorted ranges they use, and, with the invariants of       *)
(* ArraysProofs, arrays of every kind and chunked ones.                    *)
(***************************************************************************)
EXTENDS Containers, ArraysProofs, FiniteSetTheorems, WellFoundedInduction, TLAPS

-----------------------------------------------------------------------------
(* Arithmetic *)

LEMMA Division ==
  ASSUME NEW a \in Nat, NEW b \in Nat \ {0}
  PROVE  /\ a \div b \in Nat
         /\ a % b \in 0 .. b - 1
         /\ a = b * (a \div b) + (a % b)
BY SMT

LEMMA MultipleIs ==
  ASSUME NEW b \in Nat \ {0}, NEW q \in Nat
  PROVE  (b * q) % b = 0
BY SMT

LEMMA RemainderIs ==
  ASSUME NEW b \in Nat \ {0}, NEW q \in Nat, NEW r \in 0 .. b - 1
  PROVE  (b * q + r) % b = r
BY SMT

LEMMA ProductMonotone ==
  ASSUME NEW a \in Nat, NEW b \in Nat, NEW c \in Nat, a <= b
  PROVE  c * a <= c * b
BY SMT

LEMMA MultiplesApart ==
  ASSUME NEW w \in Nat \ {0}, NEW a \in Nat, NEW b \in Nat, a < b
  PROVE  w * a + w <= w * b
BY SMT

\* What lies in different multiples of a width is different.
LEMMA FieldsApart ==
  ASSUME NEW w \in Nat \ {0}, NEW a \in Nat, NEW b \in Nat, a # b,
         NEW x \in 0 .. w - 1, NEW y \in 0 .. w - 1
  PROVE  x + w * a # y + w * b
<1>1. w * a \in Nat /\ w * b \in Nat
  BY SMT
<1>2. CASE a < b
  BY <1>1, <1>2, MultiplesApart, SMT
<1>3. CASE b < a
  BY <1>1, <1>3, MultiplesApart, SMT
<1> QED
  BY <1>2, <1>3

-----------------------------------------------------------------------------
(* Elements in chunks *)

\* What the chunk says of the element i.
ElementOf(chunk, i) == Bit!Shifted(chunk \cap Bit!Mask(i), -Bit!Offset(i))

LEMMA WidthType == Bit!Width \in Nat \ {0} /\ Bit!ChunkBits \in Nat \ {0}
<1>1. Bit!Width \in Nat \ {0}
  BY BitsAssumption DEF Bit!Width
<1> QED
  BY <1>1, BitsAssumption, SMT DEF Bit!ChunkBits

LEMMA ShiftedHas ==
  ASSUME NEW v \in SUBSET Int, NEW by \in Int, NEW b \in Int
  PROVE  b \in Bit!Shifted(v, by) <=> b - by \in v
BY SMT DEF Bit!Shifted

LEMMA ShiftedType ==
  ASSUME NEW v \in SUBSET Int, NEW by \in Int
  PROVE  Bit!Shifted(v, by) \in SUBSET Int
BY SMT DEF Bit!Shifted

\* An element has a place of its own in the chunk.
LEMMA PlaceOf ==
  ASSUME NEW i \in Nat
  PROVE  /\ Bit!Offset(i) \in Nat /\ Bit!Offset(i) + Bit!Width <= Bit!ChunkBits
         /\ i \div PerChunk \in Nat /\ Bit!ChunkOf(i) \in Nat \ {0}
<1>1. i \div PerChunk \in Nat /\ i % PerChunk \in 0 .. PerChunk - 1
  BY Division, BitsAssumption
<1>2. i % PerChunk \in Nat /\ PerChunk \in Nat /\ i % PerChunk < PerChunk
  BY <1>1, BitsAssumption
<1>3. Bit!Width * (i % PerChunk) + Bit!Width <= Bit!Width * PerChunk
  BY <1>2, WidthType, MultiplesApart
<1>4. Bit!Width * PerChunk = PerChunk * Bit!Width
  BY WidthType, BitsAssumption, SMT
<1> QED
  BY <1>1, <1>2, <1>3, <1>4, WidthType, SMT DEF Bit!Offset, Bit!ChunkBits, Bit!ChunkOf

LEMMA MaskHas ==
  ASSUME NEW i \in Nat, NEW b \in Int
  PROVE  b \in Bit!Mask(i) <=> b - Bit!Offset(i) \in 0 .. Bit!Width - 1
<1>1. 0 .. Bit!Width - 1 \in SUBSET Int /\ Bit!Offset(i) \in Int
  BY PlaceOf, WidthType
<1> QED
  BY <1>1, ShiftedHas DEF Bit!Mask

LEMMA MaskType ==
  ASSUME NEW i \in Nat
  PROVE  Bit!Mask(i) \in SUBSET Bit!OneChunk
<1>1. Bit!Mask(i) \in SUBSET Int
  BY PlaceOf, WidthType, ShiftedType DEF Bit!Mask
<1>2. ASSUME NEW b \in Bit!Mask(i)
      PROVE  b \in 0 .. Bit!ChunkBits - 1
  <2>1. b \in Int /\ b - Bit!Offset(i) \in 0 .. Bit!Width - 1
    BY <1>1, MaskHas
  <2> QED
    BY <2>1, PlaceOf, WidthType
<1> QED
  BY <1>2 DEF Bit!OneChunk

LEMMA ElementHas ==
  ASSUME NEW chunk \in SUBSET Bit!OneChunk, NEW i \in Nat
  PROVE  /\ ElementOf(chunk, i) \in SUBSET (0 .. Bit!Width - 1)
         /\ \A b \in 0 .. Bit!Width - 1 : b \in ElementOf(chunk, i) <=> b + Bit!Offset(i) \in chunk
<1> DEFINE m == chunk \cap Bit!Mask(i)
<1>1. m \in SUBSET Int /\ -Bit!Offset(i) \in Int /\ Bit!Offset(i) \in Nat
  BY MaskType, PlaceOf DEF Bit!OneChunk
<1>2. ElementOf(chunk, i) \in SUBSET Int
  BY <1>1, ShiftedType DEF ElementOf
<1>3. \A b \in Int : b \in ElementOf(chunk, i) <=> b + Bit!Offset(i) \in m
  <2> TAKE b \in Int
  <2>1. b \in ElementOf(chunk, i) <=> b - (-Bit!Offset(i)) \in m
    BY <1>1, ShiftedHas DEF ElementOf
  <2> QED
    BY <1>1, <2>1
<1>4. \A b \in Int : b + Bit!Offset(i) \in Bit!Mask(i) <=> b \in 0 .. Bit!Width - 1
  <2> TAKE b \in Int
  <2>1. (b + Bit!Offset(i)) - Bit!Offset(i) = b /\ b + Bit!Offset(i) \in Int
    BY <1>1
  <2> QED
    BY <2>1, MaskHas
<1> QED
  BY <1>2, <1>3, <1>4

LEMMA ElementIs ==
  ASSUME NEW chunk \in SUBSET Bit!OneChunk, NEW i \in Nat, NEW v \in SUBSET (0 .. Bit!Width - 1),
         \A b \in 0 .. Bit!Width - 1 : b \in v <=> b + Bit!Offset(i) \in chunk
  PROVE  ElementOf(chunk, i) = v
BY ElementHas, Zenon

LEMMA UpdateHas ==
  ASSUME NEW chunk \in SUBSET Bit!OneChunk, NEW i \in Nat, NEW v \in SUBSET (0 .. Bit!Width - 1)
  PROVE  /\ Bit!UpdateChunk(chunk, i, v) \in SUBSET Bit!OneChunk
         /\ \A b \in Int : b \in Bit!UpdateChunk(chunk, i, v) <=>
              IF b \in Bit!Mask(i) THEN b - Bit!Offset(i) \in v ELSE b \in chunk
<1>1. v \in SUBSET Int /\ Bit!Offset(i) \in Int
  BY PlaceOf, WidthType
<1>2. \A b \in Int : b \in Bit!Shifted(v, Bit!Offset(i)) <=> b - Bit!Offset(i) \in v
  BY <1>1, ShiftedHas
<1>3. \A b \in Int : b - Bit!Offset(i) \in v => b \in Bit!Mask(i)
  BY MaskHas
<1>4. Bit!Shifted(v, Bit!Offset(i)) \in SUBSET Int
  BY <1>1, ShiftedType
<1>5. Bit!Shifted(v, Bit!Offset(i)) \in SUBSET Bit!OneChunk
  BY <1>2, <1>3, <1>4, MaskType
<1> QED
  BY <1>2, <1>3, <1>5 DEF Bit!UpdateChunk, Bit!OneChunk

\* The write of an element is read back, and the others of the chunk are what they were.
LEMMA Updated ==
  ASSUME NEW chunk \in SUBSET Bit!OneChunk, NEW i \in Nat, NEW v \in SUBSET (0 .. Bit!Width - 1)
  PROVE  /\ ElementOf(Bit!UpdateChunk(chunk, i, v), i) = v
         /\ \A j \in Nat : j # i /\ Bit!ChunkOf(j) = Bit!ChunkOf(i)
              => ElementOf(Bit!UpdateChunk(chunk, i, v), j) = ElementOf(chunk, j)
<1> DEFINE new == Bit!UpdateChunk(chunk, i, v)
<1>1. new \in SUBSET Bit!OneChunk
  BY UpdateHas
<1>2. ASSUME NEW b \in 0 .. Bit!Width - 1
      PROVE  b \in v <=> b + Bit!Offset(i) \in new
  <2>1. (b + Bit!Offset(i)) - Bit!Offset(i) = b /\ b + Bit!Offset(i) \in Int
    BY PlaceOf, WidthType
  <2>2. b + Bit!Offset(i) \in Bit!Mask(i)
    BY <2>1, MaskHas
  <2> QED
    BY <2>1, <2>2, UpdateHas
<1>3. ASSUME NEW j \in Nat, j # i, Bit!ChunkOf(j) = Bit!ChunkOf(i)
      PROVE  ElementOf(new, j) = ElementOf(chunk, j)
  <2>1. j % PerChunk # i % PerChunk
    <3>1. i \div PerChunk = j \div PerChunk
      BY <1>3, PlaceOf, SMT DEF Bit!ChunkOf
    <3> QED
      BY <1>3, <3>1, Division, BitsAssumption
  <2>2. ASSUME NEW b \in 0 .. Bit!Width - 1
        PROVE  b \in ElementOf(chunk, j) <=> b + Bit!Offset(j) \in new
    <3>1. b + Bit!Offset(j) \in Int /\ (b + Bit!Offset(j)) - Bit!Offset(i) \in Int
      BY PlaceOf, WidthType
    <3>2. \A y \in 0 .. Bit!Width - 1 : b + Bit!Offset(j) # y + Bit!Offset(i)
      <4>1. i % PerChunk \in Nat /\ j % PerChunk \in Nat
        BY Division, BitsAssumption
      <4> QED
        BY <2>1, <4>1, FieldsApart, WidthType DEF Bit!Offset
    <3>3. (b + Bit!Offset(j)) - Bit!Offset(i) \notin 0 .. Bit!Width - 1
      <4>1. Bit!Offset(i) \in Int /\ (b + Bit!Offset(j)) - Bit!Offset(i) + Bit!Offset(i) = b + Bit!Offset(j)
        BY <3>1, PlaceOf, WidthType
      <4> QED
        BY <3>2, <4>1
    <3>4. b + Bit!Offset(j) \notin Bit!Mask(i)
      BY <3>1, <3>3, MaskHas
    <3> QED
      BY <3>1, <3>4, UpdateHas, ElementHas
  <2>3. ElementOf(chunk, j) \in SUBSET (0 .. Bit!Width - 1)
    BY ElementHas
  <2> HIDE DEF new
  <2> QED
    BY <1>1, <2>2, <2>3, ElementIs
<1>4. ElementOf(new, i) = v
  <2> HIDE DEF new
  <2> QED
    BY <1>1, <1>2, ElementIs
<1> QED
  BY <1>3, <1>4
\* The number of chunks is the one that has the last element in its last chunk.
LEMMA ChunkNumIs ==
  ASSUME NEW n \in Nat
  PROVE  /\ Bit!ChunkNum(n) \in Nat
         /\ n <= Bit!ChunkNum(n) * PerChunk
         /\ Bit!ChunkNum(n) # 0 => (Bit!ChunkNum(n) - 1) * PerChunk < n
<1> DEFINE q == n \div PerChunk
           r == n % PerChunk
<1>1. q \in Nat /\ r \in 0 .. PerChunk - 1 /\ n = PerChunk * q + r
  BY Division, BitsAssumption
<1>2. Bit!ChunkNum(n) = q + (IF r # 0 THEN 1 ELSE 0)
  BY DEF Bit!ChunkNum, Bit!DivCeil
<1> HIDE DEF q, r
<1>3. CASE r = 0
  <2>1. Bit!ChunkNum(n) = q /\ (q # 0 => q - 1 \in Nat)
    BY <1>1, <1>2, <1>3
  <2>2. q * PerChunk = n
    BY <1>1, <1>3, BitsAssumption, SMT
  <2>3. q # 0 => (q - 1) * PerChunk < n
    BY <2>2, <1>1, BitsAssumption, SMT
  <2> QED
    BY <2>1, <2>2, <2>3, <1>1
<1>4. CASE r # 0
  <2>1. Bit!ChunkNum(n) = q + 1
    BY <1>1, <1>2, <1>4
  <2>2. (q + 1) * PerChunk = PerChunk * q + PerChunk
    BY <1>1, BitsAssumption, SMT
  <2>3. ((q + 1) - 1) * PerChunk = PerChunk * q
    BY <1>1, BitsAssumption, SMT
  <2> QED
    BY <2>1, <2>2, <2>3, <1>1, <1>4, BitsAssumption
<1> QED
  BY <1>3, <1>4

LEMMA ChunkNumIsUnique ==
  ASSUME NEW n \in Nat, NEW k \in Nat, n <= k * PerChunk, k # 0 => (k - 1) * PerChunk < n
  PROVE  Bit!ChunkNum(n) = k
<1> DEFINE m == Bit!ChunkNum(n)
<1>1. m \in Nat /\ n <= m * PerChunk /\ (m # 0 => (m - 1) * PerChunk < n)
  BY ChunkNumIs
<1> HIDE DEF m
<1>2. ASSUME NEW a \in Nat, NEW b \in Nat, a < b PROVE a * PerChunk <= (b - 1) * PerChunk
  <2>1. a <= b - 1 /\ b - 1 \in Nat
    BY <1>2
  <2> QED
    BY <2>1, BitsAssumption, SMT
<1>3. ~ (m < k)
  BY <1>1, <1>2, BitsAssumption
<1>4. ~ (k < m)
  BY <1>1, <1>2, BitsAssumption
<1> QED
  BY <1>1, <1>3, <1>4 DEF m

LEMMA ChunkOfIs ==
  ASSUME NEW i \in Nat, NEW k \in Nat \ {0}, (k - 1) * PerChunk <= i, i < k * PerChunk
  PROVE  Bit!ChunkOf(i) = k
<1> DEFINE q == i \div PerChunk
           r == i % PerChunk
<1>1. q \in Nat /\ r \in 0 .. PerChunk - 1 /\ i = PerChunk * q + r
  BY Division, BitsAssumption
<1> HIDE DEF q, r
<1>2. q = k - 1
  <2>1. q < k
    BY <1>1, BitsAssumption, SMT
  <2>2. k - 1 <= q
    BY <1>1, BitsAssumption, SMT
  <2> QED
    BY <2>1, <2>2, <1>1
<1> QED
  BY <1>2 DEF Bit!ChunkOf, q

LEMMA ChunkThere ==
  ASSUME NEW n \in Nat, NEW i \in Nat, i < n
  PROVE  Bit!ChunkOf(i) \in 1 .. Bit!ChunkNum(n)
<1> DEFINE q == i \div PerChunk
           m == Bit!ChunkNum(n)
<1>1. q \in Nat /\ PerChunk * q <= i
  BY Division, BitsAssumption
<1>2. m \in Nat /\ n <= m * PerChunk
  BY ChunkNumIs
<1> HIDE DEF q, m
<1>3. q < m
  BY <1>1, <1>2, BitsAssumption, SMT
<1> QED
  BY <1>1, <1>2, <1>3 DEF Bit!ChunkOf, q, m

-----------------------------------------------------------------------------
(* Bits that threads write *)

\* A write that is under way is one of an element there is.
PendingOK ==
  pc \in [Threads -> {Bit!Idle} \cup
            [op : {"plain", "cas"}, i : 0 .. size - 1, v : Bit!BitValues, seen : SUBSET Bit!OneChunk]]

\* What is behind the end has been written by nobody.
UnwrittenBehind == \A i \in 0 .. MaxSize - 1 : i >= size => want[i] = Bit!Unwritten

\* A claim that counts is one of a bit that is set, so the next one finds it set.
ClaimedAreSet ==
  \A i \in 0 .. MaxSize - 1 : claims[i] # 0 => claims[i] = 1 /\ kind = "dynamic" /\ want[i] = {0}

BitsInv ==
  Bit!BitsTypeOK /\ PendingOK /\ UnwrittenBehind /\ ClaimedAreSet /\ Bit!ElementsAreLastWrites

LEMMA ChunksAreThere ==
  ASSUME BitsInv, NEW i \in 0 .. size - 1
  PROVE  /\ i \in Nat /\ i \in 0 .. MaxSize - 1 /\ Bit!ChunkOf(i) \in 1 .. Len(chunks)
         /\ chunks[Bit!ChunkOf(i)] \in SUBSET Bit!OneChunk
<1>1. size \in 0 .. MaxSize /\ chunks \in Seq(SUBSET Bit!OneChunk) /\ Len(chunks) = Bit!ChunkNum(size)
  BY DEF BitsInv, Bit!BitsTypeOK
<1>2. i \in Nat /\ size \in Nat /\ i < size /\ i \in 0 .. MaxSize - 1
  BY <1>1, BitsAssumption
<1>3. Bit!ChunkOf(i) \in 1 .. Len(chunks)
  BY <1>1, <1>2, ChunkThere
<1> QED
  BY <1>1, <1>2, <1>3

\* The last step of a write: v is put into the chunk as it is, or as it was when another write has
\* come between, which spoils the chunk.
LEMMA SettleKeeps ==
  ASSUME BitsInv, torn = {},
         NEW t \in Threads, NEW i \in 0 .. size - 1, NEW v \in SUBSET (0 .. Bit!Width - 1),
         NEW base \in SUBSET Bit!OneChunk, NEW won \in BOOLEAN,
         Bit!Settle(t, i, Bit!UpdateChunk(base, i, v), v, won),
         \/ torn' = torn /\ base = chunks[Bit!ChunkOf(i)]
         \/ torn' = torn \cup {Bit!ChunkOf(i)},
         won => kind = "dynamic" /\ want[i] # {0}
  PROVE  BitsInv'
<1> DEFINE k == Bit!ChunkOf(i)
           new == Bit!UpdateChunk(base, i, v)
<1>1. /\ kind \in Bit!Kinds /\ size \in 0 .. MaxSize
      /\ chunks \in Seq(SUBSET Bit!OneChunk) /\ Len(chunks) = Bit!ChunkNum(size)
      /\ want \in [0 .. MaxSize - 1 -> {Bit!Unwritten} \cup SUBSET (0 .. Bit!Width - 1)]
      /\ claims \in [0 .. MaxSize - 1 -> 0 .. 2]
      /\ \A u \in Threads : pc[u].op \in {"idle", "plain", "cas"}
  BY DEF BitsInv, Bit!BitsTypeOK
<1>2. i \in Nat /\ i \in 0 .. MaxSize - 1 /\ k \in 1 .. Len(chunks)
  BY ChunksAreThere
<1>3. new \in SUBSET Bit!OneChunk
  BY <1>2, UpdateHas
<1>4. /\ chunks' = [chunks EXCEPT ![k] = new] /\ want' = [want EXCEPT ![i] = v]
      /\ claims' = [claims EXCEPT ![i] = IF v = {} THEN 0 ELSE IF won THEN claims[i] + 1 ELSE claims[i]]
      /\ pc' = [pc EXCEPT ![t] = Bit!Idle] /\ kind' = kind /\ size' = size
  BY DEF Bit!Settle
<1>5. Bit!Width' = Bit!Width /\ Bit!ChunkBits' = Bit!ChunkBits /\ Bit!OneChunk' = Bit!OneChunk
      /\ Bit!BitValues' = Bit!BitValues
  BY <1>4 DEF Bit!Width, Bit!ChunkBits, Bit!OneChunk, Bit!BitValues
<1> HIDE DEF k, new
<1>6. chunks' \in Seq(SUBSET Bit!OneChunk) /\ Len(chunks') = Len(chunks)
      /\ chunks'[k] = new /\ \A l \in 1 .. Len(chunks) : l # k => chunks'[l] = chunks[l]
  BY <1>1, <1>2, <1>3, <1>4
<1>7. want' \in [0 .. MaxSize - 1 -> {Bit!Unwritten} \cup SUBSET (0 .. Bit!Width - 1)]
      /\ want'[i] = v /\ \A j \in 0 .. MaxSize - 1 : j # i => want'[j] = want[j]
  BY <1>1, <1>2, <1>4
<1>8. /\ DOMAIN claims' = 0 .. MaxSize - 1 /\ claims' = [j \in 0 .. MaxSize - 1 |-> claims'[j]]
      /\ claims'[i] = IF v = {} THEN 0 ELSE IF won THEN claims[i] + 1 ELSE claims[i]
      /\ \A j \in 0 .. MaxSize - 1 : j # i => claims'[j] = claims[j]
  BY <1>1, <1>2, <1>4
<1>9. ClaimedAreSet'
  <2>1. ASSUME NEW j \in 0 .. MaxSize - 1, claims'[j] # 0
        PROVE  claims'[j] = 1 /\ kind = "dynamic" /\ want'[j] = {0}
    <3>1. CASE j # i
      BY <2>1, <3>1, <1>7, <1>8 DEF BitsInv, ClaimedAreSet
    <3>2. CASE j = i
      <4>1. v # {} /\ claims'[i] = IF won THEN claims[i] + 1 ELSE claims[i]
        BY <2>1, <3>2, <1>8
      <4>2. won => claims[i] = 0
        BY <1>2 DEF BitsInv, ClaimedAreSet
      <4>3. ~ won => claims[i] = 1 /\ kind = "dynamic"
        BY <2>1, <3>2, <4>1, <1>2 DEF BitsInv, ClaimedAreSet
      <4>4. kind = "dynamic" /\ claims'[i] = 1
        BY <4>1, <4>2, <4>3
      <4>5. Bit!Width = 1
        BY <4>4 DEF Bit!Width
      <4>6. v = {0}
        <5>1. 0 .. Bit!Width - 1 = {0}
          BY <4>5
        <5> QED
          BY <4>1, <5>1
      <4> QED
        BY <3>2, <4>4, <4>6, <1>7
    <3> QED
      BY <3>1, <3>2
  <2> QED
    BY <2>1, <1>4 DEF ClaimedAreSet
<1>10. claims' \in [0 .. MaxSize - 1 -> 0 .. 2]
  <2>1. \A j \in 0 .. MaxSize - 1 : claims'[j] \in 0 .. 2
    BY <1>9 DEF ClaimedAreSet
  <2> QED
    BY <2>1, <1>8
<1>11. PendingOK'
  BY <1>4, <1>5 DEF BitsInv, PendingOK
<1>12. UnwrittenBehind'
  BY <1>2, <1>4, <1>7, <1>1 DEF BitsInv, UnwrittenBehind
<1>13. torn' \subseteq {k}
  BY DEF k
<1>14. Bit!BitsTypeOK'
  <2>1. \A u \in Threads : pc'[u].op \in {"idle", "plain", "cas"}
    BY <1>11 DEF PendingOK, Bit!Idle
  <2>2. torn' \subseteq 1 .. Len(chunks')
    BY <1>2, <1>6, <1>13
  <2>3. Len(chunks') = Bit!ChunkNum(size')
    BY <1>1, <1>4, <1>6
  <2> QED
    BY <2>1, <2>2, <2>3, <1>1, <1>4, <1>5, <1>6, <1>7, <1>10 DEF Bit!BitsTypeOK
<1>15. Bit!ElementsAreLastWrites'
  <2>1. ASSUME NEW j \in 0 .. size - 1
        PROVE  want'[j] = Bit!Unwritten \/ Bit!ChunkOf(j) \in torn'
                 \/ ElementOf(chunks'[Bit!ChunkOf(j)], j) = want'[j]
    <3>1. /\ j \in Nat /\ j \in 0 .. MaxSize - 1 /\ Bit!ChunkOf(j) \in 1 .. Len(chunks)
          /\ want[j] = Bit!Unwritten \/ ElementOf(chunks[Bit!ChunkOf(j)], j) = want[j]
      BY ChunksAreThere DEF BitsInv, Bit!ElementsAreLastWrites, Bit!Get, ElementOf
    <3>2. CASE j = i
      BY <3>2, <1>2, <1>6, <1>7, Updated DEF k, new
    <3>3. CASE j # i /\ Bit!ChunkOf(j) # k
      BY <3>1, <3>3, <1>6, <1>7
    <3>4. CASE j # i /\ Bit!ChunkOf(j) = k
      <4>1. CASE torn' = torn \cup {k}
        BY <3>4, <4>1
      <4>2. CASE base = chunks[k]
        <5>1. ElementOf(new, j) = ElementOf(chunks[k], j)
          BY <3>1, <3>4, <4>2, <1>2, Updated DEF k, new
        <5> QED
          BY <5>1, <3>1, <3>4, <1>6, <1>7
      <4> QED
        BY <4>1, <4>2 DEF k
    <3> QED
      BY <3>2, <3>3, <3>4
  <2>2. ASSUME NEW j \in 0 .. size - 1
        PROVE  Bit!Get(j)' = ElementOf(chunks'[Bit!ChunkOf(j)], j)
    BY <1>4 DEF Bit!Get, ElementOf, Bit!Mask, Bit!Offset, Bit!Width
  <2> QED
    BY <2>1, <2>2, <1>4 DEF Bit!ElementsAreLastWrites
<1> QED
  BY <1>9, <1>11, <1>12, <1>14, <1>15 DEF BitsInv

\* An operation of a single owner gives the structure n elements in the chunks c.
LEMMA BecomesKeeps ==
  ASSUME BitsInv, torn = {},
         NEW c \in Seq(SUBSET Bit!OneChunk), NEW n \in 0 .. MaxSize, NEW w,
         Len(c) = Bit!ChunkNum(n),
         \A i \in 0 .. n - 1 :
           \/ w[i] = Bit!Unwritten
           \/ w[i] \in SUBSET (0 .. Bit!Width - 1) /\ ElementOf(c[Bit!ChunkOf(i)], i) = w[i],
         Bit!Becomes(c, n, w)
  PROVE  BitsInv'
<1>1. /\ chunks' = c /\ size' = n /\ kind' = kind /\ pc' = pc
      /\ want' = [i \in 0 .. MaxSize - 1 |-> IF i < n THEN w[i] ELSE Bit!Unwritten]
      /\ claims' = [i \in 0 .. MaxSize - 1 |-> 0]
      /\ torn' = {}
      /\ \A t \in Threads : pc[t].op = "idle"
  BY DEF Bit!Becomes, Bit!Quiet
<1>2. Bit!Width' = Bit!Width /\ Bit!ChunkBits' = Bit!ChunkBits /\ Bit!OneChunk' = Bit!OneChunk
  BY <1>1 DEF Bit!Width, Bit!ChunkBits, Bit!OneChunk
<1>3. n \in Nat /\ n <= MaxSize
  BY BitsAssumption
<1>4. \A i \in 0 .. MaxSize - 1 : want'[i] = IF i < n THEN w[i] ELSE Bit!Unwritten
  BY <1>1
<1>5. want' \in [0 .. MaxSize - 1 -> {Bit!Unwritten} \cup SUBSET (0 .. Bit!Width - 1)]
  <2>1. \A i \in 0 .. MaxSize - 1 :
          (IF i < n THEN w[i] ELSE Bit!Unwritten) \in {Bit!Unwritten} \cup SUBSET (0 .. Bit!Width - 1)
    BY <1>3
  <2> QED
    BY <1>1, <2>1
<1>6. claims' \in [0 .. MaxSize - 1 -> 0 .. 2] /\ ClaimedAreSet'
  BY <1>1 DEF ClaimedAreSet
<1>7. pc = [t \in Threads |-> Bit!Idle]
  <2>1. pc \in [Threads -> {Bit!Idle} \cup
                  [op : {"plain", "cas"}, i : 0 .. size - 1, v : Bit!BitValues, seen : SUBSET Bit!OneChunk]]
    BY DEF BitsInv, PendingOK
  <2>2. \A t \in Threads : pc[t] = Bit!Idle
    BY <2>1, <1>1
  <2> QED
    BY <2>1, <2>2
<1>8. PendingOK'
  BY <1>1, <1>7 DEF PendingOK
<1>9. UnwrittenBehind'
  BY <1>1, <1>3, <1>4 DEF UnwrittenBehind
<1>10. Bit!BitsTypeOK'
  <2>1. \A t \in Threads : pc'[t].op \in {"idle", "plain", "cas"}
    BY <1>1
  <2>2. kind \in Bit!Kinds
    BY DEF BitsInv, Bit!BitsTypeOK
  <2> QED
    BY <1>1, <1>2, <1>5, <1>6, <2>1, <2>2 DEF Bit!BitsTypeOK
<1>11. Bit!ElementsAreLastWrites'
  <2>1. ASSUME NEW i \in 0 .. n - 1
        PROVE  want'[i] = Bit!Unwritten \/ Bit!Get(i)' = want'[i]
    <3>1. want'[i] = w[i]
      <4>1. i \in 0 .. MaxSize - 1 /\ i < n
        BY <1>3, BitsAssumption
      <4> QED
        BY <1>4, <4>1
    <3>2. Bit!Get(i)' = ElementOf(c[Bit!ChunkOf(i)], i)
      BY <1>1 DEF Bit!Get, ElementOf, Bit!Mask, Bit!Offset, Bit!Width
    <3> QED
      BY <3>1, <3>2
  <2> QED
    BY <2>1, <1>1 DEF Bit!ElementsAreLastWrites
<1> QED
  BY <1>6, <1>8, <1>9, <1>10, <1>11 DEF BitsInv

-----------------------------------------------------------------------------
(* What a single owner does *)

LEMMA OneBitWide ==
  ASSUME kind # "ints"
  PROVE  /\ Bit!Width = 1 /\ Bit!ChunkBits = PerChunk /\ 0 .. Bit!Width - 1 = {0}
         /\ Bit!BitValues = {{}, {0}}
         /\ \A i \in Nat : Bit!Offset(i) = i % PerChunk
<1>1. Bit!Width = 1 /\ PerChunk * 1 = PerChunk
  BY BitsAssumption DEF Bit!Width
<1>2. \A i \in Nat : i % PerChunk \in Int
  BY Division, BitsAssumption
<1> QED
  BY <1>1, <1>2, SMT DEF Bit!ChunkBits, Bit!BitValues, Bit!Offset

LEMMA ValuesFit == Bit!BitValues \subseteq SUBSET (0 .. Bit!Width - 1)
BY DEF Bit!BitValues

LEMMA EmptyAndFull ==
  ASSUME NEW i \in Nat
  PROVE  /\ ElementOf({}, i) = {}
         /\ ElementOf(Bit!OneChunk, i) = 0 .. Bit!Width - 1
<1>1. {} \in SUBSET Bit!OneChunk /\ Bit!OneChunk \in SUBSET Bit!OneChunk
  OBVIOUS
<1>2. ElementOf({}, i) = {}
  BY <1>1, ElementHas
<1>3. \A b \in 0 .. Bit!Width - 1 : b + Bit!Offset(i) \in Bit!OneChunk
  BY PlaceOf, WidthType DEF Bit!OneChunk
<1>4. ElementOf(Bit!OneChunk, i) = 0 .. Bit!Width - 1
  BY <1>1, <1>3, ElementIs
<1> QED
  BY <1>2, <1>4

LEMMA FillKeeps ==
  ASSUME BitsInv, torn = {}, NEW v \in Bit!BitValues, Bit!Fill(v)
  PROVE  BitsInv'
<1> DEFINE c == [k \in 1 .. Len(chunks) |-> IF v = {} THEN {} ELSE Bit!OneChunk]
           w == [i \in 0 .. MaxSize - 1 |-> v]
<1>1. kind # "ints" /\ Bit!Becomes(c, size, w)
  BY DEF Bit!Fill
<1>2. size \in 0 .. MaxSize /\ size \in Nat /\ Len(chunks) \in Nat /\ Len(chunks) = Bit!ChunkNum(size)
  BY BitsAssumption DEF BitsInv, Bit!BitsTypeOK
<1>3. c \in Seq(SUBSET Bit!OneChunk) /\ Len(c) = Len(chunks)
  BY <1>2
<1>4. v = {} \/ v = 0 .. Bit!Width - 1
  BY DEF Bit!BitValues
<1>5. ASSUME NEW i \in 0 .. size - 1
      PROVE  w[i] \in SUBSET (0 .. Bit!Width - 1) /\ ElementOf(c[Bit!ChunkOf(i)], i) = w[i]
  <2>1. i \in Nat /\ w[i] = v /\ Bit!ChunkOf(i) \in 1 .. Len(chunks)
    BY ChunksAreThere
  <2>2. c[Bit!ChunkOf(i)] = IF v = {} THEN {} ELSE Bit!OneChunk
    BY <2>1
  <2> HIDE DEF c, w
  <2>3. CASE v = {}
    BY <2>1, <2>2, <2>3, EmptyAndFull
  <2>4. CASE v # {}
    BY <2>1, <2>2, <2>4, <1>4, EmptyAndFull
  <2> QED
    BY <2>3, <2>4
<1> HIDE DEF c, w
<1> QED
  BY <1>1, <1>2, <1>3, <1>5, BecomesKeeps

\* The chunk that has one value in all of its places.
LEMMA Repeated ==
  ASSUME kind = "ints", NEW v \in Bit!BitValues
  PROVE  LET all == UNION {Bit!Shifted(v, IntWidth * j) : j \in 0 .. PerChunk - 1}
         IN  all = IF v = {} THEN {} ELSE Bit!OneChunk
<1> DEFINE all == UNION {Bit!Shifted(v, IntWidth * j) : j \in 0 .. PerChunk - 1}
<1>1. /\ Bit!Width = IntWidth /\ IntWidth \in Nat \ {0} /\ PerChunk \in Nat \ {0}
      /\ Bit!OneChunk = 0 .. PerChunk * IntWidth - 1
  BY BitsAssumption DEF Bit!Width, Bit!OneChunk, Bit!ChunkBits
<1>2. CASE v = {}
  <2>1. \A j \in 0 .. PerChunk - 1 : Bit!Shifted({}, IntWidth * j) = {}
    BY DEF Bit!Shifted
  <2> QED
    BY <1>2, <2>1
<1>3. CASE v # {}
  <2>1. v = 0 .. IntWidth - 1 /\ v \in SUBSET Int
    BY <1>1, <1>3 DEF Bit!BitValues
  <2>2. ASSUME NEW j \in 0 .. PerChunk - 1
        PROVE  /\ Bit!Shifted(v, IntWidth * j) \in SUBSET Int
               /\ \A b \in Int : b \in Bit!Shifted(v, IntWidth * j)
                                  <=> b - IntWidth * j \in 0 .. IntWidth - 1
    <3>1. IntWidth * j \in Int
      BY <1>1, SMT
    <3> QED
      BY <2>1, <3>1, ShiftedHas, ShiftedType
  <2>3. ASSUME NEW j \in 0 .. PerChunk - 1, NEW b \in Bit!Shifted(v, IntWidth * j)
        PROVE  b \in Bit!OneChunk
    <3>1. b \in Int /\ b - IntWidth * j \in 0 .. IntWidth - 1
      BY <2>2, <2>3
    <3>2. IntWidth * j + IntWidth <= IntWidth * PerChunk /\ IntWidth * j \in Nat
      BY <1>1, MultiplesApart, SMT
    <3>3. IntWidth * PerChunk = PerChunk * IntWidth
      BY <1>1, SMT
    <3> QED
      BY <3>1, <3>2, <3>3, <1>1
  <2>4. ASSUME NEW b \in Bit!OneChunk
        PROVE  \E j \in 0 .. PerChunk - 1 : b \in Bit!Shifted(v, IntWidth * j)
    <3> DEFINE j == b \div IntWidth
               r == b % IntWidth
    <3>1. b \in Nat /\ b < PerChunk * IntWidth
      BY <1>1, SMT
    <3>2. j \in Nat /\ r \in 0 .. IntWidth - 1 /\ b = IntWidth * j + r
      BY <3>1, <1>1, Division
    <3> HIDE DEF j, r
    <3>3. j < PerChunk
      BY <3>1, <3>2, <1>1, SMT
    <3>4. IntWidth * j \in Int /\ b - IntWidth * j = r
      BY <3>2, <1>1, SMT
    <3>5. j \in 0 .. PerChunk - 1
      BY <3>2, <3>3, <1>1
    <3> QED
      BY <3>1, <3>2, <3>4, <3>5, <2>2
  <2>5. all = Bit!OneChunk
    BY <2>3, <2>4
  <2> QED
    BY <2>5, <1>3
<1> QED
  BY <1>2, <1>3

LEMMA FillIntegersKeeps ==
  ASSUME BitsInv, torn = {}, NEW v \in Bit!BitValues, Bit!FillIntegers(v)
  PROVE  BitsInv'
<1> DEFINE one == UNION {Bit!Shifted(v, IntWidth * j) : j \in 0 .. PerChunk - 1}
           c == [k \in 1 .. Len(chunks) |-> one]
           w == [i \in 0 .. MaxSize - 1 |-> v]
<1>1. kind = "ints" /\ Bit!Becomes(c, size, w)
  BY DEF Bit!FillIntegers
<1>2. one = IF v = {} THEN {} ELSE Bit!OneChunk
  BY <1>1, Repeated
<1> HIDE DEF one
<1>3. size \in 0 .. MaxSize /\ size \in Nat /\ Len(chunks) \in Nat /\ Len(chunks) = Bit!ChunkNum(size)
  BY BitsAssumption DEF BitsInv, Bit!BitsTypeOK
<1>4. c \in Seq(SUBSET Bit!OneChunk) /\ Len(c) = Len(chunks)
  BY <1>2, <1>3
<1>5. v = {} \/ v = 0 .. Bit!Width - 1
  BY DEF Bit!BitValues
<1>6. ASSUME NEW i \in 0 .. size - 1
      PROVE  w[i] \in SUBSET (0 .. Bit!Width - 1) /\ ElementOf(c[Bit!ChunkOf(i)], i) = w[i]
  <2>1. i \in Nat /\ w[i] = v /\ c[Bit!ChunkOf(i)] = one
    BY ChunksAreThere
  <2> HIDE DEF c, w
  <2>2. CASE v = {}
    BY <1>2, <2>1, <2>2, EmptyAndFull
  <2>3. CASE v # {}
    BY <1>2, <2>1, <2>3, <1>5, EmptyAndFull
  <2> QED
    BY <2>2, <2>3
<1> HIDE DEF c, w
<1> QED
  BY <1>1, <1>3, <1>4, <1>6, BecomesKeeps

LEMMA ClearKeeps ==
  ASSUME BitsInv, torn = {}, Bit!Clear
  PROVE  BitsInv'
<1>1. Bit!Becomes(<<>>, 0, want) /\ 0 \in 0 .. MaxSize
  BY BitsAssumption DEF Bit!Clear
<1>2. Bit!ChunkNum(0) = 0
  BY ChunkNumIsUnique, BitsAssumption, SMT
<1>3. <<>> \in Seq(SUBSET Bit!OneChunk) /\ Len(<<>>) = 0
  OBVIOUS
<1>4. 0 .. 0 - 1 = {}
  OBVIOUS
<1> QED
  BY <1>1, <1>2, <1>3, <1>4, BecomesKeeps

LEMMA ResizeKeeps ==
  ASSUME BitsInv, torn = {}, NEW n \in 0 .. MaxSize, Bit!Resize(n)
  PROVE  BitsInv'
<1>1. PICK g \in Bit!Garbage :
        Bit!Becomes([k \in 1 .. Bit!ChunkNum(n) |-> IF k <= Len(chunks) THEN chunks[k] ELSE g], n, want)
  BY DEF Bit!Resize
<1> DEFINE c == [k \in 1 .. Bit!ChunkNum(n) |-> IF k <= Len(chunks) THEN chunks[k] ELSE g]
<1>2. g \in SUBSET Bit!OneChunk
  BY DEF Bit!Garbage
<1>3. /\ chunks \in Seq(SUBSET Bit!OneChunk) /\ size \in 0 .. MaxSize /\ size \in Nat
      /\ want \in [0 .. MaxSize - 1 -> {Bit!Unwritten} \cup SUBSET (0 .. Bit!Width - 1)]
  BY BitsAssumption DEF BitsInv, Bit!BitsTypeOK
<1>4. n \in Nat /\ Bit!ChunkNum(n) \in Nat
  BY ChunkNumIs, BitsAssumption
<1>5. c \in Seq(SUBSET Bit!OneChunk) /\ Len(c) = Bit!ChunkNum(n)
  <2>1. \A k \in 1 .. Bit!ChunkNum(n) :
          (IF k <= Len(chunks) THEN chunks[k] ELSE g) \in SUBSET Bit!OneChunk
    BY <1>2, <1>3
  <2> QED
    BY <1>4, <2>1
<1>6. ASSUME NEW i \in 0 .. n - 1
      PROVE  \/ want[i] = Bit!Unwritten
             \/ want[i] \in SUBSET (0 .. Bit!Width - 1) /\ ElementOf(c[Bit!ChunkOf(i)], i) = want[i]
  <2>1. i \in Nat /\ i \in 0 .. MaxSize - 1 /\ i < n
    BY <1>4, BitsAssumption
  <2>2. CASE i >= size
    BY <2>1, <2>2 DEF BitsInv, UnwrittenBehind
  <2>3. CASE i < size
    <3>1. i \in 0 .. size - 1
      BY <1>3, <2>1, <2>3
    <3>2. Bit!ChunkOf(i) \in 1 .. Len(chunks) /\ Bit!ChunkOf(i) \in 1 .. Bit!ChunkNum(n)
      BY <3>1, <2>1, <1>4, ChunksAreThere, ChunkThere
    <3>3. c[Bit!ChunkOf(i)] = chunks[Bit!ChunkOf(i)]
      BY <3>2, <1>3
    <3>4. want[i] = Bit!Unwritten \/ ElementOf(chunks[Bit!ChunkOf(i)], i) = want[i]
      BY <3>1 DEF BitsInv, Bit!ElementsAreLastWrites, Bit!Get, ElementOf
    <3>5. want[i] = Bit!Unwritten \/ want[i] \in SUBSET (0 .. Bit!Width - 1)
      BY <2>1, <1>3
    <3> QED
      BY <3>3, <3>4, <3>5
  <2> QED
    BY <1>3, <2>1, <2>2, <2>3
<1>7. Bit!Becomes(c, n, want)
  BY <1>1
<1> HIDE DEF c
<1> QED
  BY <1>5, <1>6, <1>7, BecomesKeeps

\* A bit goes into a chunk of its own when the last one is full, and into the last one otherwise.
LEMMA PushBackKeeps ==
  ASSUME BitsInv, torn = {}, NEW v \in Bit!BitValues, Bit!PushBack(v)
  PROVE  BitsInv'
<1> DEFINE w == [want EXCEPT ![size] = v]
           last == Len(chunks)
           c == IF size = last * Bit!ChunkBits THEN Append(chunks, v)
                ELSE [chunks EXCEPT ![last] = Bit!UpdateChunk(chunks[last], size, v)]
<1>1. kind = "dynamic" /\ size < MaxSize /\ Bit!Becomes(c, size + 1, w)
  BY DEF Bit!PushBack
<1>2. /\ chunks \in Seq(SUBSET Bit!OneChunk) /\ last \in Nat /\ last = Bit!ChunkNum(size)
      /\ size \in Nat /\ size + 1 \in 0 .. MaxSize /\ size \in 0 .. MaxSize - 1
      /\ want \in [0 .. MaxSize - 1 -> {Bit!Unwritten} \cup SUBSET (0 .. Bit!Width - 1)]
  BY <1>1, BitsAssumption DEF BitsInv, Bit!BitsTypeOK
<1>3. /\ Bit!Width = 1 /\ Bit!ChunkBits = PerChunk /\ 0 .. Bit!Width - 1 = {0}
      /\ v \in {{}, {0}} /\ Bit!Offset(size) = size % PerChunk /\ PerChunk \in Nat \ {0}
  BY <1>1, <1>2, OneBitWide, BitsAssumption
<1>4. size <= last * PerChunk /\ (last # 0 => (last - 1) * PerChunk < size)
  BY <1>2, ChunkNumIs
<1>5. w[size] = v /\ \A i \in 0 .. size - 1 : w[i] = want[i]
  BY <1>2
<1> HIDE DEF w, last
<1>6. c \in Seq(SUBSET Bit!OneChunk) /\ Len(c) = Bit!ChunkNum(size + 1)
      /\ ElementOf(c[Bit!ChunkOf(size)], size) = v
      /\ \A i \in 0 .. size - 1 :
           ElementOf(c[Bit!ChunkOf(i)], i) = ElementOf(chunks[Bit!ChunkOf(i)], i)
  <2>1. CASE size = last * PerChunk
    <3>1. c = Append(chunks, v) /\ v \in SUBSET Bit!OneChunk
      BY <1>3, <2>1 DEF Bit!OneChunk
    <3>2. /\ last + 1 \in Nat /\ ((last + 1) - 1) * PerChunk = last * PerChunk
          /\ (last + 1) * PerChunk = last * PerChunk + PerChunk
          /\ last * PerChunk \in Nat
      BY <1>2, <1>3, SMT
    <3>3. Bit!ChunkNum(size + 1) = last + 1 /\ Bit!ChunkOf(size) = last + 1
      <4>1. /\ size + 1 <= (last + 1) * PerChunk /\ ((last + 1) - 1) * PerChunk < size + 1
            /\ ((last + 1) - 1) * PerChunk <= size /\ size < (last + 1) * PerChunk
        <5>1. size \in Nat /\ PerChunk \in Nat /\ PerChunk >= 1
          BY <1>2, <1>3
        <5> QED
          BY <2>1, <3>2, <5>1
      <4> QED
        BY <4>1, <3>2, <1>2, ChunkNumIsUnique, ChunkOfIs
    <3>4. size % PerChunk = 0
      <4>1. size = PerChunk * last
        BY <2>1, <1>2, <1>3, SMT
      <4> QED
        BY <4>1, <1>2, BitsAssumption, MultipleIs
    <3>5. ElementOf(v, size) = v
      <4>1. \A b \in 0 .. Bit!Width - 1 : b + Bit!Offset(size) = b
        BY <3>4, <1>3
      <4>2. v \in SUBSET (0 .. Bit!Width - 1)
        BY <1>3
      <4>3. \A b \in 0 .. Bit!Width - 1 : b \in v <=> b + Bit!Offset(size) \in v
        BY <4>1, Zenon
      <4> QED
        BY <3>1, <4>2, <4>3, <1>2, ElementIs
    <3>6. /\ c \in Seq(SUBSET Bit!OneChunk) /\ Len(c) = last + 1 /\ c[last + 1] = v
          /\ \A k \in 1 .. last : c[k] = chunks[k]
      BY <3>1, <1>2 DEF last
    <3>7. \A i \in 0 .. size - 1 : Bit!ChunkOf(i) \in 1 .. last
      BY ChunksAreThere DEF last
    <3> HIDE DEF c
    <3> QED
      BY <3>3, <3>5, <3>6, <3>7
  <2>2. CASE size # last * PerChunk
    <3>1. size < last * PerChunk /\ last # 0 /\ last \in Nat
      BY <2>2, <1>2, <1>3, <1>4, SMT
    <3>2. Bit!ChunkNum(size + 1) = last /\ Bit!ChunkOf(size) = last
      <4>1. /\ last * PerChunk \in Nat /\ (last - 1) * PerChunk \in Int
            /\ size + 1 \in Nat /\ last \in Nat \ {0}
        BY <3>1, <1>2, <1>3, SMT
      <4>2. size + 1 <= last * PerChunk /\ (last - 1) * PerChunk < size + 1 /\ (last - 1) * PerChunk <= size
        BY <4>1, <3>1, <1>2, <1>4
      <4> QED
        BY <4>1, <4>2, <3>1, <1>2, ChunkNumIsUnique, ChunkOfIs
    <3> DEFINE new == Bit!UpdateChunk(chunks[last], size, v)
    <3>3. c = [chunks EXCEPT ![last] = new]
      BY <2>2, <1>3
    <3>4. chunks[last] \in SUBSET Bit!OneChunk /\ last \in 1 .. Len(chunks)
      BY <3>1, <1>2 DEF last
    <3>5. /\ new \in SUBSET Bit!OneChunk /\ ElementOf(new, size) = v
          /\ \A j \in Nat : j # size /\ Bit!ChunkOf(j) = last => ElementOf(new, j) = ElementOf(chunks[last], j)
      <4>1. v \in SUBSET (0 .. Bit!Width - 1)
        BY <1>3
      <4>2. size \in Nat
        BY <1>2
      <4>3. new \in SUBSET Bit!OneChunk
        BY <3>4, <4>1, <4>2, UpdateHas
      <4>4. /\ ElementOf(new, size) = v
            /\ \A j \in Nat : j # size /\ Bit!ChunkOf(j) = Bit!ChunkOf(size)
                 => ElementOf(new, j) = ElementOf(chunks[last], j)
        BY <3>4, <4>1, <4>2, Updated
      <4> HIDE DEF new, c
      <4> QED
        BY <3>2, <4>3, <4>4
    <3> HIDE DEF new
    <3>6. /\ c \in Seq(SUBSET Bit!OneChunk) /\ Len(c) = last /\ c[last] = new
          /\ \A k \in 1 .. last : k # last => c[k] = chunks[k]
      <4>1. chunks \in Seq(SUBSET Bit!OneChunk) /\ last = Len(chunks)
        BY <1>2 DEF last
      <4> HIDE DEF c
      <4> QED
        BY <3>3, <3>4, <3>5, <4>1
    <3>7. \A i \in 0 .. size - 1 : i \in Nat /\ i # size /\ Bit!ChunkOf(i) \in 1 .. last
      BY <1>2, ChunksAreThere DEF last
    <3> HIDE DEF c
    <3> QED
      BY <3>2, <3>5, <3>6, <3>7
  <2> QED
    BY <2>1, <2>2
<1>7. ASSUME NEW i \in 0 .. (size + 1) - 1
      PROVE  \/ w[i] = Bit!Unwritten
             \/ w[i] \in SUBSET (0 .. Bit!Width - 1) /\ ElementOf(c[Bit!ChunkOf(i)], i) = w[i]
  <2> HIDE DEF c
  <2>1. CASE i = size
    BY <2>1, <1>3, <1>5, <1>6
  <2>2. CASE i # size
    <3>1. i \in 0 .. size - 1 /\ i \in 0 .. MaxSize - 1
      <4>1. size \in Nat /\ MaxSize \in Nat /\ size < MaxSize
        BY <1>1, <1>2, BitsAssumption
      <4> QED
        BY <2>2, <4>1
    <3>2. want[i] = Bit!Unwritten \/ ElementOf(chunks[Bit!ChunkOf(i)], i) = want[i]
      BY <3>1 DEF BitsInv, Bit!ElementsAreLastWrites, Bit!Get, ElementOf
    <3>3. want[i] = Bit!Unwritten \/ want[i] \in SUBSET (0 .. Bit!Width - 1)
      BY <3>1, <1>2
    <3> QED
      BY <3>1, <3>2, <3>3, <1>5, <1>6
  <2> QED
    BY <2>1, <2>2
<1> HIDE DEF c
<1> QED
  BY <1>1, <1>2, <1>6, <1>7, BecomesKeeps

\* Each chunk is made from the bits that it is to have.
LEMMA FromBitsKeeps ==
  ASSUME BitsInv, torn = {}, NEW bits \in [1 .. size -> {{}, {0}}], Bit!FromBits(bits)
  PROVE  BitsInv'
<1> DEFINE c == [k \in 1 .. Bit!ChunkNum(Len(bits)) |-> Bit!GeneratedChunk(bits, k)]
           w == [i \in 0 .. MaxSize - 1 |-> IF i < size THEN bits[i + 1] ELSE {}]
<1>1. kind \in {"fixed", "static"} /\ Bit!Becomes(c, size, w)
  BY DEF Bit!FromBits
<1>2. size \in Nat /\ size \in 0 .. MaxSize /\ Len(bits) = size /\ Bit!ChunkNum(size) \in Nat
  BY ChunkNumIs, BitsAssumption DEF BitsInv, Bit!BitsTypeOK
<1>3. /\ Bit!Width = 1 /\ Bit!ChunkBits = PerChunk /\ 0 .. Bit!Width - 1 = {0}
      /\ \A i \in Nat : Bit!Offset(i) = i % PerChunk
  BY <1>1, OneBitWide
<1>4. \A k \in 1 .. Bit!ChunkNum(size) : Bit!GeneratedChunk(bits, k) \in SUBSET Bit!OneChunk
  BY DEF Bit!GeneratedChunk, Bit!OneChunk
<1>5. c \in Seq(SUBSET Bit!OneChunk) /\ Len(c) = Bit!ChunkNum(size)
  BY <1>2, <1>4
<1>6. ASSUME NEW i \in 0 .. size - 1
      PROVE  w[i] \in SUBSET (0 .. Bit!Width - 1) /\ ElementOf(c[Bit!ChunkOf(i)], i) = w[i]
  <2>1. i \in Nat /\ i < size /\ i \in 0 .. MaxSize - 1 /\ i + 1 \in 1 .. size
    BY <1>2, BitsAssumption
  <2>2. w[i] = bits[i + 1] /\ bits[i + 1] \in {{}, {0}}
    BY <2>1
  <2>3. Bit!ChunkOf(i) \in 1 .. Bit!ChunkNum(size)
    BY <1>2, <2>1, ChunkThere
  <2>4. c[Bit!ChunkOf(i)] = Bit!GeneratedChunk(bits, Bit!ChunkOf(i))
    BY <1>2, <2>3
  <2>5. 0 \in bits[i + 1] <=> 0 + Bit!Offset(i) \in Bit!GeneratedChunk(bits, Bit!ChunkOf(i))
    <3> DEFINE q == i \div PerChunk
               r == i % PerChunk
    <3>1. q \in Nat /\ r \in 0 .. PerChunk - 1 /\ i = PerChunk * q + r
      BY <2>1, Division, BitsAssumption
    <3>2. 0 + Bit!Offset(i) = r /\ Bit!ChunkOf(i) = 1 + q
      BY <1>3, <2>1, <3>1 DEF Bit!ChunkOf
    <3> HIDE DEF q, r
    <3>3. ((1 + q) - 1) * PerChunk + r = i
      BY <3>1, BitsAssumption, SMT
    <3>4. Bit!GeneratedChunk(bits, 1 + q)
            = {j \in 0 .. PerChunk - 1 : ((1 + q) - 1) * PerChunk + j < Len(bits)
                                       /\ bits[((1 + q) - 1) * PerChunk + j + 1] = {0}}
      BY <1>3 DEF Bit!GeneratedChunk
    <3>5. r \in Bit!GeneratedChunk(bits, 1 + q) <=> i < Len(bits) /\ bits[i + 1] = {0}
      <4>1. ((1 + q) - 1) * PerChunk + r + 1 = i + 1
        BY <3>1, <3>3, BitsAssumption, SMT
      <4> QED
        BY <3>1, <3>3, <3>4, <4>1, Zenon
    <3> QED
      BY <3>2, <3>5, <2>1, <2>2, <1>2
  <2> HIDE DEF c, w
  <2>6. w[i] \in SUBSET (0 .. Bit!Width - 1)
    BY <2>2, <1>3
  <2>7. c[Bit!ChunkOf(i)] \in SUBSET Bit!OneChunk
    BY <2>3, <2>4, <1>4
  <2> QED
    BY <2>1, <2>2, <2>4, <2>5, <2>6, <2>7, <1>3, ElementIs
<1> HIDE DEF c, w
<1>7. Len(c) = Bit!ChunkNum(size)
  BY <1>5
<1> QED
  BY <1>1, <1>2, <1>5, <1>6, <1>7, BecomesKeeps

-----------------------------------------------------------------------------
(* What threads do to elements that share a chunk *)

LEMMA LoadKeeps ==
  ASSUME BitsInv, torn = {}, NEW t \in Threads, NEW i \in 0 .. size - 1, NEW v \in Bit!BitValues,
         Bit!ReadChunk(t, i, v) \/ Bit!LoadForStore(t, i, v)
  PROVE  BitsInv'
<1>1. PICK op \in {"plain", "cas"} :
        /\ pc' = [pc EXCEPT ![t] = [op |-> op, i |-> i, v |-> v, seen |-> chunks[Bit!ChunkOf(i)]]]
        /\ UNCHANGED <<kind, chunks, size, want, claims, torn>>
  BY DEF Bit!ReadChunk, Bit!LoadForStore
<1>2. chunks[Bit!ChunkOf(i)] \in SUBSET Bit!OneChunk
  BY ChunksAreThere
<1>3. Bit!Width' = Bit!Width /\ Bit!ChunkBits' = Bit!ChunkBits /\ Bit!OneChunk' = Bit!OneChunk
      /\ Bit!BitValues' = Bit!BitValues
  BY <1>1 DEF Bit!Width, Bit!ChunkBits, Bit!OneChunk, Bit!BitValues
<1>4. PendingOK'
  BY <1>1, <1>2, <1>3 DEF BitsInv, PendingOK
<1>5. Bit!BitsTypeOK'
  <2>1. \A u \in Threads : pc'[u].op \in {"idle", "plain", "cas"}
    BY <1>4 DEF PendingOK, Bit!Idle
  <2> QED
    BY <1>1, <1>3, <2>1 DEF BitsInv, Bit!BitsTypeOK
<1>6. Bit!ElementsAreLastWrites'
  BY <1>1 DEF BitsInv, Bit!ElementsAreLastWrites, Bit!Get, Bit!Mask, Bit!Offset, Bit!Width
<1>7. UnwrittenBehind' /\ ClaimedAreSet'
  BY <1>1 DEF BitsInv, UnwrittenBehind, ClaimedAreSet
<1> QED
  BY <1>4, <1>5, <1>6, <1>7 DEF BitsInv

LEMMA Pending ==
  ASSUME BitsInv, NEW t \in Threads, pc[t].op \in {"plain", "cas"}
  PROVE  /\ pc[t].i \in 0 .. size - 1 /\ pc[t].v \in Bit!BitValues
         /\ pc[t].v \in SUBSET (0 .. Bit!Width - 1) /\ pc[t].seen \in SUBSET Bit!OneChunk
<1>1. pc[t] \in {Bit!Idle} \cup
        [op : {"plain", "cas"}, i : 0 .. size - 1, v : Bit!BitValues, seen : SUBSET Bit!OneChunk]
  BY DEF BitsInv, PendingOK
<1>2. pc[t] # Bit!Idle
  BY DEF Bit!Idle
<1>3. pc[t] \in [op : {"plain", "cas"}, i : 0 .. size - 1, v : Bit!BitValues, seen : SUBSET Bit!OneChunk]
  BY <1>1, <1>2
<1> QED
  BY <1>3, ValuesFit

\* What was read is written back; the chunk is spoilt if it is no longer what was read.
LEMMA WriteChunkKeeps ==
  ASSUME BitsInv, torn = {}, NEW t \in Threads, Bit!WriteChunk(t)
  PROVE  BitsInv'
<1> DEFINE i == pc[t].i
           v == pc[t].v
           seen == pc[t].seen
<1>1. /\ pc[t].op = "plain"
      /\ Bit!Settle(t, i, Bit!UpdateChunk(seen, i, v), v, FALSE)
      /\ torn' = IF chunks[Bit!ChunkOf(i)] = seen THEN torn ELSE torn \cup {Bit!ChunkOf(i)}
  BY DEF Bit!WriteChunk
<1>2. i \in 0 .. size - 1 /\ v \in SUBSET (0 .. Bit!Width - 1) /\ seen \in SUBSET Bit!OneChunk
  BY <1>1, Pending
<1> HIDE DEF i, v, seen
<1>3. \/ torn' = torn /\ seen = chunks[Bit!ChunkOf(i)]
      \/ torn' = torn \cup {Bit!ChunkOf(i)}
  BY <1>1
<1> QED
  BY <1>1, <1>2, <1>3, SettleKeeps

\* The exchange happens if the chunk is what was read; otherwise it is read again.
LEMMA StoreKeeps ==
  ASSUME BitsInv, torn = {}, NEW t \in Threads, Bit!Store(t)
  PROVE  BitsInv'
<1> DEFINE i == pc[t].i
           v == pc[t].v
           seen == pc[t].seen
<1>1. pc[t].op = "cas" /\ torn' = torn
  BY DEF Bit!Store
<1>2. i \in 0 .. size - 1 /\ v \in SUBSET (0 .. Bit!Width - 1) /\ seen \in SUBSET Bit!OneChunk
      /\ v \in Bit!BitValues
  BY <1>1, Pending
<1>3. CASE chunks[Bit!ChunkOf(i)] = seen
  <2>1. Bit!Settle(t, i, Bit!UpdateChunk(seen, i, v), v, FALSE)
    BY <1>3 DEF Bit!Store
  <2> HIDE DEF i, v, seen
  <2> QED
    BY <1>1, <1>2, <1>3, <2>1, SettleKeeps
<1>4. CASE chunks[Bit!ChunkOf(i)] # seen
  <2>1. pc' = [pc EXCEPT ![t].seen = chunks[Bit!ChunkOf(i)]]
        /\ UNCHANGED <<kind, chunks, size, want, claims>>
    BY <1>4 DEF Bit!Store
  <2>2. chunks[Bit!ChunkOf(i)] \in SUBSET Bit!OneChunk
    BY <1>2, ChunksAreThere
  <2>3. Bit!Width' = Bit!Width /\ Bit!ChunkBits' = Bit!ChunkBits /\ Bit!OneChunk' = Bit!OneChunk
        /\ Bit!BitValues' = Bit!BitValues
    BY <2>1 DEF Bit!Width, Bit!ChunkBits, Bit!OneChunk, Bit!BitValues
  <2>4. PendingOK'
    BY <1>1, <2>1, <2>2, <2>3 DEF BitsInv, PendingOK, Bit!Idle
  <2>5. Bit!BitsTypeOK'
    <3>1. \A u \in Threads : pc'[u].op \in {"idle", "plain", "cas"}
      BY <2>4 DEF PendingOK, Bit!Idle
    <3> QED
      BY <1>1, <2>1, <2>3, <3>1 DEF BitsInv, Bit!BitsTypeOK
  <2>6. Bit!ElementsAreLastWrites'
    BY <1>1, <2>1 DEF BitsInv, Bit!ElementsAreLastWrites, Bit!Get, Bit!Mask, Bit!Offset, Bit!Width
  <2>7. UnwrittenBehind' /\ ClaimedAreSet'
    BY <2>1 DEF BitsInv, UnwrittenBehind, ClaimedAreSet
  <2> QED
    BY <2>4, <2>5, <2>6, <2>7 DEF BitsInv
<1> QED
  BY <1>3, <1>4

LEMMA StoreBitKeeps ==
  ASSUME BitsInv, torn = {}, NEW t \in Threads, NEW i \in 0 .. size - 1, NEW v \in Bit!BitValues,
         Bit!StoreBit(t, i, v)
  PROVE  BitsInv'
<1>1. /\ Bit!Settle(t, i, Bit!UpdateChunk(chunks[Bit!ChunkOf(i)], i, v), v, FALSE)
      /\ torn' = torn
  BY DEF Bit!StoreBit
<1>2. chunks[Bit!ChunkOf(i)] \in SUBSET Bit!OneChunk /\ v \in SUBSET (0 .. Bit!Width - 1)
  BY ChunksAreThere, ValuesFit
<1> QED
  BY <1>1, <1>2, SettleKeeps

\* The bit that is or'ed in is the element; who finds it unset has claimed it.
LEMMA SetIfUnsetKeeps ==
  ASSUME BitsInv, torn = {}, NEW t \in Threads, NEW i \in 0 .. size - 1, Bit!SetIfUnset(t, i)
  PROVE  BitsInv'
<1> DEFINE chunk == chunks[Bit!ChunkOf(i)]
           won == Bit!Claimed(chunk, i)
<1>1. /\ kind = "dynamic" /\ torn' = torn
      /\ Bit!Settle(t, i, chunk \cup Bit!Mask(i), {0}, won)
  BY DEF Bit!SetIfUnset
<1>2. i \in Nat /\ chunk \in SUBSET Bit!OneChunk
  BY ChunksAreThere
<1>3. 0 .. Bit!Width - 1 = {0}
  BY <1>1, OneBitWide
<1> HIDE DEF chunk
<1>4. chunk \cup Bit!Mask(i) = Bit!UpdateChunk(chunk, i, {0})
  BY <1>3 DEF Bit!UpdateChunk, Bit!Mask
<1>5. won => want[i] # {0}
  <2>1. SUFFICES ASSUME chunk \cap Bit!Mask(i) = {}
                 PROVE  want[i] # {0}
    BY DEF Bit!Claimed
  <2>2. ElementOf(chunk, i) = {}
    BY <2>1 DEF ElementOf, Bit!Shifted
  <2>3. want[i] = Bit!Unwritten \/ want[i] = {}
    BY <2>2 DEF BitsInv, Bit!ElementsAreLastWrites, Bit!Get, ElementOf, chunk
  <2> QED
    BY <2>3 DEF Bit!Unwritten
<1>6. won \in BOOLEAN
  BY DEF Bit!Claimed
<1> HIDE DEF won
<1>7. {0} \in SUBSET (0 .. Bit!Width - 1)
  BY <1>3
<1>8. Bit!Settle(t, i, Bit!UpdateChunk(chunk, i, {0}), {0}, won)
  BY <1>1, <1>4
<1> QED
  BY <1>1, <1>2, <1>5, <1>6, <1>7, <1>8, SettleKeeps DEF chunk

\* One bit of an integer changes, and with it the integer.
LEMMA StoreBitOfIntegerKeeps ==
  ASSUME BitsInv, torn = {}, NEW t \in Threads, NEW i \in 0 .. size - 1,
         NEW b \in 0 .. IntWidth - 1, NEW bit \in BOOLEAN, Bit!StoreBitOfInteger(t, i, b, bit)
  PROVE  BitsInv'
<1> DEFINE chunk == chunks[Bit!ChunkOf(i)]
           With(s, p) == IF bit THEN s \cup {p} ELSE s \ {p}
           at == b + Bit!Offset(i)
           v == With(want[i], b)
<1>1. /\ kind = "ints" /\ torn' = torn /\ want[i] # Bit!Unwritten
      /\ Bit!Settle(t, i, With(chunk, at), v, FALSE)
  BY DEF Bit!StoreBitOfInteger
<1>2. i \in Nat /\ i \in 0 .. MaxSize - 1 /\ chunk \in SUBSET Bit!OneChunk
  BY ChunksAreThere
<1>3. b \in 0 .. Bit!Width - 1
  BY <1>1 DEF Bit!Width
<1>4. want[i] \in SUBSET (0 .. Bit!Width - 1) /\ want[i] = ElementOf(chunk, i)
  BY <1>1, <1>2 DEF BitsInv, Bit!BitsTypeOK, Bit!ElementsAreLastWrites, Bit!Get, ElementOf
<1>5. v \in SUBSET (0 .. Bit!Width - 1)
  BY <1>3, <1>4
<1> HIDE DEF chunk
<1>6. at \in Bit!OneChunk /\ at \in Int /\ at - Bit!Offset(i) = b /\ Bit!Offset(i) \in Nat
  BY <1>2, <1>3, PlaceOf, WidthType DEF Bit!OneChunk
<1>7. With(chunk, at) = Bit!UpdateChunk(chunk, i, v)
  <2> DEFINE new == Bit!UpdateChunk(chunk, i, v)
  <2>1. new \in SUBSET Bit!OneChunk /\ With(chunk, at) \in SUBSET Bit!OneChunk
    BY <1>2, <1>5, <1>6, UpdateHas
  <2>2. ASSUME NEW x \in Bit!OneChunk
        PROVE  x \in With(chunk, at) <=> x \in new
    <3>1. x \in Int /\ x - Bit!Offset(i) \in Int
      BY <1>6 DEF Bit!OneChunk
    <3>2. x \in new <=> IF x \in Bit!Mask(i) THEN x - Bit!Offset(i) \in v ELSE x \in chunk
      BY <3>1, <1>2, <1>5, UpdateHas
    <3>3. x \in Bit!Mask(i) <=> x - Bit!Offset(i) \in 0 .. Bit!Width - 1
      BY <3>1, <1>2, MaskHas
    <3>4. x = at <=> x - Bit!Offset(i) = b
      BY <3>1, <1>6, <1>3, WidthType
    <3>5. CASE x \in Bit!Mask(i)
      <4>1. (x - Bit!Offset(i)) + Bit!Offset(i) = x
        BY <3>1, <1>6
      <4>2. x - Bit!Offset(i) \in want[i] <=> x \in chunk
        <5>1. x - Bit!Offset(i) \in ElementOf(chunk, i) <=> (x - Bit!Offset(i)) + Bit!Offset(i) \in chunk
          <6> DEFINE y == x - Bit!Offset(i)
          <6>1. y \in 0 .. Bit!Width - 1
            BY <3>3, <3>5
          <6> HIDE DEF y
          <6>2. y \in ElementOf(chunk, i) <=> y + Bit!Offset(i) \in chunk
            BY <6>1, <1>2, ElementHas
          <6> QED
            BY <6>2 DEF y
        <5> QED
          BY <5>1, <4>1, <1>4
      <4>3. x \in new <=> x - Bit!Offset(i) \in v
        BY <3>2, <3>5
      <4> HIDE DEF at, new
      <4> QED
        BY <4>2, <4>3, <3>4
    <3>6. CASE x \notin Bit!Mask(i)
      <4>1. x # at
        BY <3>3, <3>4, <3>6, <1>3
      <4> HIDE DEF at, new
      <4> QED
        BY <3>2, <3>6, <4>1
    <3> QED
      BY <3>5, <3>6
  <2> HIDE DEF at, v, new, With
  <2>3. With(chunk, at) = new
    BY <2>1, <2>2
  <2> QED
    BY <2>3 DEF new
<1>8. Bit!Settle(t, i, Bit!UpdateChunk(chunk, i, v), v, FALSE)
  BY <1>1, <1>7
<1> HIDE DEF v
<1> QED
  BY <1>1, <1>2, <1>5, <1>8, SettleKeeps DEF chunk

-----------------------------------------------------------------------------
LEMMA BitsInitInv == Bit!BitsInit => BitsInv
<1> SUFFICES ASSUME Bit!BitsInit PROVE BitsInv
  OBVIOUS
<1>1. /\ kind \in Bit!Kinds /\ size \in 0 .. MaxSize
      /\ chunks \in [1 .. Bit!ChunkNum(size) -> Bit!Garbage]
      /\ want = [i \in 0 .. MaxSize - 1 |-> Bit!Unwritten]
      /\ claims = [i \in 0 .. MaxSize - 1 |-> 0]
      /\ torn = {} /\ pc = [t \in Threads |-> Bit!Idle]
  BY DEF Bit!BitsInit
<1>2. size \in Nat /\ Bit!ChunkNum(size) \in Nat /\ size <= MaxSize
  BY <1>1, ChunkNumIs, BitsAssumption
<1>3. Bit!Garbage \subseteq SUBSET Bit!OneChunk
  BY DEF Bit!Garbage
<1>4. chunks \in Seq(SUBSET Bit!OneChunk) /\ Len(chunks) = Bit!ChunkNum(size)
  BY <1>1, <1>2, <1>3
<1>5. \A i \in 0 .. size - 1 : i \in 0 .. MaxSize - 1
  BY <1>2, BitsAssumption
<1>6. Bit!BitsTypeOK
  BY <1>1, <1>4 DEF Bit!BitsTypeOK, Bit!Idle
<1>7. Bit!ElementsAreLastWrites
  BY <1>1, <1>5 DEF Bit!ElementsAreLastWrites
<1>8. PendingOK /\ UnwrittenBehind /\ ClaimedAreSet
  BY <1>1 DEF PendingOK, UnwrittenBehind, ClaimedAreSet
<1> QED
  BY <1>6, <1>7, <1>8 DEF BitsInv

LEMMA BitsNextInv == BitsInv /\ Bit!BitsNext => BitsInv'
<1> SUFFICES ASSUME BitsInv, Bit!BitsNext PROVE BitsInv'
  OBVIOUS
<1>1. torn = {}
  BY DEF Bit!BitsNext
<1>2. ASSUME NEW v \in Bit!BitValues, Bit!Fill(v) \/ Bit!FillIntegers(v) \/ Bit!PushBack(v)
      PROVE  BitsInv'
  BY <1>1, <1>2, FillKeeps, FillIntegersKeeps, PushBackKeeps
<1>3. ASSUME NEW n \in 0 .. MaxSize, Bit!Resize(n) PROVE BitsInv'
  BY <1>1, <1>3, ResizeKeeps
<1>4. ASSUME NEW bits \in [1 .. size -> {{}, {0}}], Bit!FromBits(bits) PROVE BitsInv'
  BY <1>1, <1>4, FromBitsKeeps
<1>5. ASSUME NEW t \in Threads, Bit!WriteChunk(t) \/ Bit!Store(t) PROVE BitsInv'
  BY <1>1, <1>5, WriteChunkKeeps, StoreKeeps
<1>6. ASSUME NEW t \in Threads, NEW i \in 0 .. size - 1, NEW v \in Bit!BitValues,
             Bit!ReadChunk(t, i, v) \/ Bit!StoreBit(t, i, v) \/ Bit!LoadForStore(t, i, v)
      PROVE  BitsInv'
  BY <1>1, <1>6, LoadKeeps, StoreBitKeeps
<1>7. ASSUME NEW t \in Threads, NEW i \in 0 .. size - 1, Bit!SetIfUnset(t, i) PROVE BitsInv'
  BY <1>1, <1>7, SetIfUnsetKeeps
<1>8. ASSUME NEW t \in Threads, NEW i \in 0 .. size - 1, NEW b \in 0 .. IntWidth - 1, NEW bit \in BOOLEAN,
             Bit!StoreBitOfInteger(t, i, b, bit)
      PROVE  BitsInv'
  BY <1>1, <1>8, StoreBitOfIntegerKeeps
<1>9. ASSUME Bit!Clear PROVE BitsInv'
  BY <1>1, <1>9, ClearKeeps
<1> QED
  BY <1>2, <1>3, <1>4, <1>5, <1>6, <1>7, <1>8, <1>9, Zenon DEF Bit!BitsNext

LEMMA BitsStutterInv == BitsInv /\ UNCHANGED <<kind, want, bitsOnly>> => BitsInv'
<1> SUFFICES ASSUME BitsInv, UNCHANGED <<kind, want, bitsOnly>> PROVE BitsInv'
  OBVIOUS
<1>1. UNCHANGED <<kind, chunks, size, want, claims, torn, pc>>
  BY DEF bitsOnly
<1>2. Bit!Width' = Bit!Width /\ Bit!ChunkBits' = Bit!ChunkBits /\ Bit!OneChunk' = Bit!OneChunk
      /\ Bit!BitValues' = Bit!BitValues
  BY <1>1 DEF Bit!Width, Bit!ChunkBits, Bit!OneChunk, Bit!BitValues
<1>3. Bit!BitsTypeOK' /\ PendingOK'
  BY <1>1, <1>2 DEF BitsInv, Bit!BitsTypeOK, PendingOK
<1>4. Bit!ElementsAreLastWrites'
  BY <1>1 DEF BitsInv, Bit!ElementsAreLastWrites, Bit!Get, Bit!Mask, Bit!Offset, Bit!Width
<1>5. UnwrittenBehind' /\ ClaimedAreSet'
  BY <1>1 DEF BitsInv, UnwrittenBehind, ClaimedAreSet
<1> QED
  BY <1>3, <1>4, <1>5 DEF BitsInv

-----------------------------------------------------------------------------
(* Parts of a nested array that are built *)

\* The parts follow each other from the first group to the last one.
PartsInv ==
  /\ lens \in Seq(Nat) /\ flat \in BOOLEAN
  /\ bound \in Seq(0 .. Len(lens)) /\ Len(bound) >= 2 /\ (flat => Len(bound) = 2)
  /\ bound[1] = 0 /\ bound[Len(bound)] = Len(lens)
  /\ \A t \in Nested!Parts : bound[t] <= bound[t + 1]

\* A builder is in its part, and its elements are in the group it is in.
CursorsInv ==
  /\ offsetAt \in [Nested!Parts -> 0 .. Len(lens)] /\ valueAt \in [Nested!Parts -> Nat]
  /\ \A t \in Nested!Parts :
       /\ bound[t] <= offsetAt[t] /\ offsetAt[t] <= bound[t + 1]
       /\ Nested!Before(offsetAt[t]) <= valueAt[t]
       /\ IF offsetAt[t] < bound[t + 1] THEN valueAt[t] <= Nested!Before(offsetAt[t] + 1)
          ELSE valueAt[t] = Nested!Before(offsetAt[t])

\* What the builders have passed is written, and nothing else has been written to offsets.
WrittenInv ==
  /\ offsets \in [0 .. Len(lens) -> Int] /\ offsets[0] = 0
  /\ values \in [0 .. Nested!Before(Len(lens)) - 1 -> Int]
  /\ \A t \in Nested!Parts : \A x \in Nested!Before(bound[t]) .. valueAt[t] - 1 : values[x] = x
  /\ \A g \in 1 .. Len(lens) :
       offsets[g] = IF \E t \in Nested!Parts : bound[t] < g /\ g <= offsetAt[t]
                    THEN Nested!Before(g) ELSE Nested!Raw

NestedInv ==
  /\ PartsInv /\ built \in BOOLEAN
  /\ built => offsetAt # <<>> /\ \A t \in Nested!Parts : offsetAt[t] = bound[t + 1]
  /\ offsetAt # <<>> => CursorsInv /\ WrittenInv

\* The recursive definition has a function that it defines; it adds up one length after the other.
LEMMA BeforeIs ==
  ASSUME lens \in Seq(Nat)
  PROVE  /\ Nested!Before(0) = 0
         /\ \A h \in 0 .. Len(lens) : Nested!Before(h) \in Nat
         /\ \A h \in 1 .. Len(lens) : Nested!Before(h) = Nested!Before(h - 1) + lens[h]
<1> DEFINE n == Len(lens)
           Sums(g, m) == g = [h \in 0 .. m |-> IF h = 0 THEN 0 ELSE g[h - 1] + lens[h]]
           T == {m \in 0 .. n : ~ \E g : Sums(g, m)}
<1>1. n \in Nat /\ \A h \in 1 .. n : lens[h] \in Nat
  OBVIOUS
<1> HIDE DEF n
<1>2. T = {}
  <2> SUFFICES ASSUME T # {} PROVE FALSE
    OBVIOUS
  <2>1. T \in SUBSET Nat
    BY <1>1
  <2>2. PICK m \in T : \A l \in T : m <= l
    BY <2>1, LeastElement
  <2>3. m \in 0 .. n /\ ~ \E g : Sums(g, m)
    BY <2>2
  <2>4. m # 0
    <3>1. Sums([h \in 0 .. 0 |-> 0], 0)
      OBVIOUS
    <3> QED
      BY <2>3, <3>1
  <2>5. m - 1 \in 0 .. n /\ m - 1 \notin T /\ m \in 1 .. n
    <3>1. m - 1 \in 0 .. n /\ m \in 1 .. n /\ ~ (m <= m - 1)
      BY <1>1, <2>3, <2>4
    <3> HIDE DEF T
    <3> QED
      BY <2>2, <3>1
  <2>6. PICK g : Sums(g, m - 1)
    BY <2>5
  <2> DEFINE f == [h \in 0 .. m |-> IF h = m THEN g[m - 1] + lens[m] ELSE g[h]]
  <2>7. \A h \in 0 .. m : f[h] = IF h = 0 THEN 0 ELSE f[h - 1] + lens[h]
    <3> TAKE h \in 0 .. m
    <3>1. CASE h = m
      BY <2>4, <2>5, <3>1
    <3>2. CASE h # m
      <4>1. h \in 0 .. m - 1 /\ f[h] = g[h] /\ (h # 0 => f[h - 1] = g[h - 1])
        BY <2>5, <3>2
      <4>2. g[h] = IF h = 0 THEN 0 ELSE g[h - 1] + lens[h]
        BY <2>6, <4>1
      <4> QED
        BY <4>1, <4>2
    <3> QED
      BY <3>1, <3>2
  <2>8. Sums(f, m)
    BY <2>7
  <2> QED
    BY <2>3, <2>8
<1> DEFINE before == CHOOSE g : Sums(g, n)
<1>3. Sums(before, n)
  <2>1. n \in 0 .. n
    BY <1>1
  <2>2. \E g : Sums(g, n)
    BY <1>2, <2>1
  <2> QED
    BY <2>2
<1>4. \A h : Nested!Before(h) = before[h]
  BY DEF Nested!Before, n
<1> HIDE DEF before
<1>5. \A h \in 0 .. n : before[h] = IF h = 0 THEN 0 ELSE before[h - 1] + lens[h]
  BY <1>3
<1> DEFINE U == {m \in 0 .. n : before[m] \notin Nat}
<1>6. U = {}
  <2> SUFFICES ASSUME U # {} PROVE FALSE
    OBVIOUS
  <2>1. U \in SUBSET Nat
    BY <1>1
  <2>2. PICK m \in U : \A l \in U : m <= l
    BY <2>1, LeastElement
  <2>3. m \in 0 .. n /\ before[m] \notin Nat
    BY <2>2
  <2>4. m # 0
    BY <1>5, <2>3
  <2>5. m - 1 \in 0 .. n /\ m - 1 \notin U /\ m \in 1 .. n
    BY <1>1, <2>2, <2>3, <2>4
  <2>6. before[m - 1] \in Nat /\ before[m] = before[m - 1] + lens[m] /\ lens[m] \in Nat
    BY <1>1, <1>5, <2>3, <2>4, <2>5
  <2> QED
    BY <2>3, <2>6
<1>7. \A h \in 1 .. n : h \in 0 .. n /\ h # 0
  BY <1>1
<1>8. 0 \in 0 .. n
  BY <1>1
<1> QED
  BY <1>4, <1>5, <1>6, <1>7, <1>8 DEF n

LEMMA BeforeAscends ==
  ASSUME lens \in Seq(Nat), NEW a \in 0 .. Len(lens), NEW b \in 0 .. Len(lens), a <= b
  PROVE  Nested!Before(a) <= Nested!Before(b)
<1> DEFINE n == Len(lens)
           T == {m \in 0 .. n : a <= m /\ ~ (Nested!Before(a) <= Nested!Before(m))}
<1>1. n \in Nat /\ a \in 0 .. n /\ b \in 0 .. n
  OBVIOUS
<1>2. /\ \A h \in 0 .. n : Nested!Before(h) \in Nat
      /\ \A h \in 1 .. n : Nested!Before(h) = Nested!Before(h - 1) + lens[h] /\ lens[h] \in Nat
  BY BeforeIs
<1> HIDE DEF n
<1> SUFFICES ASSUME T # {} PROVE FALSE
  BY <1>1
<1>3. T \in SUBSET Nat
  BY <1>1
<1>4. PICK m \in T : \A l \in T : m <= l
  BY <1>3, LeastElement
<1>5. m \in 0 .. n /\ a <= m /\ ~ (Nested!Before(a) <= Nested!Before(m))
  BY <1>4
<1>6. m # a
  BY <1>1, <1>2, <1>5
<1>7. m - 1 \in 0 .. n /\ a <= m - 1 /\ m \in 1 .. n /\ m - 1 \notin T
  BY <1>1, <1>4, <1>5, <1>6
<1>8. Nested!Before(a) <= Nested!Before(m - 1)
  BY <1>7
<1>9. /\ Nested!Before(a) \in Nat /\ Nested!Before(m - 1) \in Nat /\ lens[m] \in Nat
      /\ Nested!Before(m) = Nested!Before(m - 1) + lens[m]
  BY <1>1, <1>2, <1>7
<1> QED
  BY <1>5, <1>8, <1>9

LEMMA PartFacts ==
  ASSUME PartsInv
  PROVE  /\ Len(lens) \in Nat /\ lens \in Seq(Nat)
         /\ Len(bound) \in Nat /\ Len(bound) >= 2
         /\ Nested!Parts = 1 .. Len(bound) - 1 /\ Nested!Parts # {}
         /\ bound[1] = 0 /\ bound[Len(bound)] = Len(lens)
         /\ \A s \in 1 .. Len(bound) : bound[s] \in 0 .. Len(lens)
         /\ \A t \in Nested!Parts :
              /\ t \in Nat /\ bound[t] \in 0 .. Len(lens) /\ bound[t + 1] \in 0 .. Len(lens)
              /\ bound[t] <= bound[t + 1]
         /\ flat => Nested!Parts = {1} /\ bound[2] = Len(lens)
<1>1. Len(lens) \in Nat /\ lens \in Seq(Nat)
  BY DEF PartsInv
<1>2. /\ Len(bound) \in Nat /\ Len(bound) >= 2 /\ bound[1] = 0 /\ bound[Len(bound)] = Len(lens)
      /\ \A s \in 1 .. Len(bound) : bound[s] \in 0 .. Len(lens)
      /\ flat => Len(bound) = 2
  BY <1>1 DEF PartsInv
<1>3. Nested!Parts = 1 .. Len(bound) - 1
  BY DEF Nested!Parts
<1>4. ASSUME NEW t \in Nested!Parts
      PROVE  /\ t \in Nat /\ bound[t] \in 0 .. Len(lens) /\ bound[t + 1] \in 0 .. Len(lens)
             /\ bound[t] <= bound[t + 1]
  <2>1. t \in 1 .. Len(bound) /\ t + 1 \in 1 .. Len(bound)
    BY <1>2, <1>3
  <2> QED
    BY <2>1, <1>2 DEF PartsInv
<1>5. 1 \in Nested!Parts
  BY <1>2, <1>3
<1>6. ASSUME flat PROVE Nested!Parts = {1} /\ bound[2] = Len(lens)
  <2>1. Len(bound) = 2
    BY <1>2, <1>6
  <2> QED
    BY <2>1, <1>2, <1>3
<1> QED
  BY <1>1, <1>2, <1>3, <1>4, <1>5, <1>6

\* Each group is in a part.
LEMMA InSomePart ==
  ASSUME PartsInv, NEW g \in 1 .. Len(lens)
  PROVE  \E t \in Nested!Parts : bound[t] < g /\ g <= bound[t + 1]
<1> DEFINE n == Len(bound)
           T == {s \in 1 .. n : g <= bound[s]}
<1>1. /\ n \in Nat /\ n >= 2 /\ bound[1] = 0 /\ bound[n] = Len(lens) /\ Len(lens) \in Nat
      /\ \A s \in 1 .. n : bound[s] \in 0 .. Len(lens)
      /\ Nested!Parts = 1 .. n - 1 /\ g \in Nat /\ 1 <= g /\ g <= Len(lens)
  BY PartFacts
<1> HIDE DEF n
<1>2. n \in T /\ T \in SUBSET Nat
  BY <1>1
<1>3. PICK s \in T : \A r \in T : s <= r
  BY <1>2, LeastElement
<1>4. s \in 1 .. n /\ g <= bound[s]
  BY <1>3
<1>5. s # 1
  BY <1>1, <1>4
<1>6. s - 1 \in 1 .. n /\ s - 1 \notin T /\ s - 1 \in Nested!Parts /\ (s - 1) + 1 = s
  BY <1>1, <1>3, <1>4, <1>5
<1>7. bound[s - 1] < g
  BY <1>1, <1>6
<1> QED
  BY <1>4, <1>6, <1>7

LEMMA CursorFacts ==
  ASSUME PartsInv, CursorsInv, NEW t \in Nested!Parts
  PROVE  /\ offsetAt[t] \in 0 .. Len(lens) /\ valueAt[t] \in Nat
         /\ valueAt[t] <= Nested!Before(Len(lens))
         /\ Nested!Before(Len(lens)) \in Nat
<1>1. offsetAt[t] \in 0 .. Len(lens) /\ valueAt[t] \in Nat /\ Len(lens) \in 0 .. Len(lens)
  BY PartFacts DEF CursorsInv
<1>2. \A h \in 0 .. Len(lens) : Nested!Before(h) \in Nat /\ Nested!Before(h) <= Nested!Before(Len(lens))
  <2>1. lens \in Seq(Nat) /\ Len(lens) \in Nat
    BY PartFacts
  <2> QED
    BY <2>1, BeforeIs, BeforeAscends
<1>3. CASE offsetAt[t] < bound[t + 1]
  <2>1. offsetAt[t] + 1 \in 0 .. Len(lens)
    <3>1. bound[t + 1] \in 0 .. Len(lens) /\ Len(lens) \in Nat
      BY PartFacts
    <3> QED
      BY <1>1, <1>3, <3>1
  <2>2. valueAt[t] <= Nested!Before(offsetAt[t] + 1)
    BY <1>3 DEF CursorsInv
  <2> QED
    BY <1>1, <1>2, <2>1, <2>2
<1>4. CASE ~ (offsetAt[t] < bound[t + 1])
  <2>1. valueAt[t] = Nested!Before(offsetAt[t])
    BY <1>4 DEF CursorsInv
  <2> QED
    BY <1>1, <1>2, <2>1
<1> QED
  BY <1>3, <1>4

LEMMA SameParts ==
  ASSUME PartsInv, UNCHANGED <<flat, lens, bound>>
  PROVE  /\ PartsInv' /\ Nested!Parts' = Nested!Parts
         /\ \A h : Nested!Before(h)' = Nested!Before(h)
<1>1. flat' = flat /\ lens' = lens /\ bound' = bound
  OBVIOUS
<1>2. Nested!Parts' = Nested!Parts
  BY <1>1 DEF Nested!Parts
<1>3. \A h : Nested!Before(h)' = Nested!Before(h)
  BY <1>1 DEF Nested!Before
<1> QED
  BY <1>1, <1>2, <1>3 DEF PartsInv

\* The cursors at the beginnings of the parts, whichever builder puts them there.
LEMMA InitializeKeeps ==
  ASSUME NestedInv, Nested!Initialize \/ Nested!InitializeFlat
  PROVE  NestedInv'
<1>1. PartsInv /\ offsetAt = <<>> /\ ~ built
  BY DEF NestedInv, Nested!Initialize, Nested!InitializeFlat
<1>2. lens \in Seq(Nat) /\ Len(lens) \in Nat
  BY <1>1, PartFacts
<1>3. /\ Nested!Before(0) = 0
      /\ \A h \in 0 .. Len(lens) : Nested!Before(h) \in Nat
      /\ \A h \in 1 .. Len(lens) : Nested!Before(h) = Nested!Before(h - 1) + lens[h] /\ lens[h] \in Nat
  BY <1>2, BeforeIs
<1>4. /\ offsets' = [Nested!Blank(Len(lens) + 1) EXCEPT ![0] = 0]
      /\ values' = Nested!Blank(Nested!Before(Len(lens)))
      /\ UNCHANGED <<flat, lens, bound, built>>
  BY DEF Nested!Initialize, Nested!InitializeFlat
<1>5. /\ offsetAt' = [t \in Nested!Parts |-> bound[t]]
      /\ valueAt' = [t \in Nested!Parts |-> Nested!Before(bound[t])]
  <2>1. CASE Nested!Initialize
    BY <2>1 DEF Nested!Initialize
  <2>2. CASE Nested!InitializeFlat
    <3>1. flat /\ offsetAt' = <<0>> /\ valueAt' = <<0>>
      BY <2>2 DEF Nested!InitializeFlat
    <3>2. Nested!Parts = {1} /\ bound[1] = 0
      BY <3>1, <1>1, PartFacts
    <3>3. <<0>> = [t \in {1} |-> 0]
      OBVIOUS
    <3> QED
      BY <3>1, <3>2, <3>3, <1>3
  <2> QED
    BY <2>1, <2>2
<1>6. PartsInv' /\ Nested!Parts' = Nested!Parts /\ \A h : Nested!Before(h)' = Nested!Before(h)
  BY <1>1, <1>4, SameParts
<1>7. CursorsInv'
  <2>1. ASSUME NEW t \in Nested!Parts
        PROVE  /\ offsetAt'[t] = bound[t] /\ valueAt'[t] = Nested!Before(bound[t])
               /\ bound[t] \in 0 .. Len(lens) /\ valueAt'[t] \in Nat /\ bound[t] <= bound[t + 1]
               /\ bound[t] < bound[t + 1] => Nested!Before(bound[t]) <= Nested!Before(bound[t] + 1)
    <3>1. /\ bound[t] \in 0 .. Len(lens) /\ bound[t + 1] \in 0 .. Len(lens) /\ bound[t] <= bound[t + 1]
      BY <1>1, PartFacts
    <3>2. bound[t] < bound[t + 1] => Nested!Before(bound[t]) <= Nested!Before(bound[t] + 1)
      <4>1. SUFFICES ASSUME bound[t] < bound[t + 1]
                     PROVE  Nested!Before(bound[t]) <= Nested!Before(bound[t] + 1)
        OBVIOUS
      <4>2. bound[t] + 1 \in 0 .. Len(lens) /\ bound[t] <= bound[t] + 1
        BY <3>1, <4>1
      <4> QED
        BY <3>1, <4>2, <1>2, BeforeAscends
    <3> QED
      BY <3>1, <3>2, <1>3, <1>5
  <2>2. offsetAt' \in [Nested!Parts -> 0 .. Len(lens)] /\ valueAt' \in [Nested!Parts -> Nat]
    BY <2>1, <1>5
  <2>3. \A t \in Nested!Parts :
          /\ bound[t] <= offsetAt'[t] /\ offsetAt'[t] <= bound[t + 1]
          /\ Nested!Before(offsetAt'[t]) <= valueAt'[t]
          /\ IF offsetAt'[t] < bound[t + 1] THEN valueAt'[t] <= Nested!Before(offsetAt'[t] + 1)
             ELSE valueAt'[t] = Nested!Before(offsetAt'[t])
    BY <2>1
  <2> QED
    BY <1>4, <1>6, <2>2, <2>3 DEF CursorsInv
<1>8. WrittenInv'
  <2>1. offsets' = [i \in 0 .. Len(lens) |-> IF i = 0 THEN 0 ELSE -1]
    <3>1. (Len(lens) + 1) - 1 = Len(lens)
      BY <1>2
    <3> QED
      BY <1>2, <1>4, <3>1 DEF Nested!Blank, Nested!Raw
  <2>2. values' \in [0 .. Nested!Before(Len(lens)) - 1 -> Int]
    BY <1>4 DEF Nested!Blank, Nested!Raw
  <2>3. offsets' \in [0 .. Len(lens) -> Int] /\ offsets'[0] = 0 /\ \A g \in 1 .. Len(lens) : offsets'[g] = -1
    BY <2>1, <1>2
  <2>4. ASSUME NEW t \in Nested!Parts
        PROVE  Nested!Before(bound[t]) .. valueAt'[t] - 1 = {}
    <3>1. valueAt'[t] = Nested!Before(bound[t]) /\ Nested!Before(bound[t]) \in Nat
      BY <1>1, <1>3, <1>5, PartFacts
    <3> QED
      BY <3>1
  <2>5. ASSUME NEW g \in 1 .. Len(lens), NEW t \in Nested!Parts, bound[t] < g, g <= offsetAt'[t]
        PROVE  FALSE
    <3>1. offsetAt'[t] = bound[t] /\ bound[t] \in 0 .. Len(lens)
      BY <1>1, <1>5, PartFacts
    <3> QED
      BY <2>5, <3>1, <1>2
  <2> QED
    BY <1>4, <1>6, <2>2, <2>3, <2>4, <2>5 DEF WrittenInv, Nested!Raw
<1>9. offsetAt' # <<>>
  <2>1. DOMAIN offsetAt' # {}
    BY <1>1, <1>5, PartFacts
  <2> QED
    BY <2>1
<1> QED
  BY <1>1, <1>4, <1>6, <1>7, <1>8, <1>9 DEF NestedInv

LEMMA EmplaceKeeps ==
  ASSUME NestedInv, NEW t \in Nested!Parts, Nested!Emplace(t)
  PROVE  NestedInv'
<1>1. PartsInv /\ CursorsInv /\ WrittenInv /\ offsetAt # <<>>
  BY DEF NestedInv, Nested!Emplace
<1> DEFINE v == valueAt[t]
<1>2. /\ offsetAt[t] < bound[t + 1] /\ v < Nested!Before(offsetAt[t] + 1)
      /\ values' = [values EXCEPT ![v] = v] /\ valueAt' = [valueAt EXCEPT ![t] = v + 1]
      /\ UNCHANGED <<flat, lens, bound, offsets, offsetAt, built>>
  BY DEF Nested!Emplace
<1>3. PartsInv' /\ Nested!Parts' = Nested!Parts /\ \A h : Nested!Before(h)' = Nested!Before(h)
  BY <1>1, <1>2, SameParts
<1>4. v \in Nat /\ v < Nested!Before(Len(lens)) /\ Nested!Before(Len(lens)) \in Nat
  <2>1. offsetAt[t] \in 0 .. Len(lens) /\ bound[t + 1] \in 0 .. Len(lens) /\ Len(lens) \in Nat
        /\ lens \in Seq(Nat) /\ v \in Nat
    BY <1>1, CursorFacts, PartFacts
  <2>2. /\ offsetAt[t] + 1 \in 0 .. Len(lens) /\ Len(lens) \in 0 .. Len(lens)
        /\ offsetAt[t] + 1 <= Len(lens)
    BY <2>1, <1>2
  <2>3. Nested!Before(offsetAt[t] + 1) <= Nested!Before(Len(lens))
    BY <2>1, <2>2, BeforeAscends
  <2>4. Nested!Before(offsetAt[t] + 1) \in Nat /\ Nested!Before(Len(lens)) \in Nat
    BY <2>1, <2>2, BeforeIs
  <2> QED
    BY <2>1, <2>3, <2>4, <1>2
<1> HIDE DEF v
<1>5. /\ valueAt' \in [Nested!Parts -> Nat] /\ valueAt'[t] = v + 1 /\ v = valueAt[t]
      /\ \A u \in Nested!Parts : u # t => valueAt'[u] = valueAt[u]
  BY <1>1, <1>2, <1>4 DEF CursorsInv, v
<1>6. /\ values' \in [0 .. Nested!Before(Len(lens)) - 1 -> Int] /\ values'[v] = v
      /\ \A x \in 0 .. Nested!Before(Len(lens)) - 1 : x # v => values'[x] = values[x]
  BY <1>1, <1>2, <1>4 DEF WrittenInv
<1>7. CursorsInv'
  <2>1. ASSUME NEW u \in Nested!Parts
        PROVE  /\ Nested!Before(offsetAt[u]) <= valueAt'[u]
               /\ IF offsetAt[u] < bound[u + 1] THEN valueAt'[u] <= Nested!Before(offsetAt[u] + 1)
                  ELSE valueAt'[u] = Nested!Before(offsetAt[u])
    <3>1. CASE u # t
      BY <3>1, <1>1, <1>5 DEF CursorsInv
    <3>2. CASE u = t
      <4>1. /\ Nested!Before(offsetAt[t]) <= v
            /\ Nested!Before(offsetAt[t]) \in Nat /\ Nested!Before(offsetAt[t] + 1) \in Nat
        <5>1. /\ offsetAt[t] \in 0 .. Len(lens) /\ bound[t + 1] \in 0 .. Len(lens) /\ Len(lens) \in Nat
              /\ lens \in Seq(Nat)
          BY <1>1, CursorFacts, PartFacts
        <5>2. offsetAt[t] + 1 \in 0 .. Len(lens)
          BY <5>1, <1>2
        <5> QED
          BY <5>1, <5>2, <1>1, <1>5, BeforeIs DEF CursorsInv
      <4> QED
        BY <3>2, <4>1, <1>2, <1>4, <1>5 DEF v
    <3> QED
      BY <3>1, <3>2
  <2> QED
    BY <2>1, <1>1, <1>2, <1>3, <1>5 DEF CursorsInv
<1>8. WrittenInv'
  <2>1. ASSUME NEW u \in Nested!Parts, NEW x \in Nested!Before(bound[u]) .. valueAt'[u] - 1
        PROVE  values'[x] = x
    <3>1. bound[u] \in 0 .. Len(lens) /\ Nested!Before(bound[u]) \in Nat
      BY <1>1, PartFacts, BeforeIs
    <3>2. valueAt'[u] \in Nat /\ valueAt[u] \in Nat /\ valueAt[u] <= Nested!Before(Len(lens))
      BY <1>1, <1>5, CursorFacts
    <3>3. CASE x = v
      BY <3>3, <1>6
    <3>4. CASE x # v
      <4>1. x \in Nested!Before(bound[u]) .. valueAt[u] - 1
        <5>1. x \in Nat /\ x < valueAt'[u] /\ Nested!Before(bound[u]) <= x
          BY <3>1, <3>2
        <5>2. CASE u = t
          <6>1. x < v + 1 /\ v \in Nat /\ v = valueAt[u]
            BY <5>1, <5>2, <1>4, <1>5
          <6> QED
            BY <3>1, <3>4, <5>1, <6>1
        <5>3. CASE u # t
          BY <3>1, <3>2, <5>1, <5>3, <1>5
        <5> QED
          BY <5>2, <5>3
      <4>2. x \in 0 .. Nested!Before(Len(lens)) - 1
        BY <3>1, <3>2, <4>1, <1>4
      <4> QED
        BY <3>4, <4>1, <4>2, <1>1, <1>6 DEF WrittenInv
    <3> QED
      BY <3>3, <3>4
  <2>2. offsets \in [0 .. Len(lens) -> Int] /\ offsets[0] = 0
        /\ \A g \in 1 .. Len(lens) :
             offsets[g] = IF \E u \in Nested!Parts : bound[u] < g /\ g <= offsetAt[u]
                          THEN Nested!Before(g) ELSE Nested!Raw
    BY <1>1 DEF WrittenInv
  <2>3. offsets' = offsets /\ offsetAt' = offsetAt /\ bound' = bound /\ lens' = lens
    BY <1>2
  <2> QED
    BY <2>1, <2>2, <2>3, <1>3, <1>6 DEF WrittenInv, Nested!Raw
<1>9. built' = built /\ offsetAt' = offsetAt /\ bound' = bound
  BY <1>2
<1> QED
  BY <1>1, <1>3, <1>7, <1>8, <1>9 DEF NestedInv

LEMMA AdvanceGroupKeeps ==
  ASSUME NestedInv, NEW t \in Nested!Parts, Nested!AdvanceGroup(t)
  PROVE  NestedInv'
<1>1. PartsInv /\ CursorsInv /\ WrittenInv /\ offsetAt # <<>>
  BY DEF NestedInv, Nested!AdvanceGroup
<1> DEFINE o == offsetAt[t] + 1
<1>2. /\ offsetAt[t] < bound[t + 1] /\ valueAt[t] = Nested!Before(o)
      /\ offsetAt' = [offsetAt EXCEPT ![t] = o] /\ offsets' = [offsets EXCEPT ![o] = valueAt[t]]
      /\ UNCHANGED <<flat, lens, bound, values, valueAt, built>>
  BY DEF Nested!AdvanceGroup
<1>3. PartsInv' /\ Nested!Parts' = Nested!Parts /\ \A h : Nested!Before(h)' = Nested!Before(h)
  BY <1>1, <1>2, SameParts
<1>4. /\ Len(lens) \in Nat /\ lens \in Seq(Nat)
      /\ offsetAt[t] \in 0 .. Len(lens) /\ bound[t + 1] \in 0 .. Len(lens) /\ bound[t] \in 0 .. Len(lens)
      /\ valueAt[t] \in Nat /\ bound[t] <= offsetAt[t]
  BY <1>1, CursorFacts, PartFacts DEF CursorsInv
<1>5. o \in 1 .. Len(lens) /\ o \in 0 .. Len(lens) /\ o <= bound[t + 1] /\ bound[t] < o
      /\ offsetAt[t] = o - 1
  BY <1>2, <1>4
<1> HIDE DEF o
<1>6. /\ offsetAt' \in [Nested!Parts -> 0 .. Len(lens)] /\ offsetAt'[t] = o
      /\ \A u \in Nested!Parts : u # t => offsetAt'[u] = offsetAt[u]
  BY <1>1, <1>2, <1>5 DEF CursorsInv
<1>7. /\ offsets' \in [0 .. Len(lens) -> Int] /\ offsets'[o] = Nested!Before(o)
      /\ \A g \in 0 .. Len(lens) : g # o => offsets'[g] = offsets[g]
  BY <1>1, <1>2, <1>4, <1>5 DEF WrittenInv
<1>8. CursorsInv'
  <2>1. ASSUME NEW u \in Nested!Parts
        PROVE  /\ bound[u] <= offsetAt'[u] /\ offsetAt'[u] <= bound[u + 1]
               /\ Nested!Before(offsetAt'[u]) <= valueAt[u]
               /\ IF offsetAt'[u] < bound[u + 1] THEN valueAt[u] <= Nested!Before(offsetAt'[u] + 1)
                  ELSE valueAt[u] = Nested!Before(offsetAt'[u])
    <3>1. CASE u # t
      BY <3>1, <1>1, <1>6 DEF CursorsInv
    <3>2. CASE u = t
      <4>1. ASSUME o < bound[t + 1] PROVE valueAt[t] <= Nested!Before(o + 1)
        <5>1. o + 1 \in 0 .. Len(lens) /\ o <= o + 1
          BY <4>1, <1>4, <1>5
        <5> QED
          BY <5>1, <1>2, <1>4, <1>5, BeforeAscends
      <4>2. bound[t] <= o /\ Nested!Before(o) <= valueAt[t]
        BY <1>2, <1>4, <1>5
      <4> QED
        BY <3>2, <4>1, <4>2, <1>2, <1>5, <1>6
    <3> QED
      BY <3>1, <3>2
  <2>2. valueAt \in [Nested!Parts -> Nat]
    BY <1>1 DEF CursorsInv
  <2> QED
    BY <2>1, <2>2, <1>2, <1>3, <1>6 DEF CursorsInv
<1>9. WrittenInv'
  <2>1. ASSUME NEW g \in 1 .. Len(lens)
        PROVE  offsets'[g] = IF \E u \in Nested!Parts : bound[u] < g /\ g <= offsetAt'[u]
                             THEN Nested!Before(g) ELSE Nested!Raw
    <3>1. CASE g = o
      BY <3>1, <1>5, <1>6, <1>7
    <3>2. CASE g # o
      <4>1. ASSUME NEW u \in Nested!Parts
            PROVE  bound[u] < g /\ g <= offsetAt'[u] <=> bound[u] < g /\ g <= offsetAt[u]
        <5>1. CASE u # t
          BY <5>1, <1>6
        <5>2. CASE u = t
          BY <5>2, <3>2, <1>4, <1>5, <1>6
        <5> QED
          BY <5>1, <5>2
      <4>2. offsets[g] = IF \E u \in Nested!Parts : bound[u] < g /\ g <= offsetAt[u]
                         THEN Nested!Before(g) ELSE Nested!Raw
        BY <1>1 DEF WrittenInv
      <4>3. offsets'[g] = offsets[g]
        BY <3>2, <1>4, <1>7
      <4> QED
        BY <4>1, <4>2, <4>3
    <3> QED
      BY <3>1, <3>2
  <2>2. offsets'[0] = 0
    BY <1>1, <1>4, <1>5, <1>7 DEF WrittenInv
  <2>3. /\ values \in [0 .. Nested!Before(Len(lens)) - 1 -> Int]
        /\ \A u \in Nested!Parts : \A x \in Nested!Before(bound[u]) .. valueAt[u] - 1 : values[x] = x
    BY <1>1 DEF WrittenInv
  <2>4. values' = values /\ valueAt' = valueAt /\ bound' = bound /\ lens' = lens
    BY <1>2
  <2> QED
    BY <2>1, <2>2, <2>3, <2>4, <1>3, <1>7 DEF WrittenInv, Nested!Raw
<1>10. ~ built /\ built' = built /\ built \in BOOLEAN
  BY <1>2, <1>4 DEF NestedInv
<1> QED
  BY <1>3, <1>8, <1>9, <1>10 DEF NestedInv

LEMMA BuildKeeps ==
  ASSUME NestedInv, Nested!Build \/ Nested!BuildFlat
  PROVE  NestedInv'
<1>1. /\ offsetAt # <<>> /\ built'
      /\ UNCHANGED <<flat, lens, bound, offsets, values, offsetAt, valueAt>>
  BY DEF Nested!Build, Nested!BuildFlat
<1>2. PartsInv /\ CursorsInv /\ WrittenInv
  BY <1>1 DEF NestedInv
<1>3. \A t \in Nested!Parts : offsetAt[t] = bound[t + 1]
  <2>1. CASE Nested!Build
    BY <2>1 DEF Nested!Build
  <2>2. CASE Nested!BuildFlat
    <3>1. flat /\ offsetAt[1] + 1 = Len(lens) + 1
      BY <2>2 DEF Nested!BuildFlat
    <3>2. Nested!Parts = {1} /\ bound[2] = Len(lens) /\ Len(lens) \in Nat
      BY <3>1, <1>2, PartFacts
    <3>3. offsetAt[1] \in 0 .. Len(lens)
      BY <3>2, <1>2 DEF CursorsInv
    <3>4. offsetAt[1] = bound[1 + 1]
      BY <3>1, <3>2, <3>3
    <3> QED
      BY <3>2, <3>4
  <2> QED
    BY <2>1, <2>2
<1>4. PartsInv' /\ Nested!Parts' = Nested!Parts /\ \A h : Nested!Before(h)' = Nested!Before(h)
  BY <1>1, <1>2, SameParts
<1>5. CursorsInv' /\ WrittenInv'
  BY <1>1, <1>2, <1>4 DEF CursorsInv, WrittenInv, Nested!Raw
<1>6. built' \in BOOLEAN
  BY DEF Nested!Build, Nested!BuildFlat
<1> QED
  BY <1>1, <1>3, <1>4, <1>5, <1>6 DEF NestedInv

LEMMA NestedInitInv == Nested!NestedInit => NestedInv
<1> SUFFICES ASSUME Nested!NestedInit PROVE NestedInv
  OBVIOUS
<1>1. /\ flat \in BOOLEAN /\ built = FALSE /\ offsetAt = <<>>
      /\ bound \in [1 .. (IF flat THEN 1 ELSE N) + 1 -> 0 .. Len(lens)]
      /\ bound[1] = 0 /\ bound[Len(bound)] = Len(lens)
      /\ \A t \in Nested!Parts : bound[t] <= bound[t + 1]
  BY DEF Nested!NestedInit
<1>2. lens \in Seq(Nat)
  <2>1. PICK k \in 0 .. MaxGroups : lens \in [1 .. k -> 0 .. MaxLength]
    BY DEF Nested!NestedInit
  <2>2. 0 .. MaxLength \subseteq Nat /\ k \in Nat
    BY NestedAssumption
  <2> QED
    BY <2>1, <2>2
<1>3. PICK n \in Nat \ {0} : n = IF flat THEN 1 ELSE N
  BY NestedAssumption
<1>4. bound \in [1 .. n + 1 -> 0 .. Len(lens)]
  BY <1>1, <1>3
<1>5. bound \in Seq(0 .. Len(lens)) /\ Len(bound) = n + 1
  BY <1>4
<1>6. Len(bound) >= 2 /\ (flat => Len(bound) = 2)
  BY <1>3, <1>5
<1>7. PartsInv
  BY <1>1, <1>2, <1>5, <1>6, Zenon DEF PartsInv
<1> QED
  BY <1>1, <1>7 DEF NestedInv

LEMMA NestedNextInv == NestedInv /\ Nested!NestedNext => NestedInv'
<1> SUFFICES ASSUME NestedInv, Nested!NestedNext PROVE NestedInv'
  OBVIOUS
<1>1. CASE Nested!Initialize \/ Nested!InitializeFlat
  BY <1>1, InitializeKeeps
<1>2. CASE Nested!FlatStep
  <2>1. 1 \in Nested!Parts
    BY <1>2, PartFacts DEF Nested!FlatStep, NestedInv
  <2> QED
    BY <1>2, <2>1, EmplaceKeeps, AdvanceGroupKeeps DEF Nested!FlatStep
<1>3. CASE Nested!Build \/ Nested!BuildFlat
  BY <1>3, BuildKeeps
<1>4. CASE \E t \in Nested!Parts : Nested!Emplace(t) \/ Nested!AdvanceGroup(t)
  BY <1>4, EmplaceKeeps, AdvanceGroupKeeps
<1> QED
  BY <1>1, <1>2, <1>3, <1>4 DEF Nested!NestedNext

LEMMA NestedStutterInv == NestedInv /\ UNCHANGED nestedOnly => NestedInv'
<1> SUFFICES ASSUME NestedInv, UNCHANGED nestedOnly PROVE NestedInv'
  OBVIOUS
<1>1. UNCHANGED <<flat, lens, bound, offsets, values, offsetAt, valueAt, built>>
  BY DEF nestedOnly
<1>2. PartsInv' /\ Nested!Parts' = Nested!Parts /\ \A h : Nested!Before(h)' = Nested!Before(h)
  BY <1>1, SameParts DEF NestedInv
<1>3. ASSUME CursorsInv, WrittenInv PROVE CursorsInv' /\ WrittenInv'
  BY <1>1, <1>2, <1>3 DEF CursorsInv, WrittenInv, Nested!Raw
<1> QED
  BY <1>1, <1>2, <1>3 DEF NestedInv

\* Once the builders have come to the ends of their parts, every group is there.
LEMMA AllWritten ==
  ASSUME NestedInv, built
  PROVE  /\ CursorsInv /\ WrittenInv /\ PartsInv
         /\ \A g \in 0 .. Len(lens) : offsets[g] = Nested!Before(g)
         /\ \A x \in 0 .. Nested!Before(Len(lens)) - 1 : values[x] = x
<1>1. /\ CursorsInv /\ WrittenInv /\ PartsInv
      /\ \A t \in Nested!Parts : offsetAt[t] = bound[t + 1]
  BY DEF NestedInv
<1>2. lens \in Seq(Nat) /\ Len(lens) \in Nat
  BY <1>1, PartFacts
<1>3. /\ Nested!Before(0) = 0
      /\ \A h \in 0 .. Len(lens) : Nested!Before(h) \in Nat
      /\ \A h \in 1 .. Len(lens) : Nested!Before(h) = Nested!Before(h - 1) + lens[h]
  BY <1>2, BeforeIs
<1>4. ASSUME NEW g \in 0 .. Len(lens) PROVE offsets[g] = Nested!Before(g)
  <2>1. CASE g = 0
    BY <2>1, <1>1, <1>3 DEF WrittenInv
  <2>2. CASE g # 0
    <3>1. g \in 1 .. Len(lens)
      BY <1>2, <2>2
    <3>2. \E t \in Nested!Parts : bound[t] < g /\ g <= offsetAt[t]
      BY <1>1, <3>1, InSomePart
    <3> QED
      BY <1>1, <3>1, <3>2 DEF WrittenInv
  <2> QED
    BY <2>1, <2>2
<1>5. ASSUME NEW x \in 0 .. Nested!Before(Len(lens)) - 1 PROVE values[x] = x
  <2> DEFINE T == {h \in 1 .. Len(lens) : x < Nested!Before(h)}
  <2>1. Nested!Before(Len(lens)) \in Nat /\ x \in Nat /\ x < Nested!Before(Len(lens)) /\ Len(lens) # 0
    <3>1. Nested!Before(Len(lens)) \in Nat
      BY <1>2, <1>3
    <3> QED
      BY <3>1, <1>3
  <2>2. T \in SUBSET Nat /\ T # {}
    BY <1>2, <2>1
  <2>3. PICK h \in T : \A l \in T : h <= l
    BY <2>2, LeastElement
  <2>4. h \in 1 .. Len(lens) /\ h \in 0 .. Len(lens) /\ h - 1 \in 0 .. Len(lens) /\ x < Nested!Before(h)
    BY <2>3, <1>2
  <2>5. Nested!Before(h - 1) <= x
    <3>1. CASE h = 1
      BY <3>1, <1>3, <2>1
    <3>2. CASE h # 1
      <4>1. h - 1 \in 1 .. Len(lens) /\ ~ (h <= h - 1)
        BY <3>2, <2>4, <1>2
      <4>2. ~ (x < Nested!Before(h - 1))
        BY <4>1, <2>3
      <4> QED
        BY <4>2, <2>1, <2>4, <1>3
    <3> QED
      BY <3>1, <3>2
  <2>6. PICK t \in Nested!Parts : bound[t] < h /\ h <= bound[t + 1]
    BY <1>1, <2>4, InSomePart
  <2>7. bound[t] \in 0 .. Len(lens) /\ bound[t + 1] \in 0 .. Len(lens) /\ bound[t] <= h - 1
    <3>1. bound[t] \in 0 .. Len(lens) /\ bound[t + 1] \in 0 .. Len(lens)
      BY <1>1, PartFacts
    <3> QED
      BY <3>1, <2>4, <2>6, <1>2
  <2>8. Nested!Before(bound[t]) <= Nested!Before(h - 1) /\ Nested!Before(h) <= Nested!Before(bound[t + 1])
    BY <2>4, <2>6, <2>7, <1>2, BeforeAscends
  <2>9. valueAt[t] = Nested!Before(bound[t + 1])
    <3>1. ~ (offsetAt[t] < bound[t + 1])
      BY <1>1, <2>7
    <3> QED
      BY <3>1, <1>1 DEF CursorsInv
  <2>10. x \in Nested!Before(bound[t]) .. valueAt[t] - 1
    <3>1. /\ Nested!Before(bound[t]) \in Nat /\ Nested!Before(bound[t + 1]) \in Nat
          /\ Nested!Before(h - 1) \in Nat /\ Nested!Before(h) \in Nat
      BY <2>4, <2>7, <1>3
    <3> QED
      BY <3>1, <2>1, <2>4, <2>5, <2>8, <2>9
  <2> QED
    BY <2>10, <1>1 DEF WrittenInv
<1> QED
  BY <1>1, <1>4, <1>5

LEMMA GroupsAreThere == NestedInv => Nested!GroupsAreRight
<1> SUFFICES ASSUME NestedInv PROVE Nested!GroupsAreRight
  OBVIOUS
<1>1. PartsInv /\ lens \in Seq(Nat) /\ Len(lens) \in Nat
  BY PartFacts DEF NestedInv
<1>2. /\ Nested!Before(0) = 0
      /\ \A h \in 0 .. Len(lens) : Nested!Before(h) \in Nat
      /\ \A h \in 1 .. Len(lens) : Nested!Before(h) = Nested!Before(h - 1) + lens[h] /\ lens[h] \in Nat
  BY <1>1, BeforeIs
<1>3. ASSUME built PROVE Nested!GroupNum = Len(lens)
  <2>1. DOMAIN offsets = 0 .. Len(lens)
    BY <1>3, AllWritten DEF WrittenInv
  <2>2. Cardinality(0 .. Len(lens)) = Len(lens) + 1
    BY <1>1, FS_Interval
  <2> QED
    BY <1>1, <2>1, <2>2 DEF Nested!GroupNum
<1>4. ASSUME built, NEW g \in 0 .. Len(lens) - 1
      PROVE  Nested!Group(g) = [i \in 1 .. lens[g + 1] |-> Nested!Before(g) + i - 1]
  <2>1. g \in 0 .. Len(lens) /\ g + 1 \in 1 .. Len(lens) /\ g + 1 \in 0 .. Len(lens) /\ (g + 1) - 1 = g
    BY <1>1
  <2>2. offsets[g] = Nested!Before(g) /\ offsets[g + 1] = Nested!Before(g + 1)
    BY <1>4, <2>1, AllWritten
  <2>3. /\ Nested!Before(g) \in Nat /\ lens[g + 1] \in Nat
        /\ Nested!Before(g + 1) = Nested!Before(g) + lens[g + 1]
    BY <1>2, <2>1
  <2>4. offsets[g + 1] - offsets[g] = lens[g + 1]
    BY <2>2, <2>3
  <2>5. Nested!Before(g + 1) <= Nested!Before(Len(lens)) /\ Nested!Before(Len(lens)) \in Nat
    <3>1. Len(lens) \in 0 .. Len(lens) /\ g + 1 <= Len(lens)
      BY <1>1, <2>1
    <3> QED
      BY <3>1, <1>1, <1>2, <2>1, BeforeAscends
  <2>6. ASSUME NEW i \in 1 .. lens[g + 1]
        PROVE  values[offsets[g] + i - 1] = Nested!Before(g) + i - 1
    <3>1. Nested!Before(g) + i - 1 \in 0 .. Nested!Before(Len(lens)) - 1
      BY <2>3, <2>5
    <3> QED
      BY <3>1, <2>2, <1>4, AllWritten
  <2> QED
    BY <2>4, <2>6 DEF Nested!Group
<1>5. ASSUME offsetAt # <<>>, NEW g \in 1 .. Len(lens)
      PROVE  offsets[g] # Nested!Raw <=> \E t \in Nested!Parts : bound[t] < g /\ g <= offsetAt[t]
  <2>1. offsets[g] = IF \E t \in Nested!Parts : bound[t] < g /\ g <= offsetAt[t]
                     THEN Nested!Before(g) ELSE Nested!Raw
    BY <1>5 DEF NestedInv, WrittenInv
  <2>2. Nested!Before(g) # Nested!Raw
    <3>1. g \in 0 .. Len(lens)
      BY <1>1
    <3> QED
      BY <3>1, <1>2 DEF Nested!Raw
  <2> QED
    BY <2>1, <2>2
<1> QED
  BY <1>3, <1>4, <1>5 DEF Nested!GroupsAreRight

-----------------------------------------------------------------------------
(* Flat maps: the order and the first of some positions *)

LEMMA KeyOrder ==
  ASSUME NEW k \in Keys, NEW l \in Keys
  PROVE  /\ ~ Flat!Before(k, k) /\ (k # l => Flat!Before(k, l) \/ Flat!Before(l, k)) /\ (Flat!Before(k, l) => ~ Flat!Before(l, k))
         /\ \A m \in Keys : Flat!Before(k, l) /\ Flat!Before(l, m) => Flat!Before(k, m)
BY FlatAssumption DEF Flat!Before

LEMMA FirstIs ==
  ASSUME NEW n \in Nat, NEW S \in SUBSET (1 .. n)
  PROVE  /\ Flat!FirstOf(S, n) \in 1 .. n + 1
         /\ \A j \in 1 .. Flat!FirstOf(S, n) - 1 : j \notin S
         /\ Flat!FirstOf(S, n) <= n => Flat!FirstOf(S, n) \in S
<1>1. CASE S = {}
  BY <1>1 DEF Flat!FirstOf
<1>2. CASE S # {}
  <2> DEFINE m == CHOOSE i \in S : \A j \in S : i <= j
  <2>1. S \in SUBSET Nat
    OBVIOUS
  <2>2. \E i \in S : \A j \in S : i <= j
    BY <1>2, <2>1, LeastElement
  <2>3. m \in S /\ \A j \in S : m <= j
    BY <2>2, Zenon
  <2>4. Flat!FirstOf(S, n) = m
    BY <1>2 DEF Flat!FirstOf
  <2> HIDE DEF m
  <2>5. m \in 1 .. n + 1 /\ m \in Nat
    BY <2>3
  <2>6. \A j \in 1 .. m - 1 : j \notin S
    BY <2>3, <2>5
  <2> QED
    BY <2>3, <2>4, <2>5, <2>6
<1> QED
  BY <1>1, <1>2

LEMMA PairIs ==
  ASSUME NEW p \in Flat!Pairs
  PROVE  p[1] \in Keys /\ p[2] \in Mapped /\ p = <<p[1], p[2]>>
BY DEF Flat!Pairs

Ordered(s) == \A i, j \in 1 .. Len(s) : i < j => Flat!Before(s[i][1], s[j][1])

IsMap(f) ==
  /\ DOMAIN f \in SUBSET Keys
  /\ f = [k \in DOMAIN f |-> f[k]]
  /\ \A k \in DOMAIN f : f[k] \in Mapped /\ (isSet => f[k] = Flat!Unit)

\* s has the pairs of f, and no others.
Covers(s, f) == \A k \in DOMAIN f : \E i \in 1 .. Len(s) : s[i][1] = k /\ s[i][2] = f[k]
Within(s, f) == \A i \in 1 .. Len(s) : s[i][1] \in DOMAIN f /\ s[i][2] = f[s[i][1]]
Enumerates(s, f) == s \in Seq(Flat!Pairs) /\ Ordered(s) /\ Covers(s, f) /\ Within(s, f)

FlatInv ==
  /\ isSet \in BOOLEAN /\ descending \in BOOLEAN /\ wrongOrder \in BOOLEAN
  /\ IsMap(dict)
  /\ data \in Seq(Flat!Pairs) /\ Ordered(data) /\ Covers(data, dict)
  /\ ~ wrongOrder => Within(data, dict)

LEMMA SequenceIs ==
  ASSUME NEW s \in Seq(Flat!Pairs)
  PROVE  /\ Len(s) \in Nat
         /\ \A i \in 1 .. Len(s) : s[i] \in Flat!Pairs /\ s[i][1] \in Keys /\ s[i][2] \in Mapped
                                   /\ s[i] = <<s[i][1], s[i][2]>>
BY PairIs

\* Keys of an ordered sequence are those of different positions.
LEMMA KeysDiffer ==
  ASSUME NEW s \in Seq(Flat!Pairs), Ordered(s), NEW i \in 1 .. Len(s), NEW j \in 1 .. Len(s), s[i][1] = s[j][1]
  PROVE  i = j
<1>1. s[i][1] \in Keys /\ s[j][1] \in Keys /\ i \in Nat /\ j \in Nat
  BY SequenceIs
<1>2. ~ (i < j) /\ ~ (j < i)
  BY <1>1, KeyOrder DEF Ordered
<1> QED
  BY <1>1, <1>2

\* In an ordered sequence everything before the lower bound is before the key, nothing else is.
Bounds(s, k, a) ==
  /\ a \in 1 .. Len(s) + 1
  /\ \A j \in 1 .. a - 1 : Flat!Before(s[j][1], k)
  /\ \A j \in 1 .. Len(s) : a <= j => ~ Flat!Before(s[j][1], k)
  /\ \A j \in 1 .. Len(s) : s[j][1] = k => j = a
  /\ \A j \in 1 .. Len(s) : a <= j /\ s[a][1] # k => Flat!Before(k, s[j][1])
  /\ \A j \in 1 .. Len(s) : a < j => Flat!Before(k, s[j][1])

LEMMA LowerBoundIs ==
  ASSUME NEW s \in Seq(Flat!Pairs), Ordered(s), NEW k \in Keys
  PROVE  Bounds(s, k, Flat!LowerBoundIn(s, k))
<1> DEFINE n == Len(s)
           S == {i \in 1 .. n : ~ Flat!Before(s[i][1], k)}
           a == Flat!FirstOf(S, n)
<1>1. n \in Nat /\ S \in SUBSET (1 .. n)
  OBVIOUS
<1>2. \A i \in 1 .. n : s[i][1] \in Keys
  BY SequenceIs
<1>3. Flat!LowerBoundIn(s, k) = a
  BY DEF Flat!LowerBoundIn
<1>4. a \in 1 .. n + 1 /\ (\A j \in 1 .. a - 1 : j \notin S) /\ (a <= n => a \in S)
  BY <1>1, FirstIs
<1>5. \A i, j \in 1 .. n : i < j => Flat!Before(s[i][1], s[j][1])
  BY DEF Ordered
<1>6. \A j \in 1 .. n : j \in S <=> ~ Flat!Before(s[j][1], k)
  OBVIOUS
<1> HIDE DEF S, a, n
<1>7. \A j \in 1 .. a - 1 : j \in 1 .. n /\ Flat!Before(s[j][1], k)
  BY <1>1, <1>4, <1>6
<1>8. ASSUME NEW j \in 1 .. n, a <= j PROVE ~ Flat!Before(s[j][1], k)
  <2>1. a \in 1 .. n /\ ~ Flat!Before(s[a][1], k)
    BY <1>1, <1>4, <1>6, <1>8
  <2>2. a = j \/ Flat!Before(s[a][1], s[j][1])
    BY <1>5, <1>8, <2>1
  <2> QED
    BY <1>2, <2>1, <2>2, KeyOrder
<1>9. ASSUME NEW j \in 1 .. n, a < j PROVE Flat!Before(k, s[j][1])
  <2>1. a \in 1 .. n /\ ~ Flat!Before(s[a][1], k)
    BY <1>1, <1>4, <1>6, <1>9
  <2>2. Flat!Before(s[a][1], s[j][1])
    BY <1>5, <1>9, <2>1
  <2>3. s[a][1] \in Keys /\ s[j][1] \in Keys
    BY <1>2, <2>1
  <2>4. s[a][1] = k \/ Flat!Before(k, s[a][1])
    BY <2>1, <2>3, KeyOrder
  <2> QED
    BY <2>2, <2>3, <2>4, KeyOrder
<1>10. ASSUME NEW j \in 1 .. n, s[j][1] = k PROVE j = a
  <2>1. ~ (j < a)
    BY <1>1, <1>4, <1>7, <1>10, KeyOrder
  <2>2. ~ (a < j)
    BY <1>9, <1>10, KeyOrder
  <2> QED
    BY <1>1, <1>4, <2>1, <2>2
<1>11. ASSUME NEW j \in 1 .. n, a <= j, s[a][1] # k PROVE Flat!Before(k, s[j][1])
  <2>1. s[j][1] # k
    BY <1>10, <1>11
  <2> QED
    BY <1>2, <1>8, <1>11, <2>1, KeyOrder
<1> QED
  BY <1>3, <1>4, <1>7, <1>8, <1>9, <1>10, <1>11 DEF Bounds, n

\* The key is found where the lower bound is, if it is there.
LEMMA FoundIs ==
  ASSUME NEW s \in Seq(Flat!Pairs), NEW f, Enumerates(s, f), NEW k \in Keys, NEW a, Bounds(s, k, a)
  PROVE  /\ (a <= Len(s) /\ s[a][1] = k) <=> k \in DOMAIN f
         /\ k \in DOMAIN f => a \in 1 .. Len(s) /\ s[a][1] = k /\ s[a][2] = f[k]
<1>1. a \in 1 .. Len(s) + 1 /\ Len(s) \in Nat /\ \A j \in 1 .. Len(s) : s[j][1] = k => j = a
  BY DEF Bounds
<1>2. ASSUME k \in DOMAIN f PROVE a \in 1 .. Len(s) /\ s[a][1] = k /\ s[a][2] = f[k]
  <2>1. PICK i \in 1 .. Len(s) : s[i][1] = k /\ s[i][2] = f[k]
    BY <1>2 DEF Enumerates, Covers
  <2> QED
    BY <1>1, <2>1
<1>3. ASSUME a <= Len(s), s[a][1] = k PROVE k \in DOMAIN f
  BY <1>1, <1>3 DEF Enumerates, Within
<1>4. a \in 1 .. Len(s) => a <= Len(s)
  BY <1>1
<1> QED
  BY <1>2, <1>3, <1>4

-----------------------------------------------------------------------------
(* Flat maps: insertion and erasure *)

\* z is s with e at i.
InsertedAt(z, s, i, e) ==
  /\ z \in Seq(Flat!Pairs) /\ Len(z) = Len(s) + 1
  /\ \A j \in 1 .. i - 1 : z[j] = s[j]
  /\ z[i] = e
  /\ \A j \in i + 1 .. Len(s) + 1 : z[j] = s[j - 1]

LEMMA InsertAtIs ==
  ASSUME NEW s \in Seq(Flat!Pairs), NEW i \in 1 .. Len(s) + 1, NEW e \in Flat!Pairs
  PROVE  InsertedAt(Flat!InsertAt(s, i, e), s, i, e)
<1> DEFINE p == SubSeq(s, 1, i - 1)
           q == SubSeq(s, i, Len(s))
           r == p \o <<e>>
           z == r \o q
<1>1. p \in Seq(Flat!Pairs) /\ Len(p) = i - 1 /\ \A j \in 1 .. i - 1 : p[j] = s[j]
  OBVIOUS
<1>2. q \in Seq(Flat!Pairs) /\ Len(q) = Len(s) - i + 1 /\ \A j \in 1 .. Len(s) - i + 1 : q[j] = s[i + j - 1]
  OBVIOUS
<1>3. Flat!InsertAt(s, i, e) = z
  BY DEF Flat!InsertAt
<1> HIDE DEF p, q
<1>4. r \in Seq(Flat!Pairs) /\ Len(r) = i /\ (\A j \in 1 .. i - 1 : r[j] = s[j]) /\ r[i] = e
  BY <1>1
<1> HIDE DEF r
<1>5. z \in Seq(Flat!Pairs) /\ Len(z) = Len(s) + 1 /\ (\A j \in 1 .. i : z[j] = r[j])
      /\ \A j \in i + 1 .. Len(s) + 1 : z[j] = q[j - i]
  <2>1. r \in Seq(Flat!Pairs) /\ q \in Seq(Flat!Pairs)
    BY <1>2, <1>4
  <2>2. /\ z \in Seq(Flat!Pairs) /\ Len(z) = Len(r) + Len(q)
        /\ \A j \in 1 .. Len(r) : z[j] = r[j]
        /\ \A j \in Len(r) + 1 .. Len(r) + Len(q) : z[j] = q[j - Len(r)]
    BY <2>1
  <2> HIDE DEF z
  <2>3. Len(r) = i /\ Len(r) + Len(q) = Len(s) + 1
    BY <1>2, <1>4
  <2> QED
    BY <2>2, <2>3
<1> HIDE DEF z
<1>6. \A j \in i + 1 .. Len(s) + 1 : j - i \in 1 .. Len(s) - i + 1 /\ i + (j - i) - 1 = j - 1
  OBVIOUS
<1>7. \A j \in i + 1 .. Len(s) + 1 : z[j] = s[j - 1]
  BY <1>2, <1>5, <1>6
<1> QED
  BY <1>3, <1>4, <1>5, <1>7 DEF InsertedAt

\* z is s without what is at i.
RemovedAt(z, s, i) ==
  /\ z \in Seq(Flat!Pairs) /\ Len(z) = Len(s) - 1
  /\ \A j \in 1 .. i - 1 : z[j] = s[j]
  /\ \A j \in i .. Len(s) - 1 : z[j] = s[j + 1]

LEMMA RemoveAtIs ==
  ASSUME NEW s \in Seq(Flat!Pairs), NEW i \in 1 .. Len(s)
  PROVE  RemovedAt(Flat!RemoveAt(s, i), s, i)
<1> DEFINE p == SubSeq(s, 1, i - 1)
           q == SubSeq(s, i + 1, Len(s))
           z == p \o q
<1>1. p \in Seq(Flat!Pairs) /\ Len(p) = i - 1 /\ \A j \in 1 .. i - 1 : p[j] = s[j]
  OBVIOUS
<1>2. q \in Seq(Flat!Pairs) /\ Len(q) = Len(s) - i /\ \A j \in 1 .. Len(s) - i : q[j] = s[i + j]
  OBVIOUS
<1>3. Flat!RemoveAt(s, i) = z
  BY DEF Flat!RemoveAt
<1> HIDE DEF p, q
<1>4. z \in Seq(Flat!Pairs) /\ Len(z) = Len(s) - 1 /\ (\A j \in 1 .. i - 1 : z[j] = p[j])
      /\ \A j \in i .. Len(s) - 1 : z[j] = q[j - i + 1]
  <2>1. p \in Seq(Flat!Pairs) /\ q \in Seq(Flat!Pairs)
    BY <1>1, <1>2
  <2>2. /\ z \in Seq(Flat!Pairs) /\ Len(z) = Len(p) + Len(q)
        /\ \A j \in 1 .. Len(p) : z[j] = p[j]
        /\ \A j \in Len(p) + 1 .. Len(p) + Len(q) : z[j] = q[j - Len(p)]
    BY <2>1
  <2> HIDE DEF z
  <2>3. \A j \in i .. Len(s) - 1 : j \in Len(p) + 1 .. Len(p) + Len(q) /\ j - Len(p) = j - i + 1
    BY <1>1, <1>2
  <2>4. \A j \in i .. Len(s) - 1 : z[j] = q[j - i + 1]
    BY <2>2, <2>3
  <2>5. Len(z) = Len(s) - 1 /\ \A j \in 1 .. i - 1 : z[j] = p[j]
    BY <1>1, <1>2, <2>2
  <2> QED
    BY <2>2, <2>4, <2>5
<1> HIDE DEF z
<1>5. \A j \in i .. Len(s) - 1 : j - i + 1 \in 1 .. Len(s) - i /\ i + (j - i + 1) = j + 1
  OBVIOUS
<1>6. \A j \in i .. Len(s) - 1 : z[j] = s[j + 1]
  BY <1>2, <1>4, <1>5
<1> QED
  BY <1>1, <1>3, <1>4, <1>6 DEF RemovedAt

LEMMA TailRemoves ==
  ASSUME NEW s \in Seq(Flat!Pairs), s # <<>>
  PROVE  RemovedAt(Tail(s), s, 1)
BY DEF RemovedAt

\* g maps k to v, and the other keys of f as f does.
Extended(g, f, k, v) == g = [l \in DOMAIN f \cup {k} |-> IF l = k THEN v ELSE f[l]]
\* g is f without the keys in D.
Reduced(g, f, D) == g = [l \in DOMAIN f \ D |-> f[l]]

\* A key that is missing comes in at its lower bound.
LEMMA InsertionEnumerates ==
  ASSUME NEW s, NEW f, Enumerates(s, f), IsMap(f), NEW k \in Keys, k \notin DOMAIN f,
         NEW v \in Mapped, isSet => v = Flat!Unit,
         NEW a, Bounds(s, k, a), NEW z, InsertedAt(z, s, a, <<k, v>>),
         NEW g, Extended(g, f, k, v)
  PROVE  Enumerates(z, g) /\ IsMap(g)
<1> DEFINE n == Len(s)
<1>1. s \in Seq(Flat!Pairs) /\ Ordered(s) /\ n \in Nat /\ a \in 1 .. n + 1 /\ z \in Seq(Flat!Pairs) /\ Len(z) = n + 1
  BY DEF Enumerates, Bounds, InsertedAt
<1>2. \A i \in 1 .. n : s[i][1] \in DOMAIN f /\ s[i][1] # k /\ s[i][2] = f[s[i][1]]
  BY DEF Enumerates, Within
<1>3. (\A j \in 1 .. a - 1 : Flat!Before(s[j][1], k)) /\ \A j \in 1 .. n : a <= j => Flat!Before(k, s[j][1])
  <2>1. \A j \in 1 .. n : a <= j => s[a][1] # k
    BY <1>1, <1>2
  <2> QED
    BY <2>1 DEF Bounds
<1>4. /\ \A j \in 1 .. a - 1 : z[j] = s[j]
      /\ z[a][1] = k /\ z[a][2] = v
      /\ \A j \in a + 1 .. n + 1 : z[j] = s[j - 1]
  BY DEF InsertedAt
<1>5. DOMAIN g = DOMAIN f \cup {k} /\ g[k] = v /\ (\A l \in DOMAIN f : g[l] = f[l]) /\ g = [l \in DOMAIN g |-> g[l]]
  BY DEF Extended
<1>6. \A i, j \in 1 .. n : i < j => Flat!Before(s[i][1], s[j][1])
  BY <1>1 DEF Ordered
<1> HIDE DEF n
<1>7. \A j \in a + 1 .. n + 1 : j - 1 \in 1 .. n /\ a <= j - 1
  BY <1>1
<1>8. \A j \in 1 .. a - 1 : j \in 1 .. n
  BY <1>1
<1>9. Ordered(z)
  <2>1. ASSUME NEW i \in 1 .. n + 1, NEW j \in 1 .. n + 1, i < j PROVE Flat!Before(z[i][1], z[j][1])
    <3>1. CASE j < a
      <4>1. i \in 1 .. a - 1 /\ j \in 1 .. a - 1 /\ i \in 1 .. n /\ j \in 1 .. n
        BY <1>1, <2>1, <3>1
      <4> QED
        BY <1>4, <1>6, <2>1, <4>1
    <3>2. CASE j = a
      <4>1. i \in 1 .. a - 1
        BY <1>1, <2>1, <3>2
      <4> QED
        BY <1>3, <1>4, <3>2, <4>1
    <3>3. CASE a < j /\ i = a
      <4>1. j \in a + 1 .. n + 1
        BY <1>1, <3>3
      <4> QED
        BY <1>3, <1>4, <1>7, <3>3, <4>1
    <3>4. CASE a < j /\ i < a
      <4>1. j \in a + 1 .. n + 1 /\ i \in 1 .. a - 1 /\ i < j - 1 /\ i \in 1 .. n
        BY <1>1, <3>4
      <4> QED
        BY <1>4, <1>6, <1>7, <4>1
    <3>5. CASE a < j /\ a < i
      <4>1. j \in a + 1 .. n + 1 /\ i \in a + 1 .. n + 1 /\ i - 1 < j - 1
        BY <1>1, <2>1, <3>5
      <4> QED
        BY <1>4, <1>6, <1>7, <4>1
    <3> QED
      BY <1>1, <3>1, <3>2, <3>3, <3>4, <3>5
  <2> QED
    BY <1>1, <2>1 DEF Ordered
<1>10. Within(z, g)
  <2>1. ASSUME NEW j \in 1 .. n + 1 PROVE z[j][1] \in DOMAIN g /\ z[j][2] = g[z[j][1]]
    <3>1. CASE j < a
      <4>1. j \in 1 .. a - 1
        BY <1>1, <3>1
      <4> QED
        BY <1>2, <1>4, <1>5, <1>8, <4>1
    <3>2. CASE j = a
      BY <1>4, <1>5, <3>2
    <3>3. CASE a < j
      <4>1. j \in a + 1 .. n + 1
        BY <1>1, <3>3
      <4> QED
        BY <1>2, <1>4, <1>5, <1>7, <4>1
    <3> QED
      BY <1>1, <3>1, <3>2, <3>3
  <2> QED
    BY <1>1, <2>1 DEF Within
<1>11. Covers(z, g)
  <2>1. ASSUME NEW l \in DOMAIN f PROVE \E j \in 1 .. n + 1 : z[j][1] = l /\ z[j][2] = g[l]
    <3>1. PICK i \in 1 .. n : s[i][1] = l /\ s[i][2] = f[l]
      BY DEF Enumerates, Covers, n
    <3>2. CASE i < a
      <4>1. i \in 1 .. a - 1 /\ i \in 1 .. n + 1
        BY <1>1, <3>2
      <4> QED
        BY <1>4, <1>5, <3>1, <4>1
    <3>3. CASE a <= i
      <4>1. PICK j \in a + 1 .. n + 1 : j = i + 1
        BY <1>1, <3>3
      <4>2. j - 1 = i /\ j \in 1 .. n + 1
        BY <1>1, <4>1
      <4> QED
        BY <1>4, <1>5, <3>1, <4>2
    <3> QED
      BY <1>1, <3>2, <3>3
  <2>2. a \in 1 .. n + 1
    BY <1>1
  <2> QED
    BY <1>1, <1>4, <1>5, <2>1, <2>2 DEF Covers
<1>12. IsMap(g)
  BY <1>5 DEF IsMap
<1> QED
  BY <1>1, <1>9, <1>10, <1>11, <1>12 DEF Enumerates

\* Without the pair of a key the other pairs are left.
LEMMA RemovalEnumerates ==
  ASSUME NEW s, NEW f, Enumerates(s, f), IsMap(f), NEW a \in 1 .. Len(s), NEW z, RemovedAt(z, s, a),
         NEW g, Reduced(g, f, {s[a][1]})
  PROVE  Enumerates(z, g) /\ IsMap(g)
<1> DEFINE n == Len(s)
<1>1. s \in Seq(Flat!Pairs) /\ Ordered(s) /\ n \in Nat /\ a \in 1 .. n /\ z \in Seq(Flat!Pairs) /\ Len(z) = n - 1
  BY DEF Enumerates, RemovedAt
<1>2. \A i \in 1 .. n : s[i][1] \in DOMAIN f /\ s[i][2] = f[s[i][1]]
  BY DEF Enumerates, Within
<1>3. \A i \in 1 .. n : s[i][1] = s[a][1] => i = a
  BY <1>1, KeysDiffer
<1>4. (\A j \in 1 .. a - 1 : z[j] = s[j]) /\ \A j \in a .. n - 1 : z[j] = s[j + 1]
  BY DEF RemovedAt
<1>5. DOMAIN g = DOMAIN f \ {s[a][1]} /\ (\A l \in DOMAIN g : g[l] = f[l]) /\ g = [l \in DOMAIN g |-> g[l]]
  BY DEF Reduced
<1>6. \A i, j \in 1 .. n : i < j => Flat!Before(s[i][1], s[j][1])
  BY <1>1 DEF Ordered
<1> HIDE DEF n
\* where an element comes from
<1>7. ASSUME NEW j \in 1 .. n - 1
      PROVE  \E i \in 1 .. n : z[j] = s[i] /\ i = IF j < a THEN j ELSE j + 1
  <2>1. CASE j < a
    BY <1>1, <1>4, <2>1
  <2>2. CASE a <= j
    <3>1. j \in a .. n - 1 /\ j + 1 \in 1 .. n
      BY <1>1, <2>2
    <3> QED
      BY <1>1, <1>4, <2>2, <3>1
  <2> QED
    BY <1>1, <2>1, <2>2
<1>8. Ordered(z)
  <2>1. ASSUME NEW i \in 1 .. n - 1, NEW j \in 1 .. n - 1, i < j PROVE Flat!Before(z[i][1], z[j][1])
    <3>1. PICK u \in 1 .. n : z[i] = s[u] /\ u = IF i < a THEN i ELSE i + 1
      BY <1>7
    <3>2. PICK w \in 1 .. n : z[j] = s[w] /\ w = IF j < a THEN j ELSE j + 1
      BY <1>7
    <3>3. u < w
      BY <1>1, <2>1, <3>1, <3>2
    <3> QED
      BY <1>6, <3>1, <3>2, <3>3
  <2> QED
    BY <1>1, <2>1 DEF Ordered
<1>9. Within(z, g)
  <2>1. ASSUME NEW j \in 1 .. n - 1 PROVE z[j][1] \in DOMAIN g /\ z[j][2] = g[z[j][1]]
    <3>1. PICK i \in 1 .. n : z[j] = s[i] /\ i = IF j < a THEN j ELSE j + 1
      BY <1>7
    <3>2. i # a
      BY <1>1, <3>1
    <3> QED
      BY <1>2, <1>3, <1>5, <3>1, <3>2
  <2> QED
    BY <1>1, <2>1 DEF Within
<1>10. Covers(z, g)
  <2>1. ASSUME NEW l \in DOMAIN g PROVE \E j \in 1 .. n - 1 : z[j][1] = l /\ z[j][2] = g[l]
    <3>1. PICK i \in 1 .. n : s[i][1] = l /\ s[i][2] = f[l]
      BY <1>5 DEF Enumerates, Covers, n
    <3>2. i # a
      BY <1>5, <3>1
    <3>3. CASE i < a
      <4>1. i \in 1 .. a - 1 /\ i \in 1 .. n - 1
        BY <1>1, <3>3
      <4> QED
        BY <1>4, <1>5, <3>1, <4>1
    <3>4. CASE a < i
      <4>1. PICK j \in a .. n - 1 : j = i - 1
        BY <1>1, <3>4
      <4>2. j + 1 = i /\ j \in 1 .. n - 1
        BY <1>1, <4>1
      <4> QED
        BY <1>4, <1>5, <3>1, <4>2
    <3>5. i < a \/ a < i
      BY <1>1, <3>2
    <3> QED
      BY <3>3, <3>4, <3>5
  <2> QED
    BY <1>1, <2>1 DEF Covers
<1>11. IsMap(g)
  BY <1>5 DEF IsMap
<1> QED
  BY <1>1, <1>8, <1>9, <1>10, <1>11 DEF Enumerates

-----------------------------------------------------------------------------
(* Flat maps: passes over a range *)

\* g[n] is b with those of the first n elements of s whose positions are in I.
Picking(g, m, b, s, I) ==
  g = [n \in 0 .. m |-> IF n = 0 THEN b ELSE IF n \in I THEN Append(g[n - 1], s[n]) ELSE g[n - 1]]

LEMMA PickingExists ==
  ASSUME NEW top \in Nat, NEW b, NEW s, NEW I
  PROVE  \E g : Picking(g, top, b, s, I)
<1> DEFINE P == {m \in 0 .. top : \E g : Picking(g, m, b, s, I)}
<1>1. 0 \in P
  <2> DEFINE f == [n \in 0 .. 0 |-> b]
  <2>1. f = [n \in 0 .. 0 |-> IF n = 0 THEN b ELSE IF n \in I THEN Append(f[n - 1], s[n]) ELSE f[n - 1]]
    OBVIOUS
  <2>2. Picking(f, 0, b, s, I)
    BY <2>1 DEF Picking
  <2> HIDE DEF f
  <2> QED
    BY <2>2
<1>2. ASSUME NEW m \in 0 .. top - 1, m \in P PROVE m + 1 \in P
  <2>1. PICK g : Picking(g, m, b, s, I)
    BY <1>2
  <2> DEFINE f == [n \in 0 .. m + 1 |->
                     IF n = m + 1 THEN IF n \in I THEN Append(g[m], s[n]) ELSE g[m] ELSE g[n]]
  <2>2. \A n \in 0 .. m + 1 :
          f[n] = IF n = 0 THEN b ELSE IF n \in I THEN Append(f[n - 1], s[n]) ELSE f[n - 1]
    <3> TAKE n \in 0 .. m + 1
    <3>1. CASE n = m + 1
      <4>1. n # 0 /\ n - 1 = m /\ f[m] = g[m]
        BY <3>1
      <4>2. f[n] = IF n \in I THEN Append(g[m], s[n]) ELSE g[m]
        BY <3>1
      <4> HIDE DEF f
      <4> QED
        BY <4>1, <4>2
    <3>2. CASE n # m + 1
      <4>1. n \in 0 .. m /\ f[n] = g[n] /\ (n # 0 => f[n - 1] = g[n - 1])
        BY <3>2
      <4>2. g[n] = IF n = 0 THEN b ELSE IF n \in I THEN Append(g[n - 1], s[n]) ELSE g[n - 1]
        BY <2>1, <4>1 DEF Picking
      <4> HIDE DEF f
      <4> QED
        BY <4>1, <4>2
    <3> QED
      BY <3>1, <3>2
  <2>3. f = [n \in 0 .. m + 1 |-> f[n]]
    OBVIOUS
  <2>4. Picking(f, m + 1, b, s, I)
    <3> HIDE DEF f
    <3> QED
      BY <2>2, <2>3 DEF Picking
  <2> HIDE DEF f
  <2> QED
    BY <2>4
<1> HIDE DEF P
<1>3. top \in P
  BY <1>1, <1>2, CountUp
<1> QED
  BY <1>3 DEF P

\* z is b and behind it the elements of s at the positions in I up to n, in order; h says which.
PicksBy(h, z, b, s, I, n) ==
  /\ z \in Seq(Flat!Pairs) /\ Len(b) <= Len(z) /\ \A j \in 1 .. Len(b) : z[j] = b[j]
  /\ h \in [Len(b) + 1 .. Len(z) -> 1 .. n]
  /\ \A j \in Len(b) + 1 .. Len(z) : h[j] \in I /\ z[j] = s[h[j]]
  /\ \A i, j \in Len(b) + 1 .. Len(z) : i < j => h[i] < h[j]
  /\ \A i \in 1 .. n : i \in I => \E j \in Len(b) + 1 .. Len(z) : h[j] = i
Picks(z, b, s, I, n) == \E h : PicksBy(h, z, b, s, I, n)

LEMMA PicksNone ==
  ASSUME NEW b \in Seq(Flat!Pairs), NEW s, NEW I
  PROVE  Picks(b, b, s, I, 0)
<1>1. PicksBy([j \in Len(b) + 1 .. Len(b) |-> 0], b, b, s, I, 0)
  BY DEF PicksBy
<1> QED
  BY <1>1 DEF Picks

LEMMA PicksOne ==
  ASSUME NEW b \in Seq(Flat!Pairs), NEW s \in Seq(Flat!Pairs), NEW I, NEW n \in 0 .. Len(s) - 1, NEW z, Picks(z, b, s, I, n)
  PROVE  Picks(IF n + 1 \in I THEN Append(z, s[n + 1]) ELSE z, b, s, I, n + 1)
<1>1. PICK h : PicksBy(h, z, b, s, I, n)
  BY DEF Picks
<1> DEFINE lo == Len(b) + 1
           hi == Len(z)
<1>2. /\ z \in Seq(Flat!Pairs) /\ lo \in Nat /\ hi \in Nat /\ lo <= hi + 1 /\ n \in Nat
      /\ \A j \in 1 .. lo - 1 : z[j] = b[j]
  BY <1>1 DEF PicksBy
<1>3. /\ h \in [lo .. hi -> 1 .. n]
      /\ \A j \in lo .. hi : h[j] \in I /\ z[j] = s[h[j]]
      /\ \A i, j \in lo .. hi : i < j => h[i] < h[j]
      /\ \A i \in 1 .. n : i \in I => \E j \in lo .. hi : h[j] = i
  BY <1>1 DEF PicksBy
<1>4. CASE n + 1 \in I
  <2> DEFINE e == s[n + 1]
             w == Append(z, e)
             f == [j \in lo .. hi + 1 |-> IF j = hi + 1 THEN n + 1 ELSE h[j]]
  <2>1. e \in Flat!Pairs
    BY <1>2
  <2> HIDE DEF e
  <2>2. w \in Seq(Flat!Pairs) /\ Len(w) = hi + 1 /\ (\A j \in 1 .. hi : w[j] = z[j]) /\ w[hi + 1] = e
    BY <1>2, <2>1
  <2> HIDE DEF w, lo, hi
  <2>3. f[hi + 1] = n + 1 /\ \A j \in lo .. hi : f[j] = h[j]
    BY <1>2
  <2>4. f \in [lo .. hi + 1 -> 1 .. n + 1]
    BY <1>2, <1>3
  <2> HIDE DEF f
  <2>5. \A j \in lo .. hi + 1 : f[j] \in I /\ w[j] = s[f[j]]
    <3> TAKE j \in lo .. hi + 1
    <3>1. CASE j = hi + 1
      BY <1>4, <2>2, <2>3, <3>1 DEF e
    <3>2. CASE j # hi + 1
      <4>1. j \in lo .. hi /\ j \in 1 .. hi
        BY <1>2, <3>2 DEF lo
      <4> QED
        BY <1>3, <2>2, <2>3, <4>1
    <3> QED
      BY <3>1, <3>2
  <2>6. ASSUME NEW i \in lo .. hi + 1, NEW j \in lo .. hi + 1, i < j PROVE f[i] < f[j]
    <3>1. i \in lo .. hi /\ f[i] = h[i] /\ h[i] \in 1 .. n
      BY <1>2, <1>3, <2>3, <2>6
    <3>2. CASE j = hi + 1
      BY <1>2, <2>3, <3>1, <3>2
    <3>3. CASE j # hi + 1
      <4>1. j \in lo .. hi
        BY <1>2, <3>3
      <4> QED
        BY <1>3, <2>3, <2>6, <3>1, <4>1
    <3> QED
      BY <3>2, <3>3
  <2>7. ASSUME NEW i \in 1 .. n + 1, i \in I PROVE \E j \in lo .. hi + 1 : f[j] = i
    <3>1. CASE i = n + 1
      <4>1. hi + 1 \in lo .. hi + 1
        BY <1>2
      <4> QED
        BY <2>3, <3>1, <4>1
    <3>2. CASE i # n + 1
      <4>1. i \in 1 .. n
        BY <1>2, <3>2
      <4>2. PICK j \in lo .. hi : h[j] = i
        BY <1>3, <2>7, <4>1
      <4>3. j \in lo .. hi + 1
        BY <1>2
      <4> QED
        BY <2>3, <4>2, <4>3
    <3> QED
      BY <3>1, <3>2
  <2>8. \A j \in 1 .. lo - 1 : w[j] = b[j]
    <3>1. \A j \in 1 .. lo - 1 : j \in 1 .. hi
      BY <1>2
    <3> QED
      BY <1>2, <2>2, <3>1
  <2>9. Len(b) = lo - 1 /\ lo - 1 <= hi + 1
    BY <1>2 DEF lo
  <2>10. PicksBy(f, w, b, s, I, n + 1)
    <3>1. Len(b) <= Len(w) /\ Len(b) + 1 = lo /\ Len(w) = hi + 1
      BY <2>2, <2>9 DEF lo
    <3>2. \A j \in 1 .. Len(b) : w[j] = b[j]
      BY <2>8, <2>9
    <3> QED
      BY <2>2, <2>4, <2>5, <2>6, <2>7, <3>1, <3>2, Zenon DEF PicksBy
  <2> QED
    BY <1>4, <2>10 DEF Picks, w, e
<1>5. CASE n + 1 \notin I
  <2> HIDE DEF lo, hi
  <2>1. h \in [lo .. hi -> 1 .. n + 1]
    BY <1>2, <1>3
  <2>2. ASSUME NEW i \in 1 .. n + 1, i \in I PROVE \E j \in lo .. hi : h[j] = i
    <3>1. i \in 1 .. n
      BY <1>2, <1>5, <2>2
    <3> QED
      BY <1>3, <2>2, <3>1
  <2>3. PicksBy(h, z, b, s, I, n + 1)
    <3>1. Len(b) <= Len(z) /\ \A j \in 1 .. Len(b) : z[j] = b[j]
      BY <1>1 DEF PicksBy
    <3> QED
      BY <1>2, <1>3, <2>1, <2>2, <3>1, Zenon DEF PicksBy, lo, hi
  <2> QED
    BY <1>5, <2>3 DEF Picks
<1> QED
  BY <1>4, <1>5

LEMMA PickingPicks ==
  ASSUME NEW b \in Seq(Flat!Pairs), NEW s \in Seq(Flat!Pairs), NEW I, NEW g, Picking(g, Len(s), b, s, I)
  PROVE  Picks(g[Len(s)], b, s, I, Len(s))
<1> DEFINE top == Len(s)
           P == {n \in 0 .. top : Picks(g[n], b, s, I, n)}
<1>1. top \in Nat
  OBVIOUS
<1>2. \A n \in 0 .. top : g[n] = IF n = 0 THEN b ELSE IF n \in I THEN Append(g[n - 1], s[n]) ELSE g[n - 1]
  BY DEF Picking
<1>3. 0 \in P
  <2>1. 0 \in 0 .. top /\ g[0] = b
    BY <1>1, <1>2
  <2> QED
    BY <2>1, PicksNone
<1>4. ASSUME NEW m \in 0 .. top - 1, m \in P PROVE m + 1 \in P
  <2>1. m + 1 \in 0 .. top /\ m + 1 # 0 /\ (m + 1) - 1 = m
    BY <1>1
  <2>2. g[m + 1] = IF m + 1 \in I THEN Append(g[m], s[m + 1]) ELSE g[m]
    BY <1>2, <2>1
  <2>3. Picks(g[m], b, s, I, m)
    BY <1>4
  <2>4. Picks(g[m + 1], b, s, I, m + 1)
    BY <2>2, <2>3, PicksOne
  <2> QED
    BY <2>1, <2>4
<1> HIDE DEF P, top
<1>5. \A m \in 0 .. top : m \in P
  <2>1. \A m \in 0 .. top - 1 : m \in P => m + 1 \in P
    BY <1>4
  <2> QED
    BY <1>1, <1>3, <2>1, CountUp
<1>6. top \in P
  BY <1>1, <1>5
<1> QED
  BY <1>6 DEF P, top

LEMMA RangeOfIntegers == ASSUME NEW a, NEW b PROVE a .. b \in SUBSET Int
OBVIOUS

\* g[n] is how far a pass over m positions has come at the n-th element: from where it was to the
\* next position at which it stops for that element.
Passing(g, top, m, T) ==
  g = [n \in 0 .. top |-> IF n = 0 THEN 1 ELSE Flat!FirstOf({i \in g[n - 1] .. m : i \in T[n]}, m)]

LEMMA PassingExists ==
  ASSUME NEW top \in Nat, NEW m, NEW T
  PROVE  \E g : Passing(g, top, m, T)
<1> DEFINE P == {k \in 0 .. top : \E g : Passing(g, k, m, T)}
<1>1. 0 \in P
  <2> DEFINE f == [n \in 0 .. 0 |-> 1]
  <2>1. f = [n \in 0 .. 0 |-> IF n = 0 THEN 1 ELSE Flat!FirstOf({i \in f[n - 1] .. m : i \in T[n]}, m)]
    OBVIOUS
  <2>2. Passing(f, 0, m, T)
    BY <2>1 DEF Passing
  <2> HIDE DEF f
  <2> QED
    BY <2>2
<1>2. ASSUME NEW k \in 0 .. top - 1, k \in P PROVE k + 1 \in P
  <2>1. PICK g : Passing(g, k, m, T)
    BY <1>2
  <2> DEFINE e == Flat!FirstOf({i \in g[k] .. m : i \in T[k + 1]}, m)
             f == [n \in 0 .. k + 1 |-> IF n = k + 1 THEN e ELSE g[n]]
  <2>2. \A n \in 0 .. k + 1 : f[n] = IF n = 0 THEN 1 ELSE Flat!FirstOf({i \in f[n - 1] .. m : i \in T[n]}, m)
    <3> TAKE n \in 0 .. k + 1
    <3>1. CASE n = k + 1
      <4>1. n # 0 /\ n - 1 = k /\ f[k] = g[k]
        BY <3>1
      <4>2. f[n] = e
        BY <3>1
      <4> HIDE DEF f
      <4> QED
        BY <3>1, <4>1, <4>2
    <3>2. CASE n # k + 1
      <4>1. n \in 0 .. k /\ f[n] = g[n] /\ (n # 0 => f[n - 1] = g[n - 1])
        BY <3>2
      <4>2. g[n] = IF n = 0 THEN 1 ELSE Flat!FirstOf({i \in g[n - 1] .. m : i \in T[n]}, m)
        BY <2>1, <4>1 DEF Passing
      <4> HIDE DEF f
      <4> QED
        BY <4>1, <4>2
    <3> QED
      BY <3>1, <3>2
  <2>3. f = [n \in 0 .. k + 1 |-> f[n]]
    OBVIOUS
  <2>4. Passing(f, k + 1, m, T)
    <3> HIDE DEF f
    <3> QED
      BY <2>2, <2>3 DEF Passing
  <2> HIDE DEF f
  <2> QED
    BY <2>4
<1> HIDE DEF P
<1>3. top \in P
  BY <1>1, <1>2, CountUp
<1> QED
  BY <1>3 DEF P

\* If it passes for an element whatever it passes for the one before it, it comes to the first stop.
LEMMA PassingIs ==
  ASSUME NEW top \in Nat, NEW m \in Nat, NEW T, NEW g, Passing(g, top, m, T),
         \A n, l \in 1 .. top : \A i \in 1 .. m : n <= l /\ i \in T[l] => i \in T[n]
  PROVE  \A n \in 1 .. top : /\ g[n] \in 1 .. m + 1
                             /\ \A j \in 1 .. g[n] - 1 : j \notin T[n]
                             /\ g[n] <= m => g[n] \in T[n]
<1> DEFINE P == {n \in 0 .. top : /\ g[n] \in 1 .. m + 1
                                  /\ \A j \in 1 .. g[n] - 1, l \in 1 .. top : n <= l => j \notin T[l]
                                  /\ n # 0 /\ g[n] <= m => g[n] \in T[n]}
<1>1. \A n \in 0 .. top : g[n] = IF n = 0 THEN 1 ELSE Flat!FirstOf({i \in g[n - 1] .. m : i \in T[n]}, m)
  BY DEF Passing
<1>2. 0 \in P
  <2>1. PICK n \in 0 .. top : n = 0
    OBVIOUS
  <2>2. g[n] = 1
    BY <1>1, <2>1, Zenon
  <2> QED
    BY <2>1, <2>2
<1>3. ASSUME NEW k \in 0 .. top - 1, k \in P PROVE k + 1 \in P
  <2> DEFINE a == g[k]
             b == g[k + 1]
             S == {i \in a .. m : i \in T[k + 1]}
  <2>1. k + 1 \in 1 .. top /\ k + 1 \in 0 .. top /\ k + 1 # 0 /\ (k + 1) - 1 = k
    OBVIOUS
  <2>2. b = Flat!FirstOf(S, m)
    BY <1>1, <2>1
  <2>3. a \in 1 .. m + 1 /\ \A j \in 1 .. a - 1, l \in 1 .. top : k <= l => j \notin T[l]
    BY <1>3
  <2> HIDE DEF a, b
  <2>4. S \in SUBSET (1 .. m) /\ \A i \in 1 .. m : i \in S <=> a <= i /\ i \in T[k + 1]
    BY <2>3
  <2> HIDE DEF S
  <2>5. b \in 1 .. m + 1 /\ (\A j \in 1 .. b - 1 : j \notin S) /\ (b <= m => b \in S)
    BY <2>2, <2>4, FirstIs
  <2>6. ASSUME NEW j \in 1 .. b - 1, NEW l \in 1 .. top, k + 1 <= l PROVE j \notin T[l]
    <3>1. j \in 1 .. m /\ j \notin S /\ k <= l
      BY <2>5, <2>6
    <3>2. CASE j < a
      <4>1. j \in 1 .. a - 1
        BY <2>3, <3>1, <3>2
      <4> QED
        BY <2>3, <3>1, <4>1
    <3>3. CASE a <= j
      <4>1. j \notin T[k + 1]
        BY <2>4, <3>1, <3>3
      <4> QED
        BY <2>1, <2>6, <3>1, <4>1
    <3> QED
      BY <2>3, <3>1, <3>2, <3>3
  <2>7. b <= m => b \in T[k + 1]
    BY <2>4, <2>5
  <2>8. b \in 1 .. m + 1 /\ \A j \in 1 .. b - 1, l \in 1 .. top : k + 1 <= l => j \notin T[l]
    BY <2>5, <2>6
  <2>9. PICK n : n = k + 1
    OBVIOUS
  <2>10. /\ n \in 0 .. top /\ g[n] \in 1 .. m + 1
         /\ \A j \in 1 .. g[n] - 1, l \in 1 .. top : n <= l => j \notin T[l]
         /\ n # 0 /\ g[n] <= m => g[n] \in T[n]
    BY <2>1, <2>7, <2>8, <2>9 DEF b
  <2>11. n \in P
    BY <2>10, Zenon
  <2> HIDE DEF P
  <2> QED
    BY <2>9, <2>11
<1>4. \A n \in 0 .. top : n \in P
  <2>1. \A k \in 0 .. top - 1 : k \in P => k + 1 \in P
    BY <1>3
  <2> HIDE DEF P
  <2> QED
    BY <1>2, <2>1, CountUp
<1>5. ASSUME NEW n \in 1 .. top
      PROVE  g[n] \in 1 .. m + 1 /\ (\A j \in 1 .. g[n] - 1 : j \notin T[n]) /\ (g[n] <= m => g[n] \in T[n])
  <2>1. n \in 0 .. top /\ n # 0 /\ n <= n /\ n \in P
    BY <1>4
  <2> QED
    BY <2>1
<1> QED
  BY <1>5

LEMMA PassingType ==
  ASSUME NEW top \in Nat, NEW m \in Nat, NEW T, NEW g, Passing(g, top, m, T)
  PROVE  \A n \in 0 .. top : g[n] \in 1 .. m + 1
<1> DEFINE P == {n \in 0 .. top : g[n] \in 1 .. m + 1}
<1>1. \A n \in 0 .. top : g[n] = IF n = 0 THEN 1 ELSE Flat!FirstOf({i \in g[n - 1] .. m : i \in T[n]}, m)
  BY DEF Passing
<1>2. 0 \in P
  <2>1. PICK n \in 0 .. top : n = 0
    OBVIOUS
  <2>2. g[n] = 1
    BY <1>1, <2>1, Zenon
  <2> QED
    BY <2>1, <2>2
<1>3. ASSUME NEW k \in 0 .. top - 1, k \in P PROVE k + 1 \in P
  <2> DEFINE S == {i \in g[k] .. m : i \in T[k + 1]}
  <2>1. k + 1 \in 0 .. top /\ k + 1 # 0 /\ (k + 1) - 1 = k
    OBVIOUS
  <2>2. g[k + 1] = Flat!FirstOf(S, m)
    BY <1>1, <2>1
  <2>3. S \in SUBSET (1 .. m)
    BY <1>3
  <2> HIDE DEF S
  <2>4. Flat!FirstOf(S, m) \in 1 .. m + 1
    BY <2>3, FirstIs
  <2> QED
    BY <2>1, <2>2, <2>4
<1>4. \A n \in 0 .. top : n \in P
  <2>1. \A k \in 0 .. top - 1 : k \in P => k + 1 \in P
    BY <1>3
  <2> HIDE DEF P
  <2> QED
    BY <1>2, <2>1, CountUp
<1> QED
  BY <1>4

\* What is picked from an ordered sequence is ordered.
LEMMA PickedIs ==
  ASSUME NEW s \in Seq(Flat!Pairs), Ordered(s), NEW I, NEW z, Picks(z, <<>>, s, I, Len(s))
  PROVE  /\ z \in Seq(Flat!Pairs) /\ Ordered(z)
         /\ \A j \in 1 .. Len(z) : \E i \in 1 .. Len(s) : i \in I /\ z[j] = s[i]
         /\ \A i \in 1 .. Len(s) : i \in I => \E j \in 1 .. Len(z) : z[j] = s[i]
<1>0. <<>> \in Seq(Flat!Pairs) /\ Len(<<>>) = 0
  OBVIOUS
<1>1. PICK b \in Seq(Flat!Pairs) : b = <<>> /\ Len(b) = 0
  BY <1>0, Zenon
<1>2. PICK h : PicksBy(h, z, b, s, I, Len(s))
  BY <1>1 DEF Picks
<1> DEFINE lo == Len(b) + 1
<1>3. lo = 1
  BY <1>1
<1>4. /\ z \in Seq(Flat!Pairs)
      /\ h \in [lo .. Len(z) -> 1 .. Len(s)]
      /\ \A j \in lo .. Len(z) : h[j] \in I /\ z[j] = s[h[j]]
      /\ \A i, j \in lo .. Len(z) : i < j => h[i] < h[j]
      /\ \A i \in 1 .. Len(s) : i \in I => \E j \in lo .. Len(z) : h[j] = i
  BY <1>2 DEF PicksBy
<1> HIDE DEF lo
<1>5. /\ h \in [1 .. Len(z) -> 1 .. Len(s)]
      /\ \A j \in 1 .. Len(z) : h[j] \in I /\ z[j] = s[h[j]]
      /\ \A i, j \in 1 .. Len(z) : i < j => h[i] < h[j]
      /\ \A i \in 1 .. Len(s) : i \in I => \E j \in 1 .. Len(z) : h[j] = i
  BY <1>3, <1>4
<1>6. \A i, j \in 1 .. Len(s) : i < j => Flat!Before(s[i][1], s[j][1])
  BY DEF Ordered
<1>7. Ordered(z)
  <2>1. ASSUME NEW i \in 1 .. Len(z), NEW j \in 1 .. Len(z), i < j PROVE Flat!Before(z[i][1], z[j][1])
    <3>1. h[i] \in 1 .. Len(s) /\ h[j] \in 1 .. Len(s) /\ h[i] < h[j] /\ z[i] = s[h[i]] /\ z[j] = s[h[j]]
      BY <1>5, <2>1
    <3> QED
      BY <1>6, <3>1
  <2> QED
    BY <2>1 DEF Ordered
<1>8. \A j \in 1 .. Len(z) : \E i \in 1 .. Len(s) : i \in I /\ z[j] = s[i]
  BY <1>5
<1>9. ASSUME NEW i \in 1 .. Len(s), i \in I PROVE \E j \in 1 .. Len(z) : z[j] = s[i]
  <2>1. PICK j \in 1 .. Len(z) : h[j] = i
    BY <1>5, <1>9
  <2> QED
    BY <1>5, <2>1
<1> QED
  BY <1>4, <1>7, <1>8, <1>9

-----------------------------------------------------------------------------
(* Flat maps: erase_if *)

LEMMA KeptIs ==
  ASSUME NEW s \in Seq(Flat!Pairs), NEW D
  PROVE  Picks(Flat!Kept(s, D), <<>>, s, {n \in 1 .. Len(s) : s[n][1] \notin D}, Len(s))
<1> DEFINE top == Len(s)
           I == {n \in 1 .. top : s[n][1] \notin D}
           Keeping(g) == g = [n \in 0 .. top |-> IF n = 0 THEN <<>>
                                               ELSE IF s[n][1] \in D THEN g[n - 1] ELSE Append(g[n - 1], s[n])]
           kept == CHOOSE g : Keeping(g)
<1>1. top \in Nat /\ <<>> \in Seq(Flat!Pairs)
  OBVIOUS
<1>2. Flat!Kept(s, D) = kept[top]
  BY DEF Flat!Kept
<1>3. \A n \in 0 .. top : n # 0 => (n \in I <=> s[n][1] \notin D)
  BY <1>1
<1> HIDE DEF I
<1>4. ASSUME NEW g PROVE Keeping(g) <=> Picking(g, top, <<>>, s, I)
  <2>1. ASSUME NEW n \in 0 .. top
        PROVE  (IF n = 0 THEN <<>> ELSE IF s[n][1] \in D THEN g[n - 1] ELSE Append(g[n - 1], s[n])) =
               IF n = 0 THEN <<>> ELSE IF n \in I THEN Append(g[n - 1], s[n]) ELSE g[n - 1]
    BY <1>3
  <2>2. [n \in 0 .. top |-> IF n = 0 THEN <<>> ELSE IF s[n][1] \in D THEN g[n - 1] ELSE Append(g[n - 1], s[n])] =
        [n \in 0 .. top |-> IF n = 0 THEN <<>> ELSE IF n \in I THEN Append(g[n - 1], s[n]) ELSE g[n - 1]]
    BY <2>1
  <2> QED
    BY <2>2 DEF Picking
<1>5. \E g : Keeping(g)
  <2>1. PICK g : Picking(g, top, <<>>, s, I)
    BY <1>1, PickingExists
  <2> HIDE DEF Keeping
  <2> QED
    BY <1>4, <2>1
<1>6. Keeping(kept)
  BY <1>5
<1> HIDE DEF Keeping, kept
<1>7. Picking(kept, top, <<>>, s, I)
  BY <1>4, <1>6
<1>8. Picks(kept[top], <<>>, s, I, top)
  BY <1>1, <1>7, PickingPicks
<1> QED
  BY <1>2, <1>8 DEF I

LEMMA KeptEnumerates ==
  ASSUME NEW s, NEW f, Enumerates(s, f), IsMap(f), NEW D,
         NEW g, Reduced(g, f, D)
  PROVE  Enumerates(Flat!Kept(s, D), g) /\ IsMap(g)
<1> DEFINE z == Flat!Kept(s, D)
           I == {n \in 1 .. Len(s) : s[n][1] \notin D}
<1>1. s \in Seq(Flat!Pairs) /\ Ordered(s)
  BY DEF Enumerates
<1>2. Picks(z, <<>>, s, I, Len(s))
  BY <1>1, KeptIs
<1> HIDE DEF z
<1>3. \A n \in 1 .. Len(s) : n \in I <=> s[n][1] \notin D
  OBVIOUS
<1> HIDE DEF I
<1>4. /\ z \in Seq(Flat!Pairs) /\ Ordered(z)
      /\ \A j \in 1 .. Len(z) : \E i \in 1 .. Len(s) : i \in I /\ z[j] = s[i]
      /\ \A i \in 1 .. Len(s) : i \in I => \E j \in 1 .. Len(z) : z[j] = s[i]
  BY <1>1, <1>2, PickedIs
<1>5. DOMAIN g = DOMAIN f \ D /\ (\A l \in DOMAIN g : g[l] = f[l]) /\ g = [l \in DOMAIN g |-> g[l]]
  BY DEF Reduced
<1>6. Within(z, g)
  <2>1. ASSUME NEW j \in 1 .. Len(z) PROVE z[j][1] \in DOMAIN g /\ z[j][2] = g[z[j][1]]
    <3>1. PICK i \in 1 .. Len(s) : i \in I /\ z[j] = s[i]
      BY <1>4
    <3>2. s[i][1] \in DOMAIN f /\ s[i][2] = f[s[i][1]]
      BY DEF Enumerates, Within
    <3> QED
      BY <1>3, <1>5, <3>1, <3>2
  <2> QED
    BY <2>1 DEF Within
<1>7. Covers(z, g)
  <2>1. ASSUME NEW l \in DOMAIN g PROVE \E j \in 1 .. Len(z) : z[j][1] = l /\ z[j][2] = g[l]
    <3>1. PICK i \in 1 .. Len(s) : s[i][1] = l /\ s[i][2] = f[l]
      BY <1>5 DEF Enumerates, Covers
    <3>2. PICK j \in 1 .. Len(z) : z[j] = s[i]
      BY <1>3, <1>4, <1>5, <3>1
    <3> QED
      BY <1>5, <3>1, <3>2
  <2> QED
    BY <2>1 DEF Covers
<1>8. IsMap(g)
  BY <1>5 DEF IsMap
<1> QED
  BY <1>4, <1>6, <1>7, <1>8 DEF Enumerates, z

-----------------------------------------------------------------------------
(* Flat maps: the sequence that a map is *)

\* There is one at most,
LEMMA EnumerationIsUnique ==
  ASSUME NEW f, NEW s, NEW t, Enumerates(s, f), Enumerates(t, f)
  PROVE  s = t
<1> DEFINE n == Len(s)
           m == Len(t)
<1>1. s \in Seq(Flat!Pairs) /\ t \in Seq(Flat!Pairs) /\ n \in Nat /\ m \in Nat
  BY DEF Enumerates
<1>2. /\ \A i \in 1 .. n : s[i] \in Flat!Pairs /\ s[i][1] \in Keys /\ s[i] = <<s[i][1], s[i][2]>>
      /\ \A i \in 1 .. m : t[i] \in Flat!Pairs /\ t[i][1] \in Keys /\ t[i] = <<t[i][1], t[i][2]>>
  BY <1>1, SequenceIs
<1>3. /\ \A i, j \in 1 .. n : i < j => Flat!Before(s[i][1], s[j][1])
      /\ \A i, j \in 1 .. m : i < j => Flat!Before(t[i][1], t[j][1])
  BY DEF Enumerates, Ordered
<1>4. /\ \A i \in 1 .. n : \E j \in 1 .. m : t[j][1] = s[i][1] /\ t[j][2] = s[i][2]
      /\ \A i \in 1 .. m : \E j \in 1 .. n : s[j][1] = t[i][1] /\ s[j][2] = t[i][2]
  <2>1. ASSUME NEW u, NEW w, Enumerates(u, f), Enumerates(w, f), NEW i \in 1 .. Len(u)
        PROVE  \E j \in 1 .. Len(w) : w[j][1] = u[i][1] /\ w[j][2] = u[i][2]
    <3>1. PICK k : k = u[i][1]
      OBVIOUS
    <3>2. k \in DOMAIN f /\ u[i][2] = f[k]
      BY <2>1, <3>1 DEF Enumerates, Within
    <3>3. PICK j \in 1 .. Len(w) : w[j][1] = k /\ w[j][2] = f[k]
      BY <2>1, <3>2 DEF Enumerates, Covers
    <3> QED
      BY <3>1, <3>2, <3>3
  <2> QED
    BY <2>1
<1>5. /\ \A i \in 1 .. n : \E j \in 1 .. m : t[j] = s[i]
      /\ \A i \in 1 .. m : \E j \in 1 .. n : s[j] = t[i]
  <2>1. ASSUME NEW i \in 1 .. n PROVE \E j \in 1 .. m : t[j] = s[i]
    <3>1. PICK j \in 1 .. m : t[j][1] = s[i][1] /\ t[j][2] = s[i][2]
      BY <1>4
    <3>2. t[j] = <<t[j][1], t[j][2]>> /\ s[i] = <<s[i][1], s[i][2]>>
      BY <1>2
    <3> QED
      BY <3>1, <3>2, Zenon
  <2>2. ASSUME NEW i \in 1 .. m PROVE \E j \in 1 .. n : s[j] = t[i]
    <3>1. PICK j \in 1 .. n : s[j][1] = t[i][1] /\ s[j][2] = t[i][2]
      BY <1>4
    <3>2. s[j] = <<s[j][1], s[j][2]>> /\ t[i] = <<t[i][1], t[i][2]>>
      BY <1>2
    <3> QED
      BY <3>1, <3>2, Zenon
  <2> QED
    BY <2>1, <2>2
<1>6. \A i, j \in 1 .. n : s[i] = s[j] => i = j
  BY <1>1, KeysDiffer DEF Enumerates
<1>7. \A i, j \in 1 .. m : t[i] = t[j] => i = j
  BY <1>1, KeysDiffer DEF Enumerates
<1> HIDE DEF n, m
<1> DEFINE T == {i \in 1 .. n : i \in 1 .. m /\ s[i] # t[i]}
<1>8. T = {}
  <2> SUFFICES ASSUME T # {} PROVE FALSE
    OBVIOUS
  <2>1. T \in SUBSET Nat
    OBVIOUS
  <2>2. PICK i \in T : \A l \in T : i <= l
    BY <2>1, LeastElement
  <2>3. i \in 1 .. n /\ i \in 1 .. m /\ s[i] # t[i]
    BY <2>2
  <2>4. \A l \in 1 .. i - 1 : l \in 1 .. n /\ l \in 1 .. m /\ s[l] = t[l]
    <3>1. ASSUME NEW l \in 1 .. i - 1 PROVE l \in 1 .. n /\ l \in 1 .. m /\ s[l] = t[l]
      <4>1. l \in 1 .. n /\ l \in 1 .. m /\ ~ (i <= l)
        BY <1>1, <2>3
      <4>2. l \notin T
        BY <2>2, <4>1
      <4> QED
        BY <4>1, <4>2
    <3> QED
      BY <3>1
  <2>5. PICK j \in 1 .. m : t[j] = s[i]
    BY <1>5, <2>3
  <2>6. PICK l \in 1 .. n : s[l] = t[i]
    BY <1>5, <2>3
  <2>7. i < j
    <3>1. i # j
      BY <2>3, <2>5
    <3>2. ASSUME j < i PROVE FALSE
      <4>1. j \in 1 .. i - 1
        BY <2>3, <3>2
      <4>2. s[j] = s[i] /\ j \in 1 .. n
        BY <2>4, <2>5, <4>1
      <4> QED
        BY <1>6, <2>3, <3>2, <4>2
    <3> QED
      BY <2>3, <3>1, <3>2
  <2>8. i < l
    <3>1. i # l
      BY <2>3, <2>6
    <3>2. ASSUME l < i PROVE FALSE
      <4>1. l \in 1 .. i - 1
        BY <2>3, <3>2
      <4>2. t[l] = t[i] /\ l \in 1 .. m
        BY <2>4, <2>6, <4>1
      <4> QED
        BY <1>7, <2>3, <3>2, <4>2
    <3> QED
      BY <2>3, <3>1, <3>2
  <2>9. Flat!Before(t[i][1], s[i][1]) /\ Flat!Before(s[i][1], t[i][1])
    BY <1>3, <2>3, <2>5, <2>6, <2>7, <2>8
  <2> QED
    BY <1>2, <2>3, <2>9, KeyOrder
<1>9. \A i \in 1 .. n : i \in 1 .. m => s[i] = t[i]
  BY <1>8
<1>10. ~ (n < m)
  <2> SUFFICES ASSUME n < m PROVE FALSE
    OBVIOUS
  <2>1. n + 1 \in 1 .. m
    BY <1>1
  <2>2. PICK j \in 1 .. n : s[j] = t[n + 1]
    BY <1>5, <2>1
  <2>3. j \in 1 .. m /\ j # n + 1
    BY <1>1
  <2> QED
    BY <1>7, <1>9, <2>1, <2>2, <2>3
<1>11. ~ (m < n)
  <2> SUFFICES ASSUME m < n PROVE FALSE
    OBVIOUS
  <2>1. m + 1 \in 1 .. n
    BY <1>1
  <2>2. PICK j \in 1 .. m : t[j] = s[m + 1]
    BY <1>5, <2>1
  <2>3. j \in 1 .. n /\ j # m + 1
    BY <1>1
  <2> QED
    BY <1>6, <1>9, <2>1, <2>2, <2>3
<1>12. n = m
  BY <1>1, <1>10, <1>11
<1>13. \A i \in 1 .. n : s[i] = t[i]
  BY <1>9, <1>12
<1>14. s = [i \in 1 .. n |-> s[i]] /\ t = [i \in 1 .. m |-> t[i]]
  BY <1>1 DEF n, m
<1> QED
  BY <1>12, <1>13, <1>14

\* and there is one.
LEMMA EnumerationExists ==
  ASSUME NEW f, IsMap(f)
  PROVE  \E s : Enumerates(s, f)
<1> DEFINE M == DOMAIN f
           top == Cardinality(M)
           Part(D) == [k \in D |-> f[k]]
           P == {m \in 0 .. top : \A D \in SUBSET M : Cardinality(D) = m => \E s : Enumerates(s, Part(D))}
<1>1. M \in SUBSET Keys /\ f = Part(M) /\ \A k \in M : f[k] \in Mapped /\ (isSet => f[k] = Flat!Unit)
  BY DEF IsMap
<1>2. IsFiniteSet(M) /\ top \in Nat
  BY <1>1, FlatAssumption, FS_Subset, FS_CardinalityType
<1>3. \A D \in SUBSET M : IsFiniteSet(D) /\ Cardinality(D) \in Nat
  BY <1>2, FS_Subset, FS_CardinalityType
<1>4. ASSUME NEW D \in SUBSET M PROVE IsMap(Part(D))
  <2>1. Part(D) = [k \in DOMAIN Part(D) |-> Part(D)[k]] /\ DOMAIN Part(D) = D /\ \A k \in D : Part(D)[k] = f[k]
    OBVIOUS
  <2> HIDE DEF Part
  <2> QED
    BY <1>1, <2>1 DEF IsMap
<1> HIDE DEF top, M
<1>5. 0 \in P
  <2>1. ASSUME NEW D \in SUBSET M, Cardinality(D) = 0 PROVE \E s : Enumerates(s, Part(D))
    <3>1. D = {}
      BY <1>3, <2>1, FS_EmptySet
    <3>2. DOMAIN Part(D) = {}
      BY <3>1
    <3> HIDE DEF Part
    <3>3. <<>> \in Seq(Flat!Pairs) /\ Len(<<>>) = 0 /\ 1 .. 0 = {}
      OBVIOUS
    <3>4. PICK s \in Seq(Flat!Pairs) : 1 .. Len(s) = {}
      BY <3>3, Zenon
    <3>5. Enumerates(s, Part(D))
      BY <3>2, <3>4 DEF Enumerates, Ordered, Covers, Within
    <3> QED
      BY <3>5
  <2>2. 0 \in 0 .. top
    BY <1>2
  <2> HIDE DEF Part
  <2> QED
    BY <2>1, <2>2
<1>6. ASSUME NEW m \in 0 .. top - 1, m \in P PROVE m + 1 \in P
  <2>1. ASSUME NEW D \in SUBSET M, Cardinality(D) = m + 1 PROVE \E s : Enumerates(s, Part(D))
    <3>1. D # {}
      <4>1. m + 1 # 0
        BY <1>2
      <4> QED
        BY <2>1, <4>1, FS_EmptySet
    <3>2. PICK k \in D : TRUE
      BY <3>1
    <3> DEFINE E == D \ {k}
               g == Part(E)
    <3>3. E \in SUBSET M /\ k \in M /\ k \in Keys
      BY <1>1, <3>2
    <3>4. Cardinality(E) = Cardinality(D) - 1
      BY <1>3, <3>2, FS_RemoveElement
    <3>5. Cardinality(E) = m
      BY <1>2, <2>1, <3>4
    <3>6. PICK s : Enumerates(s, g)
      <4> HIDE DEF Part, E
      <4> QED
        BY <1>6, <3>3, <3>5
    <3>7. IsMap(g)
      <4> HIDE DEF Part, E
      <4> QED
        BY <1>4, <3>3
    <3>8. DOMAIN g = E /\ k \notin E /\ \A l \in E : g[l] = f[l]
      OBVIOUS
    <3>9. f[k] \in Mapped /\ (isSet => f[k] = Flat!Unit)
      BY <1>1, <3>3
    <3>10. Extended(Part(D), g, k, f[k])
      BY <3>2 DEF Extended
    <3> HIDE DEF g, Part, E
    <3> DEFINE a == Flat!LowerBoundIn(s, k)
               z == Flat!InsertAt(s, a, <<k, f[k]>>)
    <3>11. s \in Seq(Flat!Pairs) /\ Bounds(s, k, a)
      BY <3>3, <3>6, LowerBoundIs DEF Enumerates
    <3> HIDE DEF a
    <3>12. InsertedAt(z, s, a, <<k, f[k]>>)
      <4>1. a \in 1 .. Len(s) + 1 /\ <<k, f[k]>> \in Flat!Pairs
        BY <3>3, <3>9, <3>11 DEF Bounds, Flat!Pairs
      <4> QED
        BY <3>11, <4>1, InsertAtIs
    <3> HIDE DEF z
    <3>13. Enumerates(z, Part(D))
      BY <3>3, <3>6, <3>7, <3>8, <3>9, <3>10, <3>11, <3>12, InsertionEnumerates
    <3> QED
      BY <3>13
  <2>2. m + 1 \in 0 .. top
    BY <1>2
  <2> HIDE DEF Part
  <2> QED
    BY <2>1, <2>2
<1>7. top \in P
  <2>1. \A m \in 0 .. top - 1 : m \in P => m + 1 \in P
    BY <1>6
  <2>2. top \in 0 .. top
    BY <1>2
  <2> HIDE DEF P
  <2> QED
    BY <1>2, <1>5, <2>1, <2>2, CountUp
<1>8. M \in SUBSET M /\ Cardinality(M) = top
  BY DEF top
<1> HIDE DEF Part
<1>9. \E s : Enumerates(s, Part(M))
  BY <1>7, <1>8
<1> QED
  BY <1>1, <1>9

\* z has each key of f once, with what it maps to, in any order.
ListsMap(z, f) ==
  /\ z \in Seq(Flat!Pairs) /\ Covers(z, f) /\ Within(z, f)
  /\ \A i, j \in 1 .. Len(z) : z[i][1] = z[j][1] => i = j

LEMMA EnumerationLists ==
  ASSUME NEW s, NEW f, Enumerates(s, f)
  PROVE  ListsMap(s, f)
BY KeysDiffer DEF Enumerates, ListsMap

\* The keys of a list and the positions they are at match.
LEMMA ListMatches ==
  ASSUME NEW z, NEW f, ListsMap(z, f), IsMap(f)
  PROVE  /\ [i \in 1 .. Len(z) |-> z[i][1]] \in Bijection(1 .. Len(z), DOMAIN f)
         /\ Len(z) = Cardinality(DOMAIN f)
<1> DEFINE n == Len(z)
           M == DOMAIN f
           h == [i \in 1 .. n |-> z[i][1]]
<1>1. n \in Nat
  BY DEF ListsMap
<1>2. \A i \in 1 .. n : z[i][1] \in M
  BY DEF ListsMap, Within
<1>3. \A k \in M : \E i \in 1 .. n : z[i][1] = k
  BY DEF ListsMap, Covers
<1>4. \A i, j \in 1 .. n : z[i][1] = z[j][1] => i = j
  BY DEF ListsMap
<1>5. h \in Injection(1 .. n, M)
  <2>1. h \in [1 .. n -> M] /\ DOMAIN h = 1 .. n /\ \A i \in 1 .. n : h[i] = z[i][1]
    BY <1>2
  <2> HIDE DEF h, n, M
  <2>2. IsInjective(h)
    BY <1>4, <2>1 DEF IsInjective
  <2> QED
    BY <2>1, <2>2 DEF Injection
<1>6. h \in Surjection(1 .. n, M)
  <2>1. h \in [1 .. n -> M] /\ \A i \in 1 .. n : h[i] = z[i][1]
    BY <1>2
  <2> HIDE DEF h, n, M
  <2> QED
    BY <1>3, <2>1 DEF Surjection
<1>7. IsFiniteSet(M)
  BY FlatAssumption, FS_Subset DEF IsMap
<1>8. IsFiniteSet(1 .. n) /\ Cardinality(1 .. n) = n
  <2>1. 1 \in Int /\ n \in Int /\ (IF 1 > n THEN 0 ELSE n - 1 + 1) = n
    BY <1>1
  <2> HIDE DEF n
  <2> QED
    BY <2>1, FS_Interval
<1> HIDE DEF h, n, M
<1>9. Cardinality(1 .. n) = Cardinality(M)
  BY <1>5, <1>6, <1>7, FS_Injection
<1>10. h \in Bijection(1 .. n, M)
  BY <1>5, <1>6 DEF Bijection
<1> QED
  BY <1>8, <1>9, <1>10 DEF h, n, M

LEMMA CardinalityIs == \A S : Flat!Cardinality(S) = Cardinality(S)
BY DEF Flat!Cardinality, Cardinality

LEMMA BijectionIs == \A S, T : Flat!Bijection(S, T) = Bijection(S, T)
BY DEF Flat!Bijection, Flat!Injection, Flat!Surjection, Flat!IsInjective, Bijection, Injection, Surjection, IsInjective

LEMMA InOrderIs ==
  ASSUME NEW f, IsMap(f)
  PROVE  Enumerates(Flat!InOrder(f), f)
<1> DEFINE M == DOMAIN f
           top == Flat!Cardinality(M)
           Right(s) == \A i, j \in DOMAIN s : i < j => Flat!Before(s[i], s[j])
           keys == CHOOSE s \in Flat!Bijection(1 .. top, M) : Right(s)
           z == [i \in 1 .. Len(keys) |-> <<keys[i], f[keys[i]]>>]
<1>1. Flat!InOrder(f) = z
  BY DEF Flat!InOrder
<1>0. top = Cardinality(M) /\ Flat!Bijection(1 .. top, M) = Bijection(1 .. top, M)
  BY CardinalityIs, BijectionIs
<1>2. M \in SUBSET Keys /\ \A k \in M : f[k] \in Mapped
  BY DEF IsMap
<1>3. \E s \in Bijection(1 .. top, M) : Right(s)
  <2>1. PICK t : Enumerates(t, f)
    BY EnumerationExists
  <2> DEFINE h == [i \in 1 .. Len(t) |-> t[i][1]]
  <2>2. h \in Bijection(1 .. Len(t), M) /\ Len(t) = top
    BY <1>0, <2>1, EnumerationLists, ListMatches
  <2>3. DOMAIN h = 1 .. Len(t) /\ \A i \in 1 .. Len(t) : h[i] = t[i][1]
    OBVIOUS
  <2> HIDE DEF h
  <2>4. Right(h)
    BY <2>1, <2>3 DEF Enumerates, Ordered
  <2> HIDE DEF Right, top, M
  <2> QED
    BY <1>0, <2>2, <2>4
<1>4. keys \in Bijection(1 .. top, M) /\ Right(keys)
  <2> HIDE DEF Right, top, M
  <2> QED
    BY <1>0, <1>3
<1> HIDE DEF keys, M
<1>5. top \in Nat
  <2>1. IsFiniteSet(M)
    BY <1>2, FlatAssumption, FS_Subset
  <2> QED
    BY <1>0, <2>1, FS_CardinalityType
<1> HIDE DEF top
<1>6. keys \in [1 .. top -> M] /\ \A k \in M : \E i \in 1 .. top : keys[i] = k
  BY <1>4 DEF Bijection, Injection, Surjection
<1>7. keys \in Seq(M) /\ Len(keys) = top
  BY <1>5, <1>6
<1>8. \A i \in 1 .. top : keys[i] \in M /\ <<keys[i], f[keys[i]]>> \in Flat!Pairs
  BY <1>2, <1>6 DEF Flat!Pairs
<1>9. z \in Seq(Flat!Pairs) /\ Len(z) = top /\ \A i \in 1 .. top : z[i] = <<keys[i], f[keys[i]]>>
  <2>1. z \in [1 .. top -> Flat!Pairs] /\ \A i \in 1 .. top : z[i] = <<keys[i], f[keys[i]]>>
    BY <1>7, <1>8
  <2> HIDE DEF z
  <2> QED
    BY <1>5, <2>1
<1> HIDE DEF z
<1>10. \A i \in 1 .. top : z[i][1] = keys[i] /\ z[i][2] = f[keys[i]]
  BY <1>9
<1>11. Ordered(z)
  BY <1>4, <1>6, <1>9, <1>10 DEF Ordered
<1>12. Within(z, f)
  BY <1>6, <1>9, <1>10 DEF Within, M
<1>13. Covers(z, f)
  <2>1. ASSUME NEW k \in M PROVE \E i \in 1 .. top : z[i][1] = k /\ z[i][2] = f[k]
    <3>1. PICK i \in 1 .. top : keys[i] = k
      BY <1>6
    <3> QED
      BY <1>10, <3>1
  <2> QED
    BY <1>9, <2>1 DEF Covers, M
<1> QED
  BY <1>1, <1>9, <1>11, <1>12, <1>13 DEF Enumerates

LEMMA SortedEnumerates ==
  ASSUME NEW z, NEW f, ListsMap(z, f), IsMap(f)
  PROVE  Enumerates(Flat!Sorted(z), f)
<1> DEFINE n == Len(z)
           Right(p) == \A i, j \in 1 .. n : i < j => ~ Flat!Before(z[p[j]][1], z[p[i]][1])
           order == CHOOSE p \in Flat!Bijection(1 .. n, 1 .. n) : Right(p)
           w == [i \in 1 .. n |-> z[order[i]]]
<1>1. Flat!Sorted(z) = w
  BY DEF Flat!Sorted
<1>0. Flat!Bijection(1 .. n, 1 .. n) = Bijection(1 .. n, 1 .. n)
  BY BijectionIs
<1>2. z \in Seq(Flat!Pairs) /\ n \in Nat
  BY DEF ListsMap
<1>3. PICK t : Enumerates(t, f)
  BY EnumerationExists
<1>4. t \in Seq(Flat!Pairs) /\ Len(t) = n /\ ListsMap(t, f)
  <2>1. ListsMap(t, f)
    BY <1>3, EnumerationLists
  <2>2. Len(t) = Cardinality(DOMAIN f) /\ Len(z) = Cardinality(DOMAIN f)
    BY <2>1, ListMatches
  <2> QED
    BY <2>1, <2>2 DEF ListsMap
<1> HIDE DEF n
<1>5. \A i \in 1 .. n : z[i] \in Flat!Pairs /\ z[i][1] \in Keys /\ z[i] = <<z[i][1], z[i][2]>>
  BY <1>2, SequenceIs DEF n
<1>6. \A i \in 1 .. n : t[i] \in Flat!Pairs /\ t[i][1] \in Keys /\ t[i] = <<t[i][1], t[i][2]>>
  BY <1>4, SequenceIs
<1>7. /\ \A i, j \in 1 .. n : z[i][1] = z[j][1] => i = j
      /\ \A i \in 1 .. n : z[i][1] \in DOMAIN f /\ z[i][2] = f[z[i][1]]
      /\ \A k \in DOMAIN f : \E i \in 1 .. n : z[i][1] = k /\ z[i][2] = f[k]
  BY DEF ListsMap, Covers, Within, n
<1>8. /\ \A i, j \in 1 .. n : t[i][1] = t[j][1] => i = j
      /\ \A i \in 1 .. n : t[i][1] \in DOMAIN f /\ t[i][2] = f[t[i][1]]
      /\ \A k \in DOMAIN f : \E i \in 1 .. n : t[i][1] = k /\ t[i][2] = f[k]
  BY <1>4 DEF ListsMap, Covers, Within
<1>9. \A i, j \in 1 .. n : i < j => Flat!Before(t[i][1], t[j][1])
  BY <1>3, <1>4 DEF Enumerates, Ordered
\* where each element of the sorted sequence is
<1>10. \E p \in Bijection(1 .. n, 1 .. n) : Right(p)
  <2> DEFINE p == [i \in 1 .. n |-> CHOOSE j \in 1 .. n : z[j][1] = t[i][1]]
  <2>1. \A i \in 1 .. n : p[i] \in 1 .. n /\ z[p[i]][1] = t[i][1]
    <3>1. ASSUME NEW i \in 1 .. n PROVE \E j \in 1 .. n : z[j][1] = t[i][1]
      <4>1. PICK k : k = t[i][1] /\ k \in DOMAIN f
        BY <1>8
      <4> QED
        BY <1>7, <4>1
    <3> QED
      BY <3>1
  <2>2. p \in [1 .. n -> 1 .. n] /\ DOMAIN p = 1 .. n
    <3>1. DOMAIN p = 1 .. n /\ p = [i \in 1 .. n |-> p[i]]
      OBVIOUS
    <3> HIDE DEF p
    <3> QED
      BY <2>1, <3>1
  <2> HIDE DEF p
  <2>3. IsInjective(p)
    <3>1. ASSUME NEW i \in 1 .. n, NEW j \in 1 .. n, p[i] = p[j] PROVE i = j
      <4>1. t[i][1] = t[j][1]
        BY <2>1, <3>1
      <4> QED
        BY <1>8, <4>1
    <3> QED
      BY <2>2, <3>1 DEF IsInjective
  <2>4. \A j \in 1 .. n : \E i \in 1 .. n : p[i] = j
    <3>1. ASSUME NEW j \in 1 .. n PROVE \E i \in 1 .. n : p[i] = j
      <4>1. PICK k : k = z[j][1] /\ k \in DOMAIN f
        BY <1>7
      <4>2. PICK i \in 1 .. n : t[i][1] = k
        BY <1>8, <4>1
      <4>3. z[p[i]][1] = z[j][1] /\ p[i] \in 1 .. n
        BY <2>1, <4>1, <4>2
      <4> QED
        BY <1>7, <4>3
    <3> QED
      BY <3>1
  <2>5. p \in Bijection(1 .. n, 1 .. n)
    BY <2>2, <2>3, <2>4 DEF Bijection, Injection, Surjection
  <2>6. Right(p)
    BY <1>6, <1>9, <2>1, KeyOrder
  <2> HIDE DEF Right
  <2> QED
    BY <2>5, <2>6
<1>11. order \in Bijection(1 .. n, 1 .. n) /\ Right(order)
  <2> HIDE DEF Right
  <2> QED
    BY <1>0, <1>10
<1> HIDE DEF order
<1>12. /\ order \in [1 .. n -> 1 .. n] /\ \A j \in 1 .. n : \E i \in 1 .. n : order[i] = j
       /\ \A i, j \in 1 .. n : order[i] = order[j] => i = j
  BY <1>11 DEF Bijection, Injection, Surjection, IsInjective
<1>13. w \in Seq(Flat!Pairs) /\ Len(w) = n /\ \A i \in 1 .. n : w[i] = z[order[i]]
  <2>1. w \in [1 .. n -> Flat!Pairs] /\ \A i \in 1 .. n : w[i] = z[order[i]]
    BY <1>5, <1>12
  <2> HIDE DEF w
  <2> QED
    BY <1>2, <2>1
<1> HIDE DEF w
<1>14. Ordered(w)
  <2>1. ASSUME NEW i \in 1 .. n, NEW j \in 1 .. n, i < j PROVE Flat!Before(w[i][1], w[j][1])
    <3>1. order[i] \in 1 .. n /\ order[j] \in 1 .. n /\ order[i] # order[j]
      BY <1>2, <1>12, <2>1
    <3>2. z[order[i]][1] # z[order[j]][1]
      BY <1>7, <3>1
    <3>3. ~ Flat!Before(z[order[j]][1], z[order[i]][1])
      BY <1>11, <2>1
    <3> QED
      BY <1>5, <1>13, <3>1, <3>2, <3>3, KeyOrder
  <2> QED
    BY <1>13, <2>1 DEF Ordered
<1>15. Within(w, f)
  <2>1. ASSUME NEW i \in 1 .. n PROVE w[i][1] \in DOMAIN f /\ w[i][2] = f[w[i][1]]
    <3>1. PICK j \in 1 .. n : w[i] = z[j]
      BY <1>12, <1>13
    <3> QED
      BY <1>7, <3>1
  <2> QED
    BY <1>13, <2>1 DEF Within
<1>16. Covers(w, f)
  <2>1. ASSUME NEW k \in DOMAIN f PROVE \E i \in 1 .. n : w[i][1] = k /\ w[i][2] = f[k]
    <3>1. PICK j \in 1 .. n : z[j][1] = k /\ z[j][2] = f[k]
      BY <1>7
    <3>2. PICK i \in 1 .. n : order[i] = j
      BY <1>12
    <3> QED
      BY <1>13, <3>1, <3>2
  <2> QED
    BY <1>13, <2>1 DEF Covers
<1> QED
  BY <1>1, <1>13, <1>14, <1>15, <1>16 DEF Enumerates

-----------------------------------------------------------------------------
(* Flat maps: set_union and set_difference *)

\* The elements that are found to be missing are those whose keys are not there.
LEMMA UnionPicks ==
  ASSUME NEW s \in Seq(Flat!Pairs), Ordered(s), NEW t \in Seq(Flat!Pairs), Ordered(t)
  PROVE  \E I : /\ Picks(Flat!SetUnionUnsorted(s, t), s, t, I, Len(t))
                /\ \A n \in 1 .. Len(t) : n \in I <=> \A i \in 1 .. Len(s) : s[i][1] # t[n][1]
<1> DEFINE m == Len(s)
           top == Len(t)
           Going(g) == g = [n \in 0 .. top |-> IF n = 0 THEN 1
                              ELSE Flat!FirstOf({i \in g[n - 1] .. m : ~ Flat!Before(s[i][1], t[n][1])}, m)]
           at == CHOOSE g : Going(g)
           Adding(g) == g = [n \in 0 .. top |-> IF n = 0 THEN s
                               ELSE IF at[n] > m \/ s[at[n]][1] # t[n][1] THEN Append(g[n - 1], t[n])
                               ELSE g[n - 1]]
           r == CHOOSE g : Adding(g)
           I == {n \in 1 .. top : at[n] > m \/ s[at[n]][1] # t[n][1]}
           T == [n \in 1 .. top |-> {i \in Int : ~ Flat!Before(s[i][1], t[n][1])}]
<1>1. m \in Nat /\ top \in Nat
  OBVIOUS
<1>2. Flat!SetUnionUnsorted(s, t) = r[top]
  BY DEF Flat!SetUnionUnsorted
<1>3. \A n \in 0 .. top : n # 0 => (n \in I <=> at[n] > m \/ s[at[n]][1] # t[n][1])
  BY <1>1
<1>4. \A n \in 0 .. top : n # 0 => \A i \in Int : i \in T[n] <=> ~ Flat!Before(s[i][1], t[n][1])
  <2>1. \A n \in 0 .. top : n # 0 => n \in 1 .. top
    BY <1>1
  <2> QED
    BY <2>1
<1> HIDE DEF I, T, m, top
<1>5. ASSUME NEW g PROVE Going(g) <=> Passing(g, top, m, T)
  <2>1. ASSUME NEW n \in 0 .. top, n # 0
        PROVE  {i \in g[n - 1] .. m : ~ Flat!Before(s[i][1], t[n][1])} = {i \in g[n - 1] .. m : i \in T[n]}
    BY <1>4, <2>1, RangeOfIntegers
  <2>2. [n \in 0 .. top |-> IF n = 0 THEN 1 ELSE Flat!FirstOf({i \in g[n - 1] .. m : ~ Flat!Before(s[i][1], t[n][1])}, m)] =
        [n \in 0 .. top |-> IF n = 0 THEN 1 ELSE Flat!FirstOf({i \in g[n - 1] .. m : i \in T[n]}, m)]
    BY <2>1
  <2> QED
    BY <2>2 DEF Passing
<1>6. Passing(at, top, m, T)
  <2>1. PICK g : Passing(g, top, m, T)
    BY <1>1, PassingExists
  <2> HIDE DEF Going
  <2>2. Going(g)
    BY <1>5, <2>1
  <2>3. Going(at)
    BY <2>2
  <2> QED
    BY <1>5, <2>3
<1> HIDE DEF at, Going
<1>7. ASSUME NEW g PROVE Adding(g) <=> Picking(g, top, s, t, I)
  <2>1. ASSUME NEW n \in 0 .. top
        PROVE  (IF n = 0 THEN s ELSE IF at[n] > m \/ s[at[n]][1] # t[n][1] THEN Append(g[n - 1], t[n])
                ELSE g[n - 1]) =
               IF n = 0 THEN s ELSE IF n \in I THEN Append(g[n - 1], t[n]) ELSE g[n - 1]
    BY <1>3
  <2>2. [n \in 0 .. top |-> IF n = 0 THEN s
           ELSE IF at[n] > m \/ s[at[n]][1] # t[n][1] THEN Append(g[n - 1], t[n]) ELSE g[n - 1]] =
        [n \in 0 .. top |-> IF n = 0 THEN s ELSE IF n \in I THEN Append(g[n - 1], t[n]) ELSE g[n - 1]]
    BY <2>1
  <2> QED
    BY <2>2 DEF Picking
<1>8. Picking(r, top, s, t, I)
  <2>1. PICK g : Picking(g, top, s, t, I)
    BY <1>1, PickingExists
  <2> HIDE DEF Adding
  <2>2. Adding(g)
    BY <1>7, <2>1
  <2>3. Adding(r)
    BY <2>2
  <2> QED
    BY <1>7, <2>3
<1> HIDE DEF r, Adding
<1>9. Picks(r[top], s, t, I, top)
  BY <1>8, PickingPicks DEF top
<1>10. (\A i \in 1 .. m : s[i][1] \in Keys) /\ \A n \in 1 .. top : t[n][1] \in Keys /\ n \in 0 .. top /\ n # 0
  BY <1>1, SequenceIs DEF m, top
<1>11. /\ \A i, j \in 1 .. m : i < j => Flat!Before(s[i][1], s[j][1])
       /\ \A i, j \in 1 .. top : i < j => Flat!Before(t[i][1], t[j][1])
  BY DEF Ordered, m, top
<1>12. ASSUME NEW n \in 1 .. top, NEW l \in 1 .. top, NEW i \in 1 .. m, n <= l, i \in T[l]
       PROVE  i \in T[n]
  <2>1. n = l \/ Flat!Before(t[n][1], t[l][1])
    BY <1>11, <1>12
  <2>2. i \in Int /\ ~ Flat!Before(s[i][1], t[l][1])
    BY <1>4, <1>10, <1>12
  <2>3. ~ Flat!Before(s[i][1], t[n][1])
    BY <1>10, <2>1, <2>2, KeyOrder
  <2> QED
    BY <1>4, <1>10, <2>2, <2>3
<1>13. \A n \in 1 .. top : /\ at[n] \in 1 .. m + 1
                           /\ \A j \in 1 .. at[n] - 1 : j \notin T[n]
                           /\ at[n] <= m => at[n] \in T[n]
  <2>1. \A n, l \in 1 .. top : \A i \in 1 .. m : n <= l /\ i \in T[l] => i \in T[n]
    BY <1>12
  <2> QED
    BY <1>1, <1>6, <2>1, PassingIs
<1>14. ASSUME NEW n \in 1 .. top PROVE n \in I <=> \A i \in 1 .. m : s[i][1] # t[n][1]
  <2>1. PICK a : a = at[n]
    OBVIOUS
  <2>2. a \in 1 .. m + 1 /\ (\A j \in 1 .. a - 1 : j \notin T[n]) /\ (a <= m => a \in T[n])
    BY <1>13, <2>1
  <2>3. n \in I <=> a > m \/ s[a][1] # t[n][1]
    BY <1>3, <1>10, <2>1
  <2>4. ASSUME NEW i \in 1 .. m, s[i][1] = t[n][1] PROVE a <= m /\ s[a][1] = t[n][1]
    <3>1. i \in T[n]
      <4>1. ~ Flat!Before(s[i][1], t[n][1]) /\ i \in Int
        BY <1>10, <2>4, KeyOrder
      <4> QED
        BY <1>4, <1>10, <4>1
    <3>2. a <= i
      BY <1>1, <2>2, <3>1
    <3>3. a \in 1 .. m /\ a \in Int
      BY <1>1, <2>2, <3>2
    <3>4. ~ Flat!Before(s[a][1], t[n][1])
      BY <1>4, <1>10, <2>2, <3>3
    <3>5. a = i
      BY <1>11, <2>4, <3>2, <3>3, <3>4
    <3> QED
      BY <2>4, <3>3, <3>5
  <2>5. (a <= m => a \in 1 .. m /\ ~ (a > m)) /\ (a <= m \/ a > m)
    BY <1>1, <2>2
  <2>6. ASSUME \A i \in 1 .. m : s[i][1] # t[n][1] PROVE n \in I
    BY <2>3, <2>5, <2>6, Zenon
  <2>7. ASSUME n \in I, NEW i \in 1 .. m PROVE s[i][1] # t[n][1]
    BY <2>3, <2>4, <2>5, <2>7, Zenon
  <2> QED
    BY <2>6, <2>7, Zenon
<1>15. Picks(Flat!SetUnionUnsorted(s, t), s, t, I, Len(t))
  BY <1>2, <1>9 DEF top
<1> QED
  BY <1>14, <1>15 DEF m, top

LEMMA UnionLists ==
  ASSUME NEW s, NEW f, Enumerates(s, f), IsMap(f), NEW t, NEW g, Enumerates(t, g), IsMap(g),
         NEW u, u = [k \in DOMAIN f \cup DOMAIN g |-> IF k \in DOMAIN f THEN f[k] ELSE g[k]]
  PROVE  ListsMap(Flat!SetUnionUnsorted(s, t), u) /\ IsMap(u)
<1>1. s \in Seq(Flat!Pairs) /\ Ordered(s) /\ t \in Seq(Flat!Pairs) /\ Ordered(t)
  BY DEF Enumerates
<1> DEFINE z == Flat!SetUnionUnsorted(s, t)
           m == Len(s)
           top == Len(t)
<1>2. PICK I : /\ Picks(z, s, t, I, top)
               /\ \A n \in 1 .. top : n \in I <=> \A i \in 1 .. m : s[i][1] # t[n][1]
  BY <1>1, UnionPicks
<1> HIDE DEF z
<1>3. PICK h : PicksBy(h, z, s, t, I, top)
  BY <1>2 DEF Picks
<1>4. /\ z \in Seq(Flat!Pairs) /\ m <= Len(z) /\ \A j \in 1 .. m : z[j] = s[j]
      /\ h \in [m + 1 .. Len(z) -> 1 .. top]
      /\ \A j \in m + 1 .. Len(z) : h[j] \in I /\ z[j] = t[h[j]]
      /\ \A i, j \in m + 1 .. Len(z) : i < j => h[i] < h[j]
      /\ \A i \in 1 .. top : i \in I => \E j \in m + 1 .. Len(z) : h[j] = i
  BY <1>3 DEF PicksBy
<1>5. m \in Nat /\ top \in Nat /\ Len(z) \in Nat
  BY <1>1, <1>4
<1>6. /\ \A i \in 1 .. m : s[i][1] \in DOMAIN f /\ s[i][2] = f[s[i][1]]
      /\ \A i, j \in 1 .. m : s[i][1] = s[j][1] => i = j
      /\ \A k \in DOMAIN f : \E i \in 1 .. m : s[i][1] = k /\ s[i][2] = f[k]
  BY EnumerationLists DEF ListsMap, Covers, Within
<1>7. /\ \A i \in 1 .. top : t[i][1] \in DOMAIN g /\ t[i][2] = g[t[i][1]]
      /\ \A i, j \in 1 .. top : t[i][1] = t[j][1] => i = j
      /\ \A k \in DOMAIN g : \E i \in 1 .. top : t[i][1] = k /\ t[i][2] = g[k]
  BY EnumerationLists DEF ListsMap, Covers, Within
<1> HIDE DEF m, top
<1>8. ASSUME NEW n \in 1 .. top PROVE n \in I <=> t[n][1] \notin DOMAIN f
  <2>1. PICK k : k = t[n][1]
    OBVIOUS
  <2>2. k \in DOMAIN f <=> \E i \in 1 .. m : s[i][1] = k
    BY <1>6
  <2> QED
    BY <1>2, <2>1, <2>2
<1>9. /\ DOMAIN u = DOMAIN f \cup DOMAIN g
      /\ \A k \in DOMAIN f : u[k] = f[k]
      /\ \A k \in DOMAIN g : k \notin DOMAIN f => u[k] = g[k]
  OBVIOUS
\* Each element is one of the first range, or one of the second whose key the first has not.
<1>10. ASSUME NEW j \in 1 .. Len(z)
       PROVE  \/ j \in 1 .. m /\ z[j] = s[j]
              \/ j \in m + 1 .. Len(z) /\ h[j] \in 1 .. top /\ z[j] = t[h[j]] /\ t[h[j]][1] \notin DOMAIN f
  <2>1. CASE j <= m
    <3>1. j \in 1 .. m
      BY <1>5, <2>1
    <3> QED
      BY <1>4, <3>1
  <2>2. CASE m < j
    <3>1. j \in m + 1 .. Len(z)
      BY <1>5, <2>2
    <3>2. h[j] \in 1 .. top
      BY <1>4, <3>1
    <3> QED
      BY <1>4, <1>8, <3>1, <3>2
  <2> QED
    BY <1>5, <2>1, <2>2
<1>11. Within(z, u)
  <2>1. ASSUME NEW j \in 1 .. Len(z) PROVE z[j][1] \in DOMAIN u /\ z[j][2] = u[z[j][1]]
    <3>1. CASE j \in 1 .. m /\ z[j] = s[j]
      BY <1>6, <1>9, <3>1
    <3>2. CASE j \in m + 1 .. Len(z) /\ h[j] \in 1 .. top /\ z[j] = t[h[j]] /\ t[h[j]][1] \notin DOMAIN f
      <4>1. PICK i \in 1 .. top : i = h[j]
        BY <3>2
      <4>2. z[j] = t[i] /\ t[i][1] \notin DOMAIN f /\ t[i][1] \in DOMAIN g /\ t[i][2] = g[t[i][1]]
        BY <1>7, <3>2, <4>1
      <4> QED
        BY <1>9, <4>2
    <3> QED
      BY <1>10, <3>1, <3>2
  <2> QED
    BY <2>1 DEF Within
<1>12. Covers(z, u)
  <2>1. ASSUME NEW k \in DOMAIN u PROVE \E j \in 1 .. Len(z) : z[j][1] = k /\ z[j][2] = u[k]
    <3>1. CASE k \in DOMAIN f
      <4>1. PICK i \in 1 .. m : s[i][1] = k /\ s[i][2] = f[k]
        BY <1>6, <3>1
      <4>2. i \in 1 .. Len(z)
        BY <1>4, <1>5
      <4> QED
        BY <1>4, <1>9, <3>1, <4>1, <4>2
    <3>2. CASE k \notin DOMAIN f
      <4>1. k \in DOMAIN g
        BY <1>9, <3>2
      <4>2. PICK i \in 1 .. top : t[i][1] = k /\ t[i][2] = g[k]
        BY <1>7, <4>1
      <4>3. PICK j \in m + 1 .. Len(z) : h[j] = i
        BY <1>4, <1>8, <3>2, <4>2
      <4>4. j \in 1 .. Len(z)
        BY <1>5
      <4> QED
        BY <1>4, <1>9, <3>2, <4>1, <4>2, <4>3, <4>4
    <3> QED
      BY <3>1, <3>2
  <2> QED
    BY <2>1 DEF Covers
<1>13. ASSUME NEW i \in 1 .. Len(z), NEW j \in 1 .. Len(z), z[i][1] = z[j][1] PROVE i = j
  <2>1. CASE i \in 1 .. m /\ z[i] = s[i] /\ j \in 1 .. m /\ z[j] = s[j]
    BY <1>6, <1>13, <2>1
  <2>2. CASE i \in m + 1 .. Len(z) /\ j \in m + 1 .. Len(z) /\ h[i] \in 1 .. top /\ z[i] = t[h[i]]
             /\ h[j] \in 1 .. top /\ z[j] = t[h[j]]
    <3>1. h[i] = h[j]
      BY <1>7, <1>13, <2>2
    <3>2. ~ (i < j) /\ ~ (j < i)
      BY <1>4, <2>2, <3>1
    <3> QED
      BY <3>2
  <2>3. (i \in 1 .. m /\ z[i] = s[i]) => z[i][1] \in DOMAIN f
    BY <1>6
  <2>4. (j \in 1 .. m /\ z[j] = s[j]) => z[j][1] \in DOMAIN f
    BY <1>6
  <2> QED
    BY <1>10, <1>13, <2>1, <2>2, <2>3, <2>4
<1>14. IsMap(u)
  BY <1>9 DEF IsMap
<1> QED
  BY <1>4, <1>11, <1>12, <1>13, <1>14 DEF ListsMap, z

\* What is taken away is in both ranges, and if the order is the default one the rest is not.
LEMMA DifferencePicks ==
  ASSUME NEW s \in Seq(Flat!Pairs), Ordered(s), NEW t \in Seq(Flat!Pairs), Ordered(t)
  PROVE  \E I : /\ Picks(Flat!SetDifferenceOf(s, t), <<>>, s, I, Len(s))
                /\ \A n \in 1 .. Len(s) : n \notin I => \E i \in 1 .. Len(t) : t[i] = s[n]
                /\ ~ descending => \A n \in 1 .. Len(s) : n \in I => \A i \in 1 .. Len(t) : t[i] # s[n]
<1> DEFINE m == Len(t)
           top == Len(s)
           Going(g) == g = [n \in 0 .. top |-> IF n = 0 THEN 1
                              ELSE Flat!FirstOf({i \in g[n - 1] .. m : ~ Flat!PairLess(t[i], s[n])}, m)]
           at == CHOOSE g : Going(g)
           Adding(g) == g = [n \in 0 .. top |-> IF n = 0 THEN <<>>
                               ELSE IF at[n] > m \/ t[at[n]] # s[n] THEN Append(g[n - 1], s[n])
                               ELSE g[n - 1]]
           r == CHOOSE g : Adding(g)
           I == {n \in 1 .. top : at[n] > m \/ t[at[n]] # s[n]}
           T == [n \in 1 .. top |-> {i \in Int : ~ Flat!PairLess(t[i], s[n])}]
<1>1. m \in Nat /\ top \in Nat /\ <<>> \in Seq(Flat!Pairs)
  OBVIOUS
<1>2. Flat!SetDifferenceOf(s, t) = r[top]
  BY DEF Flat!SetDifferenceOf
<1>3. \A n \in 0 .. top : n # 0 => (n \in I <=> at[n] > m \/ t[at[n]] # s[n])
  BY <1>1
<1>4. \A n \in 0 .. top : n # 0 => \A i \in Int : i \in T[n] <=> ~ Flat!PairLess(t[i], s[n])
  <2>1. \A n \in 0 .. top : n # 0 => n \in 1 .. top
    BY <1>1
  <2> QED
    BY <2>1
<1> HIDE DEF I, T, m, top
<1>5. ASSUME NEW g PROVE Going(g) <=> Passing(g, top, m, T)
  <2>1. ASSUME NEW n \in 0 .. top, n # 0
        PROVE  {i \in g[n - 1] .. m : ~ Flat!PairLess(t[i], s[n])} = {i \in g[n - 1] .. m : i \in T[n]}
    BY <1>4, <2>1, RangeOfIntegers
  <2>2. [n \in 0 .. top |-> IF n = 0 THEN 1 ELSE Flat!FirstOf({i \in g[n - 1] .. m : ~ Flat!PairLess(t[i], s[n])}, m)] =
        [n \in 0 .. top |-> IF n = 0 THEN 1 ELSE Flat!FirstOf({i \in g[n - 1] .. m : i \in T[n]}, m)]
    BY <2>1
  <2> QED
    BY <2>2 DEF Passing
<1>6. Passing(at, top, m, T)
  <2>1. PICK g : Passing(g, top, m, T)
    BY <1>1, PassingExists
  <2> HIDE DEF Going
  <2>2. Going(g)
    BY <1>5, <2>1
  <2>3. Going(at)
    BY <2>2
  <2> QED
    BY <1>5, <2>3
<1> HIDE DEF at, Going
<1>7. ASSUME NEW g PROVE Adding(g) <=> Picking(g, top, <<>>, s, I)
  <2>1. ASSUME NEW n \in 0 .. top
        PROVE  (IF n = 0 THEN <<>> ELSE IF at[n] > m \/ t[at[n]] # s[n] THEN Append(g[n - 1], s[n])
                ELSE g[n - 1]) =
               IF n = 0 THEN <<>> ELSE IF n \in I THEN Append(g[n - 1], s[n]) ELSE g[n - 1]
    BY <1>3
  <2>2. [n \in 0 .. top |-> IF n = 0 THEN <<>>
           ELSE IF at[n] > m \/ t[at[n]] # s[n] THEN Append(g[n - 1], s[n]) ELSE g[n - 1]] =
        [n \in 0 .. top |-> IF n = 0 THEN <<>> ELSE IF n \in I THEN Append(g[n - 1], s[n]) ELSE g[n - 1]]
    BY <2>1
  <2> QED
    BY <2>2 DEF Picking
<1>8. Picking(r, top, <<>>, s, I)
  <2>1. PICK g : Picking(g, top, <<>>, s, I)
    BY <1>1, PickingExists
  <2> HIDE DEF Adding
  <2>2. Adding(g)
    BY <1>7, <2>1
  <2>3. Adding(r)
    BY <2>2
  <2> QED
    BY <1>7, <2>3
<1> HIDE DEF r, Adding
<1>9. Picks(r[top], <<>>, s, I, top)
  BY <1>1, <1>8, PickingPicks DEF top
<1>10. \A n \in 1 .. top : n \in 0 .. top /\ n # 0
  BY <1>1
<1>11. ASSUME NEW n \in 1 .. top, n \notin I PROVE \E i \in 1 .. m : t[i] = s[n]
  <2>1. at[n] \in 1 .. m + 1
    BY <1>1, <1>6, <1>10, PassingType
  <2>2. ~ (at[n] > m) /\ t[at[n]] = s[n]
    BY <1>3, <1>10, <1>11
  <2>3. at[n] \in 1 .. m
    BY <1>1, <2>1, <2>2
  <2> QED
    BY <2>2, <2>3
<1>12. ASSUME ~ descending, NEW n \in 1 .. top, n \in I PROVE \A i \in 1 .. m : t[i] # s[n]
  <2>1. /\ \A i \in 1 .. m : t[i] \in Flat!Pairs /\ t[i][1] \in Int /\ t[i][2] \in Int
        /\ \A i \in 1 .. top : s[i] \in Flat!Pairs /\ s[i][1] \in Int /\ s[i][2] \in Int
    BY SequenceIs, FlatAssumption DEF m, top
  <2>2. (\A i, j \in 1 .. m : i < j => t[i][1] < t[j][1]) /\ \A i, j \in 1 .. top : i < j => s[i][1] < s[j][1]
    BY <1>12 DEF Ordered, Flat!Before, m, top
  <2>3. ASSUME NEW k \in 1 .. top, NEW l \in 1 .. top, NEW i \in 1 .. m, k <= l, i \in T[l]
        PROVE  i \in T[k]
    <3>1. k = l \/ s[k][1] < s[l][1]
      BY <2>2, <2>3
    <3>2. i \in Int /\ ~ Flat!PairLess(t[i], s[l])
      BY <1>4, <1>10, <2>3
    <3>3. ~ Flat!PairLess(t[i], s[k])
      BY <2>1, <3>1, <3>2 DEF Flat!PairLess
    <3> QED
      BY <1>4, <1>10, <3>2, <3>3
  <2>4. \A k \in 1 .. top : /\ at[k] \in 1 .. m + 1
                            /\ \A j \in 1 .. at[k] - 1 : j \notin T[k]
                            /\ at[k] <= m => at[k] \in T[k]
    <3>1. \A k, l \in 1 .. top : \A i \in 1 .. m : k <= l /\ i \in T[l] => i \in T[k]
      BY <2>3
    <3> QED
      BY <1>1, <1>6, <3>1, PassingIs
  <2>5. PICK a : a = at[n]
    OBVIOUS
  <2>6. a \in 1 .. m + 1 /\ (\A j \in 1 .. a - 1 : j \notin T[n]) /\ (a <= m => a \in T[n])
    BY <2>4, <2>5
  <2>7. a > m \/ t[a] # s[n]
    BY <1>3, <1>10, <1>12, <2>5
  <2>8. ASSUME NEW i \in 1 .. m, t[i] = s[n] PROVE FALSE
    <3>1. i \in T[n]
      <4>1. ~ Flat!PairLess(t[i], s[n]) /\ i \in Int
        BY <2>1, <2>8 DEF Flat!PairLess
      <4> QED
        BY <1>4, <1>10, <4>1
    <3>2. a <= i
      BY <1>1, <2>6, <3>1
    <3>3. a \in 1 .. m /\ a \in Int
      BY <1>1, <2>6, <3>2
    <3>4. ~ Flat!PairLess(t[a], s[n])
      BY <1>4, <1>10, <2>6, <3>3
    <3>5. a < i
      BY <1>1, <2>7, <2>8, <3>2, <3>3
    <3>6. t[a][1] < t[i][1]
      BY <2>2, <3>3, <3>5
    <3> QED
      BY <2>8, <3>4, <3>6 DEF Flat!PairLess
  <2> QED
    BY <2>8
<1>13. Picks(Flat!SetDifferenceOf(s, t), <<>>, s, I, Len(s))
  BY <1>2, <1>9 DEF top
<1> QED
  BY <1>11, <1>12, <1>13 DEF m, top

LEMMA DifferenceIs ==
  ASSUME NEW s, NEW f, Enumerates(s, f), IsMap(f), NEW t, NEW g, Enumerates(t, g), IsMap(g),
         NEW u, u = [k \in DOMAIN f \ {l \in DOMAIN f \cap DOMAIN g : f[l] = g[l]} |-> f[k]]
  PROVE  LET z == Flat!SetDifferenceOf(s, t)
         IN  z \in Seq(Flat!Pairs) /\ Ordered(z) /\ Covers(z, u) /\ IsMap(u) /\ (~ descending => Within(z, u))
<1> DEFINE z == Flat!SetDifferenceOf(s, t)
<1>1. s \in Seq(Flat!Pairs) /\ Ordered(s) /\ t \in Seq(Flat!Pairs) /\ Ordered(t)
  BY DEF Enumerates
<1>2. PICK I : /\ Picks(z, <<>>, s, I, Len(s))
               /\ \A n \in 1 .. Len(s) : n \notin I => \E i \in 1 .. Len(t) : t[i] = s[n]
               /\ ~ descending => \A n \in 1 .. Len(s) : n \in I => \A i \in 1 .. Len(t) : t[i] # s[n]
  BY <1>1, DifferencePicks
<1> HIDE DEF z
<1>3. /\ z \in Seq(Flat!Pairs) /\ Ordered(z)
      /\ \A j \in 1 .. Len(z) : \E i \in 1 .. Len(s) : i \in I /\ z[j] = s[i]
      /\ \A i \in 1 .. Len(s) : i \in I => \E j \in 1 .. Len(z) : z[j] = s[i]
  BY <1>1, <1>2, PickedIs
<1>4. /\ DOMAIN u = DOMAIN f \ {l \in DOMAIN f \cap DOMAIN g : f[l] = g[l]}
      /\ \A k \in DOMAIN u : u[k] = f[k]
  OBVIOUS
<1>5. /\ \A i \in 1 .. Len(s) : s[i][1] \in DOMAIN f /\ s[i][2] = f[s[i][1]]
      /\ \A k \in DOMAIN f : \E i \in 1 .. Len(s) : s[i][1] = k /\ s[i][2] = f[k]
  BY DEF Enumerates, Covers, Within
<1>6. /\ \A i \in 1 .. Len(t) : t[i][1] \in DOMAIN g /\ t[i][2] = g[t[i][1]]
      /\ \A k \in DOMAIN g : \E i \in 1 .. Len(t) : t[i][1] = k /\ t[i][2] = g[k]
  BY DEF Enumerates, Covers, Within
<1>7. /\ \A i \in 1 .. Len(s) : s[i] = <<s[i][1], s[i][2]>>
      /\ \A i \in 1 .. Len(t) : t[i] = <<t[i][1], t[i][2]>>
  BY <1>1, SequenceIs
<1>8. Covers(z, u)
  <2>1. ASSUME NEW k \in DOMAIN u PROVE \E j \in 1 .. Len(z) : z[j][1] = k /\ z[j][2] = u[k]
    <3>1. PICK i \in 1 .. Len(s) : s[i][1] = k /\ s[i][2] = f[k]
      BY <1>4, <1>5
    <3>2. i \in I
      <4>1. ASSUME i \notin I PROVE FALSE
        <5>1. PICK l \in 1 .. Len(t) : t[l] = s[i]
          BY <1>2, <4>1
        <5>2. PICK q : q = t[l] /\ q = s[i]
          BY <5>1
        <5>3. q[1] \in DOMAIN g /\ q[2] = g[q[1]] /\ q[1] = k /\ q[2] = f[k]
          BY <1>6, <3>1, <5>2
        <5> QED
          BY <1>4, <5>3
      <4> QED
        BY <4>1
    <3>3. PICK j \in 1 .. Len(z) : z[j] = s[i]
      BY <1>3, <3>2
    <3> QED
      BY <1>4, <3>1, <3>3
  <2> QED
    BY <2>1 DEF Covers
<1>9. ASSUME ~ descending PROVE Within(z, u)
  <2>1. ASSUME NEW j \in 1 .. Len(z) PROVE z[j][1] \in DOMAIN u /\ z[j][2] = u[z[j][1]]
    <3>1. PICK i \in 1 .. Len(s) : i \in I /\ z[j] = s[i]
      BY <1>3
    <3>2. PICK k : k = s[i][1]
      OBVIOUS
    <3>3. k \in DOMAIN f /\ s[i][2] = f[k]
      BY <1>5, <3>2
    <3>4. ASSUME k \in DOMAIN g, f[k] = g[k] PROVE FALSE
      <4>1. PICK l \in 1 .. Len(t) : t[l][1] = k /\ t[l][2] = g[k]
        BY <1>6, <3>4
      <4>2. t[l] = <<k, f[k]>> /\ s[i] = <<k, f[k]>>
        BY <1>7, <3>2, <3>3, <3>4, <4>1
      <4> QED
        BY <1>2, <1>9, <3>1, <4>2
    <3>5. k \in DOMAIN u
      BY <1>4, <3>3, <3>4
    <3> QED
      BY <1>4, <3>1, <3>2, <3>3, <3>5
  <2> QED
    BY <2>1 DEF Within
<1>10. IsMap(u)
  BY <1>4 DEF IsMap
<1> QED
  BY <1>3, <1>8, <1>9, <1>10 DEF z

-----------------------------------------------------------------------------
(* Flat maps: what an operation does *)

LEMMA FlatRight ==
  ASSUME FlatInv, ~ wrongOrder
  PROVE  Enumerates(data, dict) /\ IsMap(dict) /\ data \in Seq(Flat!Pairs) /\ Ordered(data)
BY DEF FlatInv, Enumerates

LEMMA FlatStutter == FlatInv /\ UNCHANGED Flat!flatVars => FlatInv'
<1> SUFFICES ASSUME FlatInv, UNCHANGED Flat!flatVars PROVE FlatInv'
  OBVIOUS
<1>1. isSet' = isSet /\ data' = data /\ dict' = dict /\ descending' = descending /\ wrongOrder' = wrongOrder
  BY DEF Flat!flatVars
<1> QED
  BY <1>1 DEF FlatInv, IsMap, Ordered, Covers, Within, Flat!Before, Flat!Pairs, Flat!Unit

LEMMA FlatBecomes ==
  ASSUME FlatInv, ~ wrongOrder, NEW d, NEW f, Enumerates(d, f), IsMap(f), Flat!Becomes(d, f)
  PROVE  FlatInv'
<1>1. isSet' = isSet /\ data' = d /\ dict' = f /\ descending' = descending /\ wrongOrder' = wrongOrder
  BY DEF Flat!Becomes
<1>2. /\ isSet \in BOOLEAN /\ descending \in BOOLEAN /\ wrongOrder \in BOOLEAN
      /\ d \in Seq(Flat!Pairs) /\ Ordered(d) /\ Covers(d, f) /\ Within(d, f) /\ IsMap(f)
  BY DEF FlatInv, Enumerates
<1> QED
  BY <1>1, <1>2 DEF FlatInv, IsMap, Ordered, Covers, Within, Flat!Before, Flat!Pairs, Flat!Unit

LEMMA UnitType == Flat!Unit \in Mapped
BY FlatAssumption DEF Flat!Unit

\* A lookup finds the keys there are.
LEMMA FoundKey ==
  ASSUME FlatInv, ~ wrongOrder, NEW k \in Keys
  PROVE  /\ Bounds(data, k, Flat!LowerBound(k))
         /\ Flat!Found(k) <=> k \in DOMAIN dict
         /\ k \in DOMAIN dict => /\ Flat!LowerBound(k) \in 1 .. Len(data)
                                 /\ data[Flat!LowerBound(k)][1] = k /\ data[Flat!LowerBound(k)][2] = dict[k]
<1>1. Enumerates(data, dict) /\ data \in Seq(Flat!Pairs) /\ Ordered(data)
  BY FlatRight
<1> DEFINE a == Flat!LowerBound(k)
<1>2. Bounds(data, k, a)
  BY <1>1, LowerBoundIs DEF Flat!LowerBound
<1>3. Flat!Found(k) <=> a <= Len(data) /\ data[a][1] = k
  BY DEF Flat!Found
<1> HIDE DEF a
<1>4. /\ (a <= Len(data) /\ data[a][1] = k) <=> k \in DOMAIN dict
      /\ k \in DOMAIN dict => a \in 1 .. Len(data) /\ data[a][1] = k /\ data[a][2] = dict[k]
  BY <1>1, <1>2, FoundIs
<1> QED
  BY <1>2, <1>3, <1>4 DEF a

LEMMA FoundElement ==
  ASSUME FlatInv, ~ wrongOrder, isSet, NEW k \in Keys
  PROVE  Flat!HasElement(k) <=> k \in DOMAIN dict
<1> DEFINE a == Flat!LowerBound(k)
<1>1. /\ k \in DOMAIN dict => a \in 1 .. Len(data) /\ data[a][1] = k /\ data[a][2] = dict[k]
      /\ Flat!Found(k) <=> k \in DOMAIN dict
  BY FoundKey
<1>2. Flat!HasElement(k) <=> a <= Len(data) /\ data[a] = <<k, Flat!Unit>>
  BY DEF Flat!HasElement
<1>3. Flat!Found(k) <=> a <= Len(data) /\ data[a][1] = k
  BY DEF Flat!Found
<1> HIDE DEF a
<1>4. ASSUME k \in DOMAIN dict PROVE a <= Len(data) /\ data[a] = <<k, Flat!Unit>>
  <2>1. data \in Seq(Flat!Pairs) /\ dict[k] = Flat!Unit
    BY <1>4, FlatRight DEF IsMap
  <2>2. a \in 1 .. Len(data) /\ Len(data) \in Nat
    BY <1>1, <1>4, <2>1
  <2>3. data[a] = <<data[a][1], data[a][2]>>
    BY <2>1, <2>2, SequenceIs
  <2> QED
    BY <1>1, <1>4, <2>1, <2>2, <2>3
<1>5. ASSUME a <= Len(data), data[a] = <<k, Flat!Unit>> PROVE k \in DOMAIN dict
  BY <1>1, <1>3, <1>5
<1> QED
  BY <1>2, <1>4, <1>5

\* A missing key comes in at its lower bound.
LEMMA FlatInserts ==
  ASSUME FlatInv, ~ wrongOrder, NEW k \in Keys, NEW v \in Mapped, isSet => v = Flat!Unit, k \notin DOMAIN dict,
         Flat!Becomes(Flat!InsertAt(data, Flat!LowerBound(k), <<k, v>>), Flat!With(k, v))
  PROVE  FlatInv'
<1> DEFINE a == Flat!LowerBound(k)
           e == <<k, v>>
           z == Flat!InsertAt(data, a, e)
           g == Flat!With(k, v)
<1>1. Enumerates(data, dict) /\ IsMap(dict) /\ data \in Seq(Flat!Pairs)
  BY FlatRight
<1>2. Bounds(data, k, a)
  BY FoundKey
<1>3. a \in 1 .. Len(data) + 1 /\ e \in Flat!Pairs
  BY <1>2 DEF Bounds, Flat!Pairs
<1> HIDE DEF a
<1>4. InsertedAt(z, data, a, <<k, v>>)
  BY <1>1, <1>3, InsertAtIs
<1>5. Extended(g, dict, k, v)
  BY DEF Flat!With, Extended
<1> HIDE DEF z, g
<1>6. Enumerates(z, g) /\ IsMap(g)
  BY <1>1, <1>2, <1>4, <1>5, InsertionEnumerates
<1>7. Flat!Becomes(z, g)
  BY DEF z, g, a
<1> QED
  BY <1>6, <1>7, FlatBecomes

\* What is found goes away.
LEMMA FlatErases ==
  ASSUME FlatInv, ~ wrongOrder, NEW k \in Keys, k \in DOMAIN dict,
         Flat!Becomes(Flat!RemoveAt(data, Flat!LowerBound(k)), Flat!Without({k}))
  PROVE  FlatInv'
<1> DEFINE a == Flat!LowerBound(k)
           z == Flat!RemoveAt(data, a)
           g == Flat!Without({k})
<1>1. Enumerates(data, dict) /\ IsMap(dict) /\ data \in Seq(Flat!Pairs)
  BY FlatRight
<1>2. a \in 1 .. Len(data) /\ data[a][1] = k
  BY FoundKey
<1> HIDE DEF a
<1>3. RemovedAt(z, data, a)
  BY <1>1, <1>2, RemoveAtIs
<1>4. Reduced(g, dict, {data[a][1]})
  BY <1>2 DEF Flat!Without, Reduced
<1> HIDE DEF z, g
<1>5. Enumerates(z, g) /\ IsMap(g)
  BY <1>1, <1>2, <1>3, <1>4, RemovalEnumerates
<1>6. Flat!Becomes(z, g)
  BY DEF z, g, a
<1> QED
  BY <1>5, <1>6, FlatBecomes

LEMMA InsertKeepsMap ==
  ASSUME FlatInv, ~ wrongOrder, ~ isSet, NEW k \in Keys, NEW v \in Mapped, Flat!Insert(k, v)
  PROVE  FlatInv'
<1>1. CASE Flat!Found(k)
  BY <1>1, FlatStutter DEF Flat!Insert
<1>2. CASE ~ Flat!Found(k)
  <2>1. k \notin DOMAIN dict
    BY <1>2, FoundKey
  <2> QED
    BY <1>2, <2>1, FlatInserts DEF Flat!Insert
<1> QED
  BY <1>1, <1>2

\* z is s with e in the place of what was at i.
ReplacedAt(z, s, i, e) ==
  z \in Seq(Flat!Pairs) /\ Len(z) = Len(s) /\ \A j \in 1 .. Len(s) : z[j] = IF j = i THEN e ELSE s[j]

LEMMA ReplacementIs ==
  ASSUME NEW s \in Seq(Flat!Pairs), NEW i \in 1 .. Len(s), NEW e \in Flat!Pairs
  PROVE  ReplacedAt([s EXCEPT ![i] = e], s, i, e)
BY DEF ReplacedAt

LEMMA ReplacementEnumerates ==
  ASSUME NEW s, NEW f, Enumerates(s, f), IsMap(f), ~ isSet, NEW a \in 1 .. Len(s), NEW k \in Keys, s[a][1] = k,
         NEW v \in Mapped, NEW z, ReplacedAt(z, s, a, <<k, v>>),
         NEW g, Extended(g, f, k, v)
  PROVE  Enumerates(z, g) /\ IsMap(g)
<1> DEFINE n == Len(s)
<1>1. s \in Seq(Flat!Pairs) /\ n \in Nat
  BY DEF Enumerates
<1>2. z \in Seq(Flat!Pairs) /\ Len(z) = n /\ \A i \in 1 .. n : z[i] = IF i = a THEN <<k, v>> ELSE s[i]
  BY DEF ReplacedAt
<1>3. \A i \in 1 .. n : z[i][1] = s[i][1] /\ z[i][2] = IF i = a THEN v ELSE s[i][2]
  BY <1>2
<1>4. /\ \A i \in 1 .. n : s[i][1] \in DOMAIN f /\ s[i][2] = f[s[i][1]]
      /\ \A i \in 1 .. n : s[i][1] = k => i = a
      /\ \A l \in DOMAIN f : \E i \in 1 .. n : s[i][1] = l /\ s[i][2] = f[l]
  BY EnumerationLists DEF ListsMap, Covers, Within
<1>5. /\ k \in DOMAIN f /\ DOMAIN g = DOMAIN f /\ g[k] = v /\ \A l \in DOMAIN f : l # k => g[l] = f[l]
      /\ g = [l \in DOMAIN g |-> g[l]]
  <2>1. k \in DOMAIN f
    BY <1>4
  <2> QED
    BY <2>1 DEF Extended
<1> HIDE DEF n
<1>6. Ordered(z)
  BY <1>2, <1>3 DEF Enumerates, Ordered, n
<1>7. Within(z, g)
  <2>1. ASSUME NEW i \in 1 .. n PROVE z[i][1] \in DOMAIN g /\ z[i][2] = g[z[i][1]]
    <3>1. PICK l : l = s[i][1]
      OBVIOUS
    <3>2. l \in DOMAIN f /\ s[i][2] = f[l] /\ (l = k => i = a) /\ z[i][1] = l
      BY <1>3, <1>4, <3>1
    <3>3. i = a => l = k
      BY <3>1
    <3> QED
      BY <1>3, <1>5, <3>2, <3>3
  <2> QED
    BY <1>2, <2>1 DEF Within
<1>8. Covers(z, g)
  <2>1. ASSUME NEW l \in DOMAIN g PROVE \E i \in 1 .. n : z[i][1] = l /\ z[i][2] = g[l]
    <3>1. PICK i \in 1 .. n : s[i][1] = l /\ s[i][2] = f[l]
      BY <1>4, <1>5
    <3>2. l = k <=> i = a
      BY <1>4, <3>1
    <3>3. z[i][1] = l /\ z[i][2] = g[l]
      BY <1>3, <1>5, <3>1, <3>2
    <3> QED
      BY <3>3
  <2> QED
    BY <1>2, <2>1 DEF Covers
<1>9. IsMap(g)
  BY <1>5 DEF IsMap
<1> QED
  BY <1>2, <1>6, <1>7, <1>8, <1>9 DEF Enumerates

LEMMA TransformOrCreateKeeps ==
  ASSUME FlatInv, ~ wrongOrder, ~ isSet, NEW k \in Keys, NEW v \in Mapped, NEW w \in Mapped,
         Flat!TransformOrCreate(k, v, w)
  PROVE  FlatInv'
<1>1. CASE Flat!Found(k)
  <2> DEFINE a == Flat!LowerBound(k)
             z == [data EXCEPT ![a] = <<k, v>>]
             g == Flat!With(k, v)
  <2>1. Enumerates(data, dict) /\ IsMap(dict) /\ a \in 1 .. Len(data) /\ data[a][1] = k
    BY <1>1, FlatRight, FoundKey
  <2>2. Extended(g, dict, k, v)
    BY DEF Flat!With, Extended
  <2>3. Flat!Becomes(z, g)
    BY <1>1 DEF Flat!TransformOrCreate
  <2> HIDE DEF a
  <2>4. data \in Seq(Flat!Pairs) /\ <<k, v>> \in Flat!Pairs
    BY FlatRight DEF Flat!Pairs
  <2>5. ReplacedAt(z, data, a, <<k, v>>)
    BY <2>1, <2>4, ReplacementIs
  <2> HIDE DEF g, z
  <2>6. Enumerates(z, g) /\ IsMap(g)
    BY <2>1, <2>2, <2>5, ReplacementEnumerates
  <2> QED
    BY <2>3, <2>6, FlatBecomes
<1>2. CASE ~ Flat!Found(k)
  <2>1. k \notin DOMAIN dict
    BY <1>2, FoundKey
  <2> QED
    BY <1>2, <2>1, FlatInserts DEF Flat!TransformOrCreate
<1> QED
  BY <1>1, <1>2

LEMMA EraseKeepsMap ==
  ASSUME FlatInv, ~ wrongOrder, NEW k \in Keys, Flat!Erase(k)
  PROVE  FlatInv'
<1>1. CASE Flat!Found(k)
  <2>1. k \in DOMAIN dict
    BY <1>1, FoundKey
  <2> QED
    BY <1>1, <2>1, FlatErases DEF Flat!Erase
<1>2. CASE ~ Flat!Found(k)
  BY <1>2, FlatStutter DEF Flat!Erase
<1> QED
  BY <1>1, <1>2

LEMMA InsertElementKeeps ==
  ASSUME FlatInv, ~ wrongOrder, isSet, NEW k \in Keys, Flat!InsertElement(k)
  PROVE  FlatInv'
<1>1. CASE Flat!HasElement(k)
  BY <1>1, FlatStutter DEF Flat!InsertElement
<1>2. CASE ~ Flat!HasElement(k)
  <2>1. k \notin DOMAIN dict
    BY <1>2, FoundElement
  <2> QED
    BY <1>2, <2>1, UnitType, FlatInserts DEF Flat!InsertElement
<1> QED
  BY <1>1, <1>2

LEMMA EraseElementKeeps ==
  ASSUME FlatInv, ~ wrongOrder, isSet, NEW k \in Keys, Flat!EraseElement(k)
  PROVE  FlatInv'
<1>1. CASE Flat!HasElement(k)
  <2>1. k \in DOMAIN dict
    BY <1>1, FoundElement
  <2> QED
    BY <1>1, <2>1, FlatErases DEF Flat!EraseElement
<1>2. CASE ~ Flat!HasElement(k)
  BY <1>2, FlatStutter DEF Flat!EraseElement
<1> QED
  BY <1>1, <1>2

LEMMA PopFrontKeeps ==
  ASSUME FlatInv, ~ wrongOrder, Flat!PopFront
  PROVE  FlatInv'
<1> DEFINE First(k) == \A l \in DOMAIN dict : k = l \/ Flat!Before(k, l)
           first == CHOOSE k \in DOMAIN dict : First(k)
           z == Tail(data)
           g == Flat!Without({first})
<1>1. Enumerates(data, dict) /\ IsMap(dict) /\ data \in Seq(Flat!Pairs) /\ Ordered(data)
  BY FlatRight
<1>2. data # <<>> /\ Flat!Becomes(z, g)
  BY DEF Flat!PopFront
<1>3. RemovedAt(z, data, 1)
  BY <1>1, <1>2, TailRemoves
<1>4. 1 \in 1 .. Len(data)
  BY <1>1, <1>2
<1>5. data[1][1] \in DOMAIN dict /\ First(data[1][1])
  <2>1. data[1][1] \in DOMAIN dict
    BY <1>1, <1>4 DEF Enumerates, Within
  <2>2. ASSUME NEW l \in DOMAIN dict PROVE data[1][1] = l \/ Flat!Before(data[1][1], l)
    <3>1. PICK i \in 1 .. Len(data) : data[i][1] = l
      BY <1>1 DEF Enumerates, Covers
    <3>2. i = 1 \/ 1 < i
      BY <1>1
    <3> QED
      BY <1>1, <1>4, <3>1, <3>2 DEF Ordered
  <2> QED
    BY <2>1, <2>2
<1>6. first \in DOMAIN dict /\ First(first)
  <2> HIDE DEF First
  <2> QED
    BY <1>5
<1>7. first = data[1][1]
  <2>1. first \in Keys /\ data[1][1] \in Keys
    BY <1>1, <1>5, <1>6 DEF IsMap
  <2>2. first = data[1][1] \/ Flat!Before(first, data[1][1])
    BY <1>5, <1>6
  <2>3. first = data[1][1] \/ Flat!Before(data[1][1], first)
    <3> HIDE DEF first
    <3> QED
      BY <1>5, <1>6
  <2> HIDE DEF first
  <2> QED
    BY <2>1, <2>2, <2>3, KeyOrder
<1>8. Reduced(g, dict, {data[1][1]})
  BY <1>7 DEF Flat!Without, Reduced
<1> HIDE DEF z, g, first, First
<1>9. Enumerates(z, g) /\ IsMap(g)
  BY <1>1, <1>3, <1>4, <1>8, RemovalEnumerates
<1> QED
  BY <1>2, <1>9, FlatBecomes

LEMMA EraseIfKeeps ==
  ASSUME FlatInv, ~ wrongOrder, NEW D, Flat!EraseIf(D)
  PROVE  FlatInv'
<1> DEFINE z == Flat!Kept(data, D)
           g == Flat!Without(D)
<1>1. Flat!Becomes(z, g)
  BY DEF Flat!EraseIf
<1>2. Reduced(g, dict, D)
  BY DEF Flat!Without, Reduced
<1>3. Enumerates(data, dict) /\ IsMap(dict)
  BY FlatRight
<1> HIDE DEF g
<1>4. Enumerates(z, g) /\ IsMap(g)
  BY <1>2, <1>3, KeptEnumerates
<1> HIDE DEF z
<1> QED
  BY <1>1, <1>4, FlatBecomes

LEMMA NothingEnumerates == Enumerates(<<>>, <<>>) /\ IsMap(<<>>)
<1>1. <<>> \in Seq(Flat!Pairs) /\ Len(<<>>) = 0 /\ 1 .. 0 = {} /\ DOMAIN <<>> = {} /\ <<>> = [k \in {} |-> <<>>[k]]
  OBVIOUS
<1>2. PICK s \in Seq(Flat!Pairs) : s = <<>> /\ 1 .. Len(s) = {} /\ DOMAIN s = {} /\ s = [k \in {} |-> s[k]]
  BY <1>1, Zenon
<1>3. Enumerates(s, s)
  BY <1>2 DEF Enumerates, Ordered, Covers, Within
<1>4. IsMap(s)
  BY <1>2 DEF IsMap
<1> QED
  BY <1>2, <1>3, <1>4

LEMMA OtherIsMap ==
  ASSUME FlatInv, NEW f \in Flat!Others
  PROVE  IsMap(f)
<1>1. PICK D \in SUBSET Keys : f \in [D -> IF isSet THEN {Flat!Unit} ELSE Mapped]
  BY DEF Flat!Others
<1>2. DOMAIN f = D /\ f = [k \in D |-> f[k]] /\ \A k \in D : f[k] \in IF isSet THEN {Flat!Unit} ELSE Mapped
  BY <1>1
<1>3. \A k \in D : f[k] \in Mapped /\ (isSet => f[k] = Flat!Unit)
  BY <1>2, UnitType
<1> QED
  BY <1>2, <1>3 DEF IsMap

LEMMA SetUnionKeeps ==
  ASSUME FlatInv, ~ wrongOrder, NEW f \in Flat!Others, Flat!SetUnion(f)
  PROVE  FlatInv'
<1> DEFINE t == Flat!InOrder(f)
           z == Flat!SetUnionUnsorted(data, t)
           u == [k \in DOMAIN dict \cup DOMAIN f |-> IF k \in DOMAIN dict THEN dict[k] ELSE f[k]]
<1>1. Flat!Becomes(Flat!Sorted(z), u)
  BY DEF Flat!SetUnion
<1>2. Enumerates(data, dict) /\ IsMap(dict) /\ IsMap(f)
  BY FlatRight, OtherIsMap
<1>3. Enumerates(t, f)
  BY <1>2, InOrderIs
<1> HIDE DEF t
<1>4. ListsMap(z, u) /\ IsMap(u)
  BY <1>2, <1>3, UnionLists
<1> HIDE DEF z, u
<1>5. Enumerates(Flat!Sorted(z), u)
  BY <1>4, SortedEnumerates
<1> QED
  BY <1>1, <1>4, <1>5, FlatBecomes

LEMMA SetDifferenceKeeps ==
  ASSUME FlatInv, ~ wrongOrder, NEW f \in Flat!Others, Flat!SetDifference(f)
  PROVE  FlatInv'
<1> DEFINE t == Flat!InOrder(f)
           z == Flat!SetDifferenceOf(data, t)
           u == Flat!Without({k \in DOMAIN dict \cap DOMAIN f : dict[k] = f[k]})
<1>1. data' = z /\ dict' = u /\ wrongOrder' = descending /\ isSet' = isSet /\ descending' = descending
  BY DEF Flat!SetDifference
<1>2. Enumerates(data, dict) /\ IsMap(dict) /\ IsMap(f)
  BY FlatRight, OtherIsMap
<1>3. Enumerates(t, f)
  BY <1>2, InOrderIs
<1>4. u = [k \in DOMAIN dict \ {l \in DOMAIN dict \cap DOMAIN f : dict[l] = f[l]} |-> dict[k]]
  BY DEF Flat!Without
<1> HIDE DEF t, u
<1>5. z \in Seq(Flat!Pairs) /\ Ordered(z) /\ Covers(z, u) /\ IsMap(u) /\ (~ descending => Within(z, u))
  BY <1>2, <1>3, <1>4, DifferenceIs
<1> HIDE DEF z
<1>6. isSet \in BOOLEAN /\ descending \in BOOLEAN
  BY DEF FlatInv
<1> QED
  BY <1>1, <1>5, <1>6 DEF FlatInv, IsMap, Ordered, Covers, Within, Flat!Before, Flat!Pairs, Flat!Unit

LEMMA FlatInitInv == Flat!FlatInit => FlatInv
<1> SUFFICES ASSUME Flat!FlatInit PROVE FlatInv
  OBVIOUS
<1>1. /\ isSet \in BOOLEAN /\ descending \in BOOLEAN /\ wrongOrder \in BOOLEAN
      /\ data = <<>> /\ dict = <<>>
  BY DEF Flat!FlatInit
<1> QED
  BY <1>1, NothingEnumerates DEF FlatInv, Enumerates

LEMMA FlatNextInv == FlatInv /\ Flat!FlatNext => FlatInv'
<1> SUFFICES ASSUME FlatInv, Flat!FlatNext PROVE FlatInv'
  OBVIOUS
<1>1. ~ wrongOrder
  BY DEF Flat!FlatNext
<1>2. CASE Flat!PopFront
  BY <1>1, <1>2, PopFrontKeeps
<1>3. CASE Flat!Clear
  BY <1>1, <1>3, NothingEnumerates, FlatBecomes DEF Flat!Clear
<1>4. CASE isSet /\ \E e \in Keys : Flat!InsertElement(e) \/ Flat!EraseElement(e)
  BY <1>1, <1>4, InsertElementKeeps, EraseElementKeeps
<1>5. CASE ~ isSet /\ \E k \in Keys : Flat!Erase(k) \/ \E v, w \in Mapped : Flat!Insert(k, v) \/ Flat!TransformOrCreate(k, v, w)
  BY <1>1, <1>5, EraseKeepsMap, InsertKeepsMap, TransformOrCreateKeeps
<1>6. CASE \E D \in SUBSET Keys : Flat!EraseIf(D)
  BY <1>1, <1>6, EraseIfKeeps
<1>7. CASE \E f \in Flat!Others : Flat!SetUnion(f) \/ Flat!SetDifference(f)
  BY <1>1, <1>7, SetUnionKeeps, SetDifferenceKeeps
<1> QED
  BY <1>2, <1>3, <1>4, <1>5, <1>6, <1>7 DEF Flat!FlatNext

LEMMA InvMapsItsKeys == FlatInv => Flat!MapsItsKeys
<1> SUFFICES ASSUME FlatInv PROVE Flat!MapsItsKeys
  OBVIOUS
<1>1. ASSUME ~ wrongOrder PROVE data = Flat!InOrder(dict)
  <2>1. Enumerates(data, dict) /\ Enumerates(Flat!InOrder(dict), dict)
    BY <1>1, FlatRight, InOrderIs
  <2> QED
    BY <2>1, EnumerationIsUnique
<1>2. ASSUME ~ wrongOrder, NEW k \in Keys
      PROVE  /\ (IF isSet THEN Flat!HasElement(k) ELSE Flat!Found(k)) <=> k \in DOMAIN dict
             /\ Flat!FindSorted(data, k) <= Len(data) <=> k \in DOMAIN dict
  <2>1. (IF isSet THEN Flat!HasElement(k) ELSE Flat!Found(k)) <=> k \in DOMAIN dict
    BY <1>2, FoundKey, FoundElement
  <2>2. Flat!FindSorted(data, k) = IF Flat!Found(k) THEN Flat!LowerBound(k) ELSE Len(data) + 1
    BY DEF Flat!FindSorted, Flat!Found, Flat!LowerBound
  <2>3. Len(data) \in Nat
    BY <1>2, FlatRight
  <2>4. Flat!Found(k) => Flat!LowerBound(k) <= Len(data)
    BY DEF Flat!Found
  <2>5. Flat!Found(k) <=> k \in DOMAIN dict
    BY <1>2, FoundKey
  <2> QED
    BY <2>1, <2>2, <2>3, <2>4, <2>5
<1>3. {<<k, dict[k]>> : k \in DOMAIN dict} \subseteq {data[i] : i \in 1 .. Len(data)}
  <2>1. ASSUME NEW k \in DOMAIN dict PROVE \E i \in 1 .. Len(data) : data[i] = <<k, dict[k]>>
    <3>1. PICK i \in 1 .. Len(data) : data[i][1] = k /\ data[i][2] = dict[k]
      BY DEF FlatInv, Covers
    <3>2. data[i] = <<data[i][1], data[i][2]>>
      BY SequenceIs DEF FlatInv
    <3> QED
      BY <3>1, <3>2
  <2> QED
    BY <2>1
<1>4. \A i, j \in 1 .. Len(data) : i < j => Flat!Before(data[i][1], data[j][1])
  BY DEF FlatInv, Ordered
<1> QED
  BY <1>1, <1>2, <1>3, <1>4 DEF Flat!MapsItsKeys

-----------------------------------------------------------------------------
(* Chunked arrays: every step keeps their invariant *)

LEMMA ChunkedNextInv == ChunkedInv /\ Chunked!ChunkedNext => ChunkedInv'
<1> SUFFICES ASSUME ChunkedInv, Chunked!ChunkedNext PROVE ChunkedInv'
  OBVIOUS
<1>1. misuse = {}
  BY DEF Chunked!ChunkedNext
<1>2. GoodBlocks(mem, elements, sizes, blockNum, blocks) /\ HandleOK(handle)
  BY <1>1 DEF ChunkedInv
<1>3. ASSUME GoodBlocks(mem', elements', sizes', blockNum', blocks') /\ HandleOK(handle') /\ misuse' = misuse
      PROVE  ChunkedInv'
  BY <1>1, <1>3 DEF ChunkedInv
<1>4. ASSUME misuse' # {} /\ Chunked!ChunkedTypeOK' /\ Chunked!CostOfChunkedMisuse'
      PROVE  ChunkedInv'
  BY <1>4 DEF ChunkedInv
<1>5. ASSUME \/ misuse' = {} /\ GoodBlocks(mem', elements', sizes', blockNum', blocks') /\ HandleOK(handle')
             \/ misuse' # {} /\ Chunked!ChunkedTypeOK' /\ Chunked!CostOfChunkedMisuse'
      PROVE  ChunkedInv'
  BY <1>5 DEF ChunkedInv
<1>6. ASSUME NEW k \in 1 .. 2, blockNum + k <= MaxBlocks, Chunked!AddBlocks(k) PROVE ChunkedInv'
  BY <1>2, <1>3, <1>6, AddBlocksKeeps
<1>7. ASSUME NEW k \in 1 .. 2, blockNum + k <= MaxBlocks, Chunked!AddBlocksFails(k) PROVE ChunkedInv'
  BY <1>2, <1>4, <1>7, AddBlocksFailsCosts
<1>8. ASSUME Chunked!PopBlock PROVE ChunkedInv'
  BY <1>2, <1>3, <1>8, BlockPopKeeps
<1>9. ASSUME Chunked!DestructChunked PROVE ChunkedInv'
  BY <1>1, <1>2, <1>5, <1>9, DestructKeeps
<1>10. ASSUME Chunked!MoveFrom PROVE ChunkedInv'
  BY <1>2, <1>4, <1>10, MoveFromCosts
<1>11. ASSUME NEW b \in 1 .. MaxBlocks, Chunked!Keep(b) PROVE ChunkedInv'
  BY <1>2, <1>3, <1>11, KeepKeeps
<1>12. ASSUME NEW b \in 1 .. MaxBlocks, NEW v \in Values, Chunked!PushBack(b, v) PROVE ChunkedInv'
  BY <1>2, <1>3, <1>12, BlockPushBackKeeps
<1>13. ASSUME NEW b \in 1 .. MaxBlocks, NEW v \in Values, Chunked!BlockErase(b, v) PROVE ChunkedInv'
  BY <1>2, <1>3, <1>13, BlockEraseKeeps
<1>14. ASSUME NEW b \in 1 .. MaxBlocks, NEW i \in 1 .. BlockSize, Chunked!BlockEraseOwn(b, i) PROVE ChunkedInv'
  BY <1>2, <1>4, <1>14, BlockEraseOwnCosts
<1>15. ASSUME NEW v \in Values, Chunked!PushBackKept(v) PROVE ChunkedInv'
  BY <1>1, <1>2, <1>5, <1>15, PushBackKeptKeeps
<1>16. CASE \E k \in 1 .. 2 : blockNum + k <= MaxBlocks /\ (Chunked!AddBlocks(k) \/ Chunked!AddBlocksFails(k))
  BY <1>6, <1>7, <1>16
<1>17. CASE \E b \in 1 .. MaxBlocks :
               \/ Chunked!Keep(b)
               \/ \E v \in Values : Chunked!PushBack(b, v) \/ Chunked!BlockErase(b, v)
               \/ \E i \in 1 .. BlockSize : Chunked!BlockEraseOwn(b, i)
  BY <1>11, <1>12, <1>13, <1>14, <1>17
<1>18. CASE \E v \in Values : Chunked!PushBackKept(v)
  BY <1>15, <1>18
<1> QED
  BY <1>8, <1>9, <1>10, <1>16, <1>17, <1>18 DEF Chunked!ChunkedNext

LEMMA ChunkedStutterInv ==
  ChunkedInv /\ UNCHANGED <<mem, misuse, elements, sizes, blockNum, handle, blocks>> => ChunkedInv'
<1> SUFFICES ASSUME ChunkedInv, UNCHANGED <<mem, misuse, elements, sizes, blockNum, handle, blocks>> PROVE ChunkedInv'
  OBVIOUS
<1>1. /\ mem' = mem /\ misuse' = misuse /\ elements' = elements /\ sizes' = sizes /\ blockNum' = blockNum
      /\ handle' = handle /\ blocks' = blocks
  OBVIOUS
<1>2. CASE misuse = {}
  BY <1>1, <1>2 DEF ChunkedInv
<1>3. CASE misuse # {}
  <2>1. Chunked!ChunkedTypeOK /\ Chunked!CostOfChunkedMisuse
    BY <1>3 DEF ChunkedInv
  <2>2. Chunked!ChunkedTypeOK'
    BY <1>1, <1>3, <2>1, ChunkedTypeIs
  <2>3. Chunked!Contents' = Chunked!Contents
    BY <1>1, ContentsFound
  <2>4. Chunked!ValueNum' = Chunked!ValueNum
    BY <1>1 DEF Chunked!ValueNum
  <2>5. \A b : Chunked!Block(b)' = Chunked!Block(b)
    BY <1>1 DEF Chunked!Block
  <2>6. Chunked!BlocksAreRight' => Chunked!BlocksAreRight
    <3> SUFFICES ASSUME Chunked!BlocksAreRight' PROVE Chunked!BlocksAreRight
      OBVIOUS
    <3>1. mem.faults = {} /\ Chunked!Contents = blocks /\ elements.end - elements.begin = BlockSize * Len(sizes)
      BY <1>1, <2>3 DEF Chunked!BlocksAreRight
    <3>2. Chunked!ValueNum = Chunked!Cardinality({a \in Chunked!Address : mem.slot[a] \in Chunked!Alive})
      BY <1>1, <2>4 DEF Chunked!BlocksAreRight
    <3>3. \A a \in Chunked!Address :
            mem.slot[a] \in Chunked!Alive <=>
              \E b \in 1 .. blockNum : a \in Chunked!Span(Chunked!Block(b).begin, Chunked!Block(b).end)
      BY <1>1, <2>5 DEF Chunked!BlocksAreRight
    <3> QED
      BY <3>1, <3>2, <3>3 DEF Chunked!BlocksAreRight
  <2>7. Chunked!CostOfChunkedMisuse'
    BY <1>1, <2>1, <2>3, <2>6 DEF Chunked!CostOfChunkedMisuse
  <2> QED
    BY <1>1, <1>3, <2>2, <2>7 DEF ChunkedInv
<1> QED
  BY <1>2, <1>3

-----------------------------------------------------------------------------
IInv ==
  /\ part = "arrays" => ArraysInv
  /\ part = "flat" => FlatInv
  /\ part = "bits" => BitsInv
  /\ part = "nested" => NestedInv
  /\ part = "chunked" => ChunkedInv

LEMMA InitInv == ContainersInit => IInv
<1> SUFFICES ASSUME ContainersInit PROVE IInv
  OBVIOUS
<1>1. part = "bits" => BitsInv
  BY BitsInitInv DEF ContainersInit
<1>2. part = "nested" => NestedInv
  BY NestedInitInv DEF ContainersInit
<1>3. part = "arrays" => ArraysInv
  BY ArraysInitInv DEF ContainersInit
<1>4. part = "flat" => FlatInv
  BY FlatInitInv DEF ContainersInit
<1>5. part = "chunked" => ChunkedInv
  BY ChunkedInitInv DEF ContainersInit
<1> QED
  BY <1>1, <1>2, <1>3, <1>4, <1>5 DEF IInv

LEMMA NextInv == IInv /\ [ContainersNext]_containerVars => IInv'
<1> SUFFICES ASSUME IInv, [ContainersNext]_containerVars PROVE IInv'
  OBVIOUS
<1>1. ASSUME part' = "bits" PROVE BitsInv'
  <2>1. CASE ContainersNext
    <3>1. part = "bits" /\ Bit!BitsNext
      BY <1>1, <2>1 DEF ContainersNext
    <3> QED
      BY <3>1, BitsNextInv DEF IInv
  <2>2. CASE UNCHANGED containerVars
    <3>1. part = "bits" /\ UNCHANGED <<kind, want, bitsOnly>>
      BY <1>1, <2>2 DEF containerVars, arrayVars, vars
    <3> QED
      BY <3>1, BitsStutterInv DEF IInv
  <2> QED
    BY <2>1, <2>2
<1>2. ASSUME part' = "nested" PROVE NestedInv'
  <2>1. CASE ContainersNext
    <3>1. part = "nested" /\ Nested!NestedNext
      BY <1>2, <2>1 DEF ContainersNext
    <3> QED
      BY <3>1, NestedNextInv DEF IInv
  <2>2. CASE UNCHANGED containerVars
    <3>1. part = "nested" /\ UNCHANGED nestedOnly
      BY <1>2, <2>2 DEF containerVars
    <3> QED
      BY <3>1, NestedStutterInv DEF IInv
  <2> QED
    BY <2>1, <2>2
<1>3. ASSUME part' = "arrays" PROVE ArraysInv'
  <2>1. part = "arrays" /\ [ArraysNext]_arrayVars
    BY <1>3 DEF ContainersNext, containerVars
  <2> QED
    BY <2>1, ArraysNextInv DEF IInv
<1>4. ASSUME part' = "flat" PROVE FlatInv'
  <2>1. CASE ContainersNext
    <3>1. part = "flat" /\ Flat!FlatNext
      BY <1>4, <2>1 DEF ContainersNext
    <3> QED
      BY <3>1, FlatNextInv DEF IInv
  <2>2. CASE UNCHANGED containerVars
    <3>1. part = "flat" /\ UNCHANGED Flat!flatVars
      BY <1>4, <2>2 DEF containerVars, flatOnly, Flat!flatVars
    <3> QED
      BY <3>1, FlatStutter DEF IInv
  <2> QED
    BY <2>1, <2>2
<1>5. ASSUME part' = "chunked" PROVE ChunkedInv'
  <2>1. CASE ContainersNext
    <3>1. part = "chunked" /\ Chunked!ChunkedNext
      BY <1>5, <2>1 DEF ContainersNext
    <3> QED
      BY <3>1, ChunkedNextInv DEF IInv
  <2>2. CASE UNCHANGED containerVars
    <3>1. part = "chunked" /\ UNCHANGED <<mem, misuse, elements, sizes, blockNum, handle, blocks>>
      BY <1>5, <2>2 DEF containerVars, arrayVars, vars, chunkedOnly
    <3> QED
      BY <3>1, ChunkedStutterInv DEF IInv
  <2> QED
    BY <2>1, <2>2
<1> QED
  BY <1>1, <1>2, <1>3, <1>4, <1>5 DEF IInv

LEMMA Invariance == ContainersSpec => []IInv
BY InitInv, NextInv, PTL DEF ContainersSpec

-----------------------------------------------------------------------------
(* Arrays *)

\* Whatever a program does with arrays of any kind and of every length: no element is constructed
\* twice, used outside of its life or left behind, and no allocation is lost or has two owners, as
\* long as it does not take what is not there from one of them.
THEOREM ArraysOwn == ContainersSpec => []ArraysOwnTheirElements
<1>1. IInv => ArraysOwnTheirElements
  BY InvGivesLives DEF IInv, ArraysInv, ArraysOwnTheirElements
<1> QED
  BY <1>1, Invariance, PTL

\* And each of them holds, element by element, the sequence that its operations promise, also when
\* an allocation has failed; what is not guarded against costs no more than is said.
THEOREM ArraysHold == ContainersSpec => []ArraysHoldTheirSequence
<1>1. IInv => ArraysHoldTheirSequence
  BY InvGivesSequences DEF IInv, ArraysInv, ArraysHoldTheirSequence
<1> QED
  BY <1>1, Invariance, PTL

-----------------------------------------------------------------------------
(* Chunked arrays *)

\* For every block size and every number of blocks: the blocks of a chunked array hold the values its
\* operations promise, nothing else is alive, and no element is used outside of its life, while the
\* blocks move into larger allocations and when one of those fails; a handle that is kept beyond
\* that, and an array whose second allocation has failed, cost no more than is said.
THEOREM BlocksHold == ContainersSpec => []BlocksHoldTheirElements
<1>1. IInv => BlocksHoldTheirElements
  BY ChunkedInvRight DEF IInv, BlocksHoldTheirElements
<1> QED
  BY <1>1, Invariance, PTL

-----------------------------------------------------------------------------
(* Flat sets and maps *)

\* For every set of keys and every order of them: a flat map is the sorted sequence of the pairs of
\* the function that its operations promise, through unions and differences that pass each of two
\* ranges once too, and lookups find exactly its keys; a difference in the wrong order costs no more
\* than that too much stays.
THEOREM FlatMapsAreRight == ContainersSpec => []FlatMapsTheKeys
<1>1. IInv => FlatMapsTheKeys
  BY InvMapsItsKeys DEF IInv, FlatMapsTheKeys
<1> QED
  BY <1>1, Invariance, PTL

-----------------------------------------------------------------------------
(* Counting leading zeros and ones *)

LEMMA LeastIs ==
  ASSUME NEW T \in SUBSET Nat, T # {}
  PROVE  Bit!Min(T) \in T /\ \A y \in T : Bit!Min(T) <= y
<1>1. \E x \in T : \A y \in T : x <= y
  BY LeastElement
<1> QED
  BY <1>1, Zenon DEF Bit!Min

\* What is reached is the first stop, or the end if there is none.
LEMMA ReachedIs ==
  ASSUME NEW n \in Nat, NEW T \in SUBSET (0 .. n - 1)
  PROVE  /\ Bit!Reached(T, n) \in 0 .. n
         /\ \A j \in 0 .. Bit!Reached(T, n) - 1 : j \notin T
         /\ Bit!Reached(T, n) # n => Bit!Reached(T, n) \in T
<1>1. CASE T = {}
  BY <1>1 DEF Bit!Reached
<1>2. CASE T # {}
  <2>1. T \in SUBSET Nat
    OBVIOUS
  <2>2. Bit!Reached(T, n) = Bit!Min(T)
    BY <1>2 DEF Bit!Reached
  <2>3. Bit!Min(T) \in T /\ \A y \in T : Bit!Min(T) <= y
    BY <1>2, <2>1, LeastIs
  <2>4. ASSUME NEW m \in T, \A y \in T : m <= y
        PROVE  m \in 0 .. n /\ \A j \in 0 .. m - 1 : j \notin T
    <3>1. m \in Nat
      BY <2>1
    <3> QED
      BY <2>4, <3>1
  <2> QED
    BY <2>2, <2>3, <2>4
<1> QED
  BY <1>1, <1>2

LEMMA ReachedIsUnique ==
  ASSUME NEW n \in Nat, NEW T \in SUBSET (0 .. n - 1), NEW r \in 0 .. n,
         \A j \in 0 .. r - 1 : j \notin T, r # n => r \in T
  PROVE  Bit!Reached(T, n) = r
<1> DEFINE m == Bit!Reached(T, n)
<1>1. m \in 0 .. n /\ (\A j \in 0 .. m - 1 : j \notin T) /\ (m # n => m \in T)
  BY ReachedIs
<1> HIDE DEF m
<1>2. ~ (m < r)
  BY <1>1
<1>3. ~ (r < m)
  BY <1>1
<1> QED
  BY <1>1, <1>2, <1>3 DEF m

\* stops[k] is where the count would end in the chunk k, lows[k] how far it comes there.
CountsOf(n, stops, lows) ==
  /\ n \in Nat
  /\ stops \in [1 .. Bit!ChunkNum(n) -> SUBSET (0 .. PerChunk - 1)]
  /\ lows \in [1 .. Bit!ChunkNum(n) -> 0 .. PerChunk]
  /\ \A k \in 1 .. Bit!ChunkNum(n) :
       /\ \A j \in 0 .. lows[k] - 1 : j \notin stops[k]
       /\ lows[k] # PerChunk => lows[k] \in stops[k]
StopsIn(n, stops) == {i \in 0 .. n - 1 : i % PerChunk \in stops[Bit!ChunkOf(i)]}

\* Behind chunks that are counted to their ends the count goes on in the next one.
LEMMA CountGoesOn ==
  ASSUME NEW n, NEW stops, NEW lows, CountsOf(n, stops, lows),
         NEW k \in 1 .. Bit!ChunkNum(n), \A l \in 1 .. k - 1 : lows[l] = PerChunk
  PROVE  /\ (k - 1) * PerChunk + lows[k] \in Nat
         /\ \A j \in 0 .. ((k - 1) * PerChunk + lows[k]) - 1 : j \notin StopsIn(n, stops)
         /\ (k - 1) * PerChunk + lows[k] < n /\ lows[k] # PerChunk
              => (k - 1) * PerChunk + lows[k] \in StopsIn(n, stops)
<1> DEFINE m == Bit!ChunkNum(n)
           s == (k - 1) * PerChunk
           r == s + lows[k]
<1>1. n \in Nat /\ m \in Nat /\ k \in Nat \ {0} /\ k <= m /\ lows[k] \in 0 .. PerChunk
      /\ PerChunk \in Nat \ {0}
  <2>1. n \in Nat /\ lows[k] \in 0 .. PerChunk
    BY DEF CountsOf
  <2>2. m \in Nat
    BY <2>1, ChunkNumIs
  <2> HIDE DEF m
  <2>3. k \in 1 .. m
    BY DEF m
  <2> QED
    BY <2>1, <2>2, <2>3, BitsAssumption
<1>2. s \in Nat /\ r \in Nat /\ s + PerChunk = k * PerChunk
  <2>1. k - 1 \in Nat
    BY <1>1
  <2> QED
    BY <1>1, <2>1, SMT
<1> HIDE DEF m, s
<1>3. ASSUME NEW j \in 0 .. r - 1, j \in StopsIn(n, stops) PROVE FALSE
  <2>1. j \in Nat /\ j < n /\ j < r /\ j % PerChunk \in stops[Bit!ChunkOf(j)]
    BY <1>1, <1>2, <1>3 DEF StopsIn
  <2> DEFINE c == Bit!ChunkOf(j)
             o == j % PerChunk
  <2>2. c \in 1 .. m
    BY <1>1, <2>1, ChunkThere DEF m
  <2>3. o \in 0 .. PerChunk - 1 /\ j = PerChunk * (c - 1) + o /\ c - 1 \in Nat
    <3>1. j \div PerChunk \in Nat /\ o \in 0 .. PerChunk - 1 /\ j = PerChunk * (j \div PerChunk) + o
      BY <2>1, Division, BitsAssumption
    <3>2. c - 1 = j \div PerChunk
      BY <3>1 DEF Bit!ChunkOf
    <3> QED
      BY <3>1, <3>2
  <2>4. o \in stops[c]
    BY <2>1
  <2> HIDE DEF c, o
  <2>5. o >= lows[c] /\ lows[c] \in 0 .. PerChunk
    BY <2>2, <2>3, <2>4, <1>1 DEF CountsOf, m
  <2>6. ~ (c < k)
    BY <2>2, <2>3, <2>5, <1>1 DEF m
  <2>7. ~ (c = k)
    <3>1. SUFFICES ASSUME c = k PROVE FALSE
      OBVIOUS
    <3>2. PerChunk * (c - 1) = s
      BY <3>1, <1>1, SMT DEF s
    <3> QED
      BY <3>1, <3>2, <2>1, <2>3, <2>5, <1>1, <1>2
  <2>8. ~ (k < c)
    <3>1. SUFFICES ASSUME k <= c - 1 PROVE FALSE
      BY <2>2, <1>1
    <3>2. PerChunk * k <= PerChunk * (c - 1) /\ PerChunk * k = k * PerChunk
          /\ PerChunk * (c - 1) \in Nat
      BY <3>1, <2>3, <1>1, SMT
    <3> QED
      BY <3>2, <2>1, <2>3, <1>1, <1>2
  <2> QED
    BY <2>2, <2>6, <2>7, <2>8, <1>1
<1>4. ASSUME r < n, lows[k] # PerChunk PROVE r \in StopsIn(n, stops)
  <2>1. s <= r /\ r < k * PerChunk
    BY <1>1, <1>2, <1>4
  <2>2. Bit!ChunkOf(r) = k
    BY <2>1, <1>1, <1>2, ChunkOfIs DEF s
  <2>3. r % PerChunk = lows[k]
    <3>1. r = PerChunk * (k - 1) + lows[k]
      BY <1>1, SMT DEF s
    <3>2. lows[k] \in 0 .. PerChunk - 1 /\ k - 1 \in Nat
      BY <1>1, <1>4
    <3> HIDE DEF r
    <3> QED
      BY <3>1, <3>2, <1>1, RemainderIs
  <2>4. lows[k] \in stops[k]
    BY <1>4 DEF CountsOf
  <2> QED
    BY <2>2, <2>3, <2>4, <1>1, <1>2, <1>4 DEF StopsIn
<1>5. \A j \in 0 .. r - 1 : j \notin StopsIn(n, stops)
  BY <1>3
<1> HIDE DEF r
<1>6. r \in Nat
  BY <1>2 DEF r
<1> QED
  BY <1>4, <1>5, <1>6 DEF r, s

\* Where the count ends in one chunk of several, or in the last one, or nowhere.
LEMMA CountEnds ==
  ASSUME NEW n, NEW stops, NEW lows, CountsOf(n, stops, lows),
         NEW k \in 1 .. Bit!ChunkNum(n), \A l \in 1 .. k - 1 : lows[l] = PerChunk
  PROVE  /\ lows[k] # PerChunk /\ k * PerChunk <= n
              => Bit!Reached(StopsIn(n, stops), n) = lows[k] + (k - 1) * PerChunk
         /\ k = Bit!ChunkNum(n)
              => Bit!Reached(StopsIn(n, stops), n) = Bit!Smaller((k - 1) * PerChunk + lows[k], n)
<1> DEFINE s == (k - 1) * PerChunk
           T == StopsIn(n, stops)
<1>1. n \in Nat /\ lows[k] \in 0 .. PerChunk /\ T \in SUBSET (0 .. n - 1) /\ PerChunk \in Nat \ {0}
  BY BitsAssumption DEF CountsOf, StopsIn
<1>2. /\ s + lows[k] \in Nat
      /\ \A j \in 0 .. (s + lows[k]) - 1 : j \notin T
      /\ s + lows[k] < n /\ lows[k] # PerChunk => s + lows[k] \in T
  BY CountGoesOn
<1>3. s \in Int /\ s + PerChunk = k * PerChunk
  <2>1. k \in Int
    OBVIOUS
  <2> QED
    BY <2>1, <1>1, SMT
<1>4. k = Bit!ChunkNum(n) => n <= k * PerChunk
  BY <1>1, ChunkNumIs
<1> HIDE DEF s, T
<1>5. ASSUME lows[k] # PerChunk, k * PerChunk <= n
      PROVE  Bit!Reached(T, n) = lows[k] + s
  <2> DEFINE r == s + lows[k]
  <2>1. r \in Nat /\ r < n /\ r = lows[k] + s /\ r \in 0 .. n
    BY <1>1, <1>2, <1>3, <1>5
  <2>2. (\A j \in 0 .. r - 1 : j \notin T) /\ r \in T
    BY <1>2, <1>5, <2>1
  <2> HIDE DEF r
  <2> QED
    BY <1>1, <2>1, <2>2, ReachedIsUnique
<1>6. ASSUME k = Bit!ChunkNum(n)
      PROVE  Bit!Reached(T, n) = Bit!Smaller(s + lows[k], n)
  <2> DEFINE r == s + lows[k]
  <2>1. r \in Nat /\ (\A j \in 0 .. r - 1 : j \notin T)
    BY <1>2
  <2>2. r < n => lows[k] # PerChunk
    BY <1>1, <1>3, <1>4, <1>6
  <2>3. r < n => r \in T
    BY <1>2, <2>2
  <2> HIDE DEF r
  <2>4. CASE r < n
    <3>1. r \in 0 .. n
      BY <1>1, <2>1, <2>4
    <3> QED
      BY <1>1, <2>1, <2>3, <2>4, <3>1, ReachedIsUnique DEF Bit!Smaller, r
  <2>5. CASE ~ (r < n)
    <3>1. n \in 0 .. n /\ \A j \in 0 .. n - 1 : j \notin T
      BY <1>1, <2>1, <2>5
    <3>2. Bit!Reached(T, n) = n
      BY <1>1, <3>1, ReachedIsUnique
    <3> QED
      BY <2>5, <3>2 DEF Bit!Smaller, r
  <2> QED
    BY <2>4, <2>5
<1> QED
  BY <1>5, <1>6 DEF s, T

\* Both ways to count come to the first stop.
LEMMA CountIs ==
  ASSUME Bit!ChunkBits = PerChunk, chunks \in Seq(SUBSET Bit!OneChunk), Len(chunks) = Bit!ChunkNum(size),
         NEW low, NEW stops, NEW lows, CountsOf(size, stops, lows),
         \A k \in 1 .. Len(chunks) : low[chunks[k]] = lows[k]
  PROVE  /\ Bit!Count(low) = Bit!Reached(StopsIn(size, stops), size)
         /\ Bit!StaticCount(low) = Bit!Reached(StopsIn(size, stops), size)
<1> DEFINE m == Len(chunks)
           T == StopsIn(size, stops)
<1>1. /\ size \in Nat /\ m \in Nat /\ m = Bit!ChunkNum(size) /\ T \in SUBSET (0 .. size - 1)
      /\ size <= m * PerChunk /\ (m # 0 => (m - 1) * PerChunk < size) /\ PerChunk \in Nat \ {0}
  BY ChunkNumIs, BitsAssumption DEF CountsOf, StopsIn
<1> HIDE DEF m, T
<1>2. \A k \in 1 .. m : low[chunks[k]] = lows[k]
  BY DEF m
\* the first chunk that is not counted to its end
<1>3. ASSUME NEW last \in 0 .. m, last * PerChunk <= size,
             {k \in 1 .. last : low[chunks[k]] # PerChunk} # {}
      PROVE  LET k == Bit!Min({l \in 1 .. last : low[chunks[l]] # PerChunk})
             IN  Bit!Reached(T, size) = low[chunks[k]] + (k - 1) * PerChunk
  <2> DEFINE partial == {l \in 1 .. last : low[chunks[l]] # PerChunk}
             k == Bit!Min(partial)
  <2>1. partial \in SUBSET Nat /\ partial # {}
    BY <1>3
  <2>2. k \in partial /\ \A l \in partial : k <= l
    BY <2>1, LeastIs
  <2> HIDE DEF k
  <2>3. k \in 1 .. last /\ k \in 1 .. m /\ low[chunks[k]] # PerChunk /\ lows[k] # PerChunk
    BY <2>2, <1>1, <1>2
  <2>4. \A l \in 1 .. k - 1 : lows[l] = PerChunk
    BY <2>2, <2>3, <1>1, <1>2
  <2>5. k * PerChunk <= size
    <3>1. k * PerChunk <= last * PerChunk /\ k * PerChunk \in Nat /\ last * PerChunk \in Nat
      BY <2>3, <1>1, SMT
    <3> QED
      BY <3>1, <1>1, <1>3
  <2>6. Bit!Reached(T, size) = lows[k] + (k - 1) * PerChunk
    BY <2>3, <2>4, <2>5, <1>1, CountEnds DEF T
  <2> QED
    BY <2>3, <2>6, <1>2 DEF k
\* no such chunk before the last one
<1>4. ASSUME m # 0, {k \in 1 .. m - 1 : low[chunks[k]] # PerChunk} = {}
      PROVE  Bit!Reached(T, size) = Bit!Smaller((m - 1) * PerChunk + low[chunks[m]], size)
  <2>1. m \in 1 .. Bit!ChunkNum(size) /\ m \in 1 .. m
    BY <1>1, <1>4
  <2>2. ASSUME NEW l \in 1 .. m - 1 PROVE lows[l] = PerChunk
    <3>1. l \in 1 .. m
      BY <1>1
    <3>2. low[chunks[l]] = PerChunk
      BY <1>4
    <3> QED
      BY <3>1, <3>2, <1>2
  <2>3. Bit!Reached(T, size) = Bit!Smaller((m - 1) * PerChunk + lows[m], size)
    BY <2>1, <2>2, <1>1, CountEnds DEF T
  <2> QED
    BY <2>1, <2>3, <1>2
\* nothing to count
<1>5. CASE size = 0
  <2>1. T = {}
    BY <1>1, <1>5
  <2>2. Bit!Reached(T, size) = 0
    BY <2>1, <1>5 DEF Bit!Reached
  <2>3. m = 0
    BY <1>1, <1>5, ChunkNumIsUnique, SMT
  <2>4. size \div PerChunk = 0
    BY <1>1, <1>5, SMT
  <2>5. Bit!StaticCount(low) = 0
    BY <2>3, <2>4, <1>5 DEF Bit!StaticCount, m
  <2> QED
    BY <2>2, <2>5, <1>5 DEF Bit!Count, T
<1>6. CASE size # 0
  <2>1. m # 0
    BY <1>1, <1>6, SMT
  <2>2. m - 1 \in 0 .. m /\ (m - 1) * PerChunk <= size
    BY <1>1, <2>1, SMT
  <2>3. Bit!Count(low) = Bit!Reached(T, size)
    <3>1. CASE {k \in 1 .. m - 1 : low[chunks[k]] # PerChunk} # {}
      BY <1>3, <1>6, <2>2, <3>1 DEF Bit!Count, m
    <3>2. CASE {k \in 1 .. m - 1 : low[chunks[k]] # PerChunk} = {}
      BY <1>4, <1>6, <2>1, <3>2 DEF Bit!Count, m
    <3> QED
      BY <3>1, <3>2
  <2>4. Bit!StaticCount(low) = Bit!Reached(T, size)
    <3> DEFINE full == size \div PerChunk
    <3>1. full \in Nat /\ PerChunk * full <= size /\ size < PerChunk * full + PerChunk
      <4>1. size % PerChunk \in 0 .. PerChunk - 1 /\ full \in Nat
            /\ size = PerChunk * full + (size % PerChunk)
        BY <1>1, Division
      <4>2. PerChunk * full \in Nat
        BY <4>1, <1>1, SMT
      <4> HIDE DEF full
      <4> QED
        BY <4>1, <4>2, <1>1
    <3>2. full = m \/ full = m - 1
      <4> HIDE DEF full
      <4>1. full <= m
        <5>1. SUFFICES ASSUME m + 1 <= full PROVE FALSE
          BY <3>1, <1>1
        <5>2. /\ PerChunk * (m + 1) <= PerChunk * full /\ PerChunk * (m + 1) = m * PerChunk + PerChunk
              /\ m * PerChunk \in Nat /\ PerChunk * full \in Nat
          <6>1. PerChunk * (m + 1) <= PerChunk * full
            <7>1. m + 1 \in Nat /\ full \in Nat /\ PerChunk \in Nat
              BY <3>1, <1>1
            <7> QED
              BY <5>1, <7>1, ProductMonotone
          <6> QED
            BY <6>1, <3>1, <1>1, SMT
        <5> QED
          BY <3>1, <5>2, <1>1
      <4>2. m - 1 <= full
        <5>1. SUFFICES ASSUME full + 1 <= m - 1 PROVE FALSE
          BY <3>1, <1>1
        <5>2. /\ (full + 1) * PerChunk <= (m - 1) * PerChunk
              /\ (full + 1) * PerChunk = PerChunk * full + PerChunk
              /\ PerChunk * full \in Nat /\ (m - 1) * PerChunk \in Nat
          BY <3>1, <5>1, <1>1, <2>1, SMT
        <5> QED
          BY <3>1, <5>2, <1>1, <2>1
      <4> QED
        BY <3>1, <4>1, <4>2, <1>1
    <3>3. full \in 0 .. m /\ full * PerChunk <= size
      <4> HIDE DEF full
      <4>1. full * PerChunk = PerChunk * full
        BY <3>1, <1>1, SMT
      <4> QED
        BY <3>1, <3>2, <4>1, <1>1
    <3>4. CASE m = 1
      <4>1. {k \in 1 .. m - 1 : low[chunks[k]] # PerChunk} = {}
        BY <3>4
      <4>2. Bit!Reached(T, size) = Bit!Smaller((1 - 1) * PerChunk + low[chunks[1]], size)
        BY <1>4, <2>1, <3>4, <4>1
      <4>3. (1 - 1) * PerChunk + low[chunks[1]] = low[chunks[1]]
        <5>1. low[chunks[1]] \in 0 .. PerChunk
          BY <1>1, <1>2, <3>4 DEF CountsOf
        <5> QED
          BY <5>1, <1>1, SMT
      <4> QED
        BY <4>2, <4>3, <3>4 DEF Bit!StaticCount, m
    <3>5. CASE m # 1 /\ {k \in 1 .. full : low[chunks[k]] # PerChunk} # {}
      BY <1>3, <3>3, <3>5 DEF Bit!StaticCount, m
    <3>6. CASE m # 1 /\ {k \in 1 .. full : low[chunks[k]] # PerChunk} = {} /\ full # m
      <4>1. full = m - 1
        BY <3>2, <3>6
      <4>2. Bit!StaticCount(low) = Bit!Smaller(full * PerChunk + low[chunks[m]], size)
        BY <3>6 DEF Bit!StaticCount, m
      <4> HIDE DEF full
      <4> QED
        BY <1>4, <2>1, <3>6, <4>1, <4>2
    <3>7. CASE m # 1 /\ {k \in 1 .. full : low[chunks[k]] # PerChunk} = {} /\ full = m
      <4>1. Bit!StaticCount(low) = size
        BY <3>7 DEF Bit!StaticCount, m
      <4> HIDE DEF full
      <4>2. {k \in 1 .. m - 1 : low[chunks[k]] # PerChunk} = {} /\ low[chunks[m]] = PerChunk
        BY <3>7, <2>1, <1>1
      <4>3. Bit!Reached(T, size) = Bit!Smaller((m - 1) * PerChunk + PerChunk, size)
        BY <1>4, <2>1, <4>2
      <4>4. (m - 1) * PerChunk + PerChunk = m * PerChunk /\ m * PerChunk \in Nat
        BY <1>1, SMT
      <4> QED
        BY <4>1, <4>3, <4>4, <1>1 DEF Bit!Smaller
    <3> QED
      BY <3>4, <3>5, <3>6, <3>7
  <2> QED
    BY <2>3, <2>4 DEF T
<1> QED
  BY <1>5, <1>6

\* Counts of one value end at the first element that has the other one.
LEMMA CountsAreRight ==
  ASSUME Bit!BitsTypeOK, kind # "ints", NEW v \in {{}, {0}}, NEW low,
         NEW stop \in [SUBSET Bit!OneChunk -> SUBSET Bit!OneChunk],
         low = [chunk \in SUBSET Bit!OneChunk |-> Bit!Reached(stop[chunk], Bit!ChunkBits)],
         \A chunk \in SUBSET Bit!OneChunk : \A b \in Bit!OneChunk :
           b \in stop[chunk] <=> (b \in chunk <=> v = {})
  PROVE  /\ Bit!Count(low) = Bit!Reached({i \in 0 .. size - 1 : Bit!Get(i) # v}, size)
         /\ Bit!StaticCount(low) = Bit!Reached({i \in 0 .. size - 1 : Bit!Get(i) # v}, size)
<1> DEFINE m == Bit!ChunkNum(size)
           stops == [k \in 1 .. m |-> stop[chunks[k]]]
           lows == [k \in 1 .. m |-> low[chunks[k]]]
<1>1. /\ size \in Nat /\ chunks \in Seq(SUBSET Bit!OneChunk) /\ Len(chunks) = m /\ m \in Nat
      /\ PerChunk \in Nat \ {0}
  BY ChunkNumIs, BitsAssumption DEF Bit!BitsTypeOK
<1>2. /\ Bit!Width = 1 /\ Bit!ChunkBits = PerChunk /\ 0 .. Bit!Width - 1 = {0}
      /\ Bit!OneChunk = 0 .. PerChunk - 1 /\ \A i \in Nat : Bit!Offset(i) = i % PerChunk
  BY OneBitWide DEF Bit!OneChunk
<1>3. \A k \in 1 .. m : chunks[k] \in SUBSET Bit!OneChunk
  BY <1>1
<1> HIDE DEF m
<1>4. CountsOf(size, stops, lows)
  <2>1. ASSUME NEW k \in 1 .. m
        PROVE  /\ lows[k] \in 0 .. PerChunk /\ \A j \in 0 .. lows[k] - 1 : j \notin stops[k]
               /\ lows[k] # PerChunk => lows[k] \in stops[k]
               /\ stops[k] \in SUBSET (0 .. PerChunk - 1)
    <3>1. stops[k] \in SUBSET (0 .. PerChunk - 1) /\ stops[k] = stop[chunks[k]]
      BY <1>2, <1>3
    <3>2. lows[k] = Bit!Reached(stops[k], PerChunk)
      BY <1>2, <1>3
    <3> HIDE DEF stops, lows
    <3> QED
      BY <3>1, <3>2, <1>1, ReachedIs
  <2>2. stops \in [1 .. m -> SUBSET (0 .. PerChunk - 1)] /\ lows \in [1 .. m -> 0 .. PerChunk]
    BY <2>1
  <2> HIDE DEF stops, lows
  <2> QED
    BY <2>1, <2>2, <1>1 DEF CountsOf, m
<1>5. ASSUME NEW i \in 0 .. size - 1
      PROVE  Bit!Get(i) # v <=> i % PerChunk \in stops[Bit!ChunkOf(i)]
  <2>1. i \in Nat /\ i < size /\ i % PerChunk \in 0 .. PerChunk - 1
    BY <1>1, Division
  <2>2. Bit!ChunkOf(i) \in 1 .. m
    BY <2>1, <1>1, ChunkThere DEF m
  <2> DEFINE chunk == chunks[Bit!ChunkOf(i)]
  <2>3. chunk \in SUBSET Bit!OneChunk /\ stops[Bit!ChunkOf(i)] = stop[chunk]
    BY <2>2, <1>3
  <2>4. Bit!Get(i) = ElementOf(chunk, i)
    BY DEF Bit!Get, ElementOf
  <2> HIDE DEF chunk, stops
  <2>5. ElementOf(chunk, i) \in SUBSET {0}
    BY <2>1, <2>3, <1>2, ElementHas
  <2>6. 0 \in ElementOf(chunk, i) <=> i % PerChunk \in chunk
    <3>1. 0 \in ElementOf(chunk, i) <=> 0 + Bit!Offset(i) \in chunk
      <4>1. 0 \in 0 .. Bit!Width - 1
        BY <1>2
      <4> QED
        BY <4>1, <2>1, <2>3, ElementHas
    <3>2. 0 + Bit!Offset(i) = i % PerChunk
      BY <2>1, <1>2
    <3> QED
      BY <3>1, <3>2
  <2>7. i % PerChunk \in stop[chunk] <=> (i % PerChunk \in chunk <=> v = {})
    BY <2>1, <2>3, <1>2
  <2>8. CASE v = {}
    BY <2>3, <2>4, <2>5, <2>6, <2>7, <2>8
  <2>9. CASE v = {0}
    BY <2>3, <2>4, <2>5, <2>6, <2>7, <2>9
  <2> QED
    BY <2>8, <2>9
<1> HIDE DEF stops
<1>6. {i \in 0 .. size - 1 : Bit!Get(i) # v} = StopsIn(size, stops)
  BY <1>5 DEF StopsIn
<1>7. \A k \in 1 .. Len(chunks) : low[chunks[k]] = lows[k]
  BY <1>1
<1> HIDE DEF lows
<1>8. /\ Bit!Count(low) = Bit!Reached(StopsIn(size, stops), size)
      /\ Bit!StaticCount(low) = Bit!Reached(StopsIn(size, stops), size)
  <2>1. chunks \in Seq(SUBSET Bit!OneChunk) /\ Len(chunks) = Bit!ChunkNum(size)
        /\ Bit!ChunkBits = PerChunk
    BY <1>1, <1>2 DEF m
  <2> QED
    BY <2>1, <1>4, <1>7, CountIs
<1> QED
  BY <1>6, <1>8

LEMMA TypeGivesCounts == Bit!BitsTypeOK => Bit!CountsItsBits
<1> SUFFICES ASSUME Bit!BitsTypeOK, kind # "ints" PROVE Bit!CountsItsBits
  BY DEF Bit!CountsItsBits
<1> DEFINE First(v) == Bit!Reached({i \in 0 .. size - 1 : Bit!Get(i) # v}, size)
<1>1. Bit!Count(Bit!LowZeros) = First({}) /\ Bit!StaticCount(Bit!LowZeros) = First({})
  <2> DEFINE stop == [chunk \in SUBSET Bit!OneChunk |-> chunk]
  <2>1. /\ stop \in [SUBSET Bit!OneChunk -> SUBSET Bit!OneChunk]
        /\ \A chunk \in SUBSET Bit!OneChunk : stop[chunk] = chunk
    OBVIOUS
  <2>2. Bit!LowZeros = [chunk \in SUBSET Bit!OneChunk |-> Bit!Reached(stop[chunk], Bit!ChunkBits)]
    BY <2>1 DEF Bit!LowZeros
  <2>3. \A chunk \in SUBSET Bit!OneChunk : \A b \in Bit!OneChunk :
          b \in stop[chunk] <=> (b \in chunk <=> {} = {})
    BY <2>1
  <2> HIDE DEF stop
  <2> QED
    BY <2>1, <2>2, <2>3, CountsAreRight
<1>2. Bit!Count(Bit!LowOnes) = First({0}) /\ Bit!StaticCount(Bit!LowOnes) = First({0})
  <2> DEFINE stop == [chunk \in SUBSET Bit!OneChunk |-> Bit!OneChunk \ chunk]
  <2>1. /\ stop \in [SUBSET Bit!OneChunk -> SUBSET Bit!OneChunk]
        /\ \A chunk \in SUBSET Bit!OneChunk : stop[chunk] = Bit!OneChunk \ chunk
    OBVIOUS
  <2>2. Bit!LowOnes = [chunk \in SUBSET Bit!OneChunk |-> Bit!Reached(stop[chunk], Bit!ChunkBits)]
    BY <2>1 DEF Bit!LowOnes
  <2>3. \A chunk \in SUBSET Bit!OneChunk : \A b \in Bit!OneChunk :
          b \in stop[chunk] <=> (b \in chunk <=> {0} = {})
    BY <2>1
  <2> HIDE DEF stop
  <2> QED
    BY <2>1, <2>2, <2>3, CountsAreRight
<1> QED
  BY <1>1, <1>2 DEF Bit!CountsItsBits

-----------------------------------------------------------------------------
\* Bits and integers that share a chunk are what was last written to them, however many threads
\* write to their neighbours, unless a plain write of the chunk has overtaken another one.
THEOREM NeighboursAreKept == ContainersSpec => []NeighboursKeepTheirBits
<1>1. IInv => NeighboursKeepTheirBits
  BY DEF IInv, BitsInv, NeighboursKeepTheirBits
<1> QED
  BY <1>1, Invariance, PTL

\* However many threads call set_if_unset for a bit, at most one is told that it has set it.
THEOREM ClaimsAreExclusive == ContainersSpec => []BitsAreClaimedOnce
<1>1. IInv => BitsAreClaimedOnce
  <2> SUFFICES ASSUME IInv, part = "bits", NEW i \in 0 .. size - 1 PROVE claims[i] <= 1
    BY DEF BitsAreClaimedOnce, Bit!OneClaims
  <2>1. BitsInv
    BY DEF IInv
  <2>2. i \in 0 .. MaxSize - 1
    BY <2>1, ChunksAreThere
  <2> QED
    BY <2>1, <2>2 DEF BitsInv, ClaimedAreSet
<1> QED
  BY <1>1, Invariance, PTL

\* Both ways to count leading zeros and ones, by whole chunks first, give the position of the first
\* element with the other value; bits behind the last element do not count.
THEOREM CountsStopAtTheEnd == ContainersSpec => []CountsAreOfElements
<1>1. IInv => CountsAreOfElements
  BY TypeGivesCounts DEF IInv, BitsInv, CountsAreOfElements
<1> QED
  BY <1>1, Invariance, PTL

\* However the builders of the parts of a nested array interleave, each group has its own elements
\* once all are done, and until then an offset is written exactly when the builder of its part has
\* passed it.
THEOREM PartsAreJoined == ContainersSpec => []PartsMakeTheGroups
<1>1. IInv => PartsMakeTheGroups
  BY GroupsAreThere DEF IInv, PartsMakeTheGroups
<1> QED
  BY <1>1, Invariance, PTL
=============================================================================

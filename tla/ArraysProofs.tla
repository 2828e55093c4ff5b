---------------------------- MODULE ArraysProofs ----------------------------
(***************************************************************************)
(* Proofs about what manages memory: arrays of all kinds, every number of  *)
(* them, all values and every length, and the blocks of chunked arrays,    *)
(* for every size and number of blocks.                                    *)
(***************************************************************************)
EXTENDS ManagedArrays, FiniteSetTheorems, WellFoundedInduction, TLAPS

LEMMA LeastElement ==
  ASSUME NEW T \in SUBSET Nat, T # {}
  PROVE  \E x \in T : \A y \in T : x <= y
<1> DEFINE R == {p \in Nat \X Nat : p[1] < p[2]}
<1>1. IsWellFoundedOn(R, Nat)
  BY NatLessThanWellFounded, Zenon DEF OpToRel
<1>2. \A x, y \in Nat : y < x => <<y, x>> \in R
  OBVIOUS
<1> HIDE DEF R
<1>3. PICK x \in T : \A y \in T : ~ (<<y, x>> \in R)
  BY <1>1, WFMin
<1>4. \A y \in T : ~ (y < x)
  BY <1>2, <1>3, Zenon
<1> QED
  BY <1>4, SMT

-----------------------------------------------------------------------------
(* What an operation does with the memory, slot by slot, when it commits no fault *)

Slots == {"free", "raw"} \cup Alive

\* A memory in which no fault has been committed.
Clean(m) == m.slot \in [Address -> Slots] /\ m.faults = {}

LEMMA SlotsDiffer ==
  /\ "free" \notin Alive /\ "raw" \notin Alive
  /\ "moved" \in Alive /\ "init" \in Alive
  /\ Alive \in SUBSET Slots /\ "free" \in Slots /\ "raw" \in Slots
BY MemoryAssumption DEF Alive, Slots

LEMMA AddressType == Address \in SUBSET Nat /\ Null \notin Address /\ Stride \in Nat \ {0}
BY MemoryAssumption, SMT DEF Address, Stride, Null

LEMMA ConstructIs ==
  ASSUME NEW m, Clean(m), NEW at \in Int, NEW vs \in Seq(Slots),
         \A x \in Span(at, at + Len(vs)) : x \in Address /\ m.slot[x] = "raw"
  PROVE  /\ Clean(Construct(m, at, vs))
         /\ \A x \in Address : Construct(m, at, vs).slot[x] =
              IF x \in Span(at, at + Len(vs)) THEN vs[x - at + 1] ELSE m.slot[x]
<1> DEFINE D == Span(at, at + Len(vs))
           f == [a \in D |-> vs[a - at + 1]]
<1>1. D \in SUBSET Address
  OBVIOUS
<1>2. \A a \in D : a - at + 1 \in 1 .. Len(vs)
  BY DEF Span
<1>3. f \in [D -> Slots]
  BY <1>2
<1> HIDE DEF D, f
<1>4. \A x \in D : m.slot[x] \in {"raw"}
  BY DEF D
<1> DEFINE k == Write(m, f, {"raw"}, "constructed over an object")
<1>5. Construct(m, at, vs) = k
  BY DEF Construct, f, D
<1>6. Clean(k) /\ \A x \in Address : k.slot[x] = IF x \in D THEN f[x] ELSE m.slot[x]
  BY <1>1, <1>2, <1>3, <1>4 DEF Write, Clean
<1> HIDE DEF k
<1>7. \A x \in D : f[x] = vs[x - at + 1]
  BY DEF f
<1> QED
  BY <1>5, <1>6, <1>7 DEF D

LEMMA AssignIs ==
  ASSUME NEW m, Clean(m), NEW at \in Int, NEW vs \in Seq(Slots),
         \A x \in Span(at, at + Len(vs)) : x \in Address /\ m.slot[x] \in Alive
  PROVE  /\ Clean(Assign(m, at, vs))
         /\ \A x \in Address : Assign(m, at, vs).slot[x] =
              IF x \in Span(at, at + Len(vs)) THEN vs[x - at + 1] ELSE m.slot[x]
<1> DEFINE D == Span(at, at + Len(vs))
           f == [a \in D |-> vs[a - at + 1]]
<1>1. D \in SUBSET Address
  OBVIOUS
<1>2. \A a \in D : a - at + 1 \in 1 .. Len(vs)
  BY DEF Span
<1>3. f \in [D -> Slots]
  BY <1>2
<1> HIDE DEF D, f
<1>4. \A x \in D : m.slot[x] \in Alive
  BY DEF D
<1> DEFINE k == Write(m, f, Alive, "used without an object")
<1>5. Assign(m, at, vs) = k
  BY DEF Assign, f, D
<1>6. Clean(k) /\ \A x \in Address : k.slot[x] = IF x \in D THEN f[x] ELSE m.slot[x]
  BY <1>1, <1>2, <1>3, <1>4 DEF Write, Clean
<1> HIDE DEF k
<1>7. \A x \in D : f[x] = vs[x - at + 1]
  BY DEF f
<1> QED
  BY <1>5, <1>6, <1>7 DEF D

LEMMA DestroyIs ==
  ASSUME NEW m, Clean(m), NEW lo \in Int, NEW hi \in Int,
         \A x \in Span(lo, hi) : x \in Address /\ m.slot[x] \in Alive
  PROVE  /\ Clean(Destroy(m, lo, hi))
         /\ \A x \in Address : Destroy(m, lo, hi).slot[x] = IF x \in Span(lo, hi) THEN "raw" ELSE m.slot[x]
<1> DEFINE D == Span(lo, hi)
<1>1. D \in SUBSET Address /\ [a \in D |-> "raw"] \in [D -> Slots]
  BY SlotsDiffer
<1> HIDE DEF D
<1>2. \A x \in D : m.slot[x] \in Alive
  BY DEF D
<1> DEFINE f == [a \in D |-> "raw"]
<1> DEFINE k == Write(m, f, Alive, "used without an object")
<1>3. Destroy(m, lo, hi) = k
  BY DEF Destroy, D
<1>4. f \in [D -> Slots] /\ \A x \in D : f[x] = "raw"
  BY <1>1
<1> HIDE DEF f
<1>5. Clean(k) /\ \A x \in Address : k.slot[x] = IF x \in D THEN f[x] ELSE m.slot[x]
  BY <1>1, <1>2, <1>3, <1>4 DEF Write, Clean
<1> HIDE DEF k
<1> QED
  BY <1>3, <1>4, <1>5 DEF D

LEMMA TakenIs ==
  ASSUME NEW m, Clean(m), NEW lo \in Int, NEW hi \in Int,
         \A x \in Span(lo, hi) : x \in Address /\ m.slot[x] \in Alive
  PROVE  /\ Clean(Taken(m, lo, hi))
         /\ \A x \in Address : Taken(m, lo, hi).slot[x] = IF x \in Span(lo, hi) THEN "moved" ELSE m.slot[x]
<1> DEFINE D == Span(lo, hi)
<1>1. D \in SUBSET Address /\ [a \in D |-> "moved"] \in [D -> Slots]
  BY SlotsDiffer
<1> HIDE DEF D
<1>2. \A x \in D : m.slot[x] \in Alive
  BY DEF D
<1> DEFINE f == [a \in D |-> "moved"]
<1> DEFINE k == Write(m, f, Alive, "used without an object")
<1>3. Taken(m, lo, hi) = k
  BY DEF Taken, D
<1>4. f \in [D -> Slots] /\ \A x \in D : f[x] = "moved"
  BY <1>1
<1> HIDE DEF f
<1>5. Clean(k) /\ \A x \in Address : k.slot[x] = IF x \in D THEN f[x] ELSE m.slot[x]
  BY <1>1, <1>2, <1>3, <1>4 DEF Write, Clean
<1> HIDE DEF k
<1> QED
  BY <1>3, <1>4, <1>5 DEF D

LEMMA HeldIs ==
  ASSUME NEW m, Clean(m), NEW lo \in Int, NEW hi \in Int, lo <= hi, \A x \in Span(lo, hi) : x \in Address
  PROVE  /\ Held(m, lo, hi) \in Seq(Slots) /\ Len(Held(m, lo, hi)) = hi - lo
         /\ \A i \in 1 .. hi - lo : Held(m, lo, hi)[i] = m.slot[lo + i - 1]
<1> DEFINE n == hi - lo
           s == [i \in 1 .. n |-> m.slot[lo + i - 1]]
<1>1. n \in Nat
  OBVIOUS
<1>2. \A i \in 1 .. n : lo + i - 1 \in Address /\ m.slot[lo + i - 1] \in Slots
  BY DEF Span, Clean
<1>3. Held(m, lo, hi) = s
  BY <1>2 DEF Held
<1> HIDE DEF n
<1>4. s \in [1 .. n -> Slots]
  BY <1>2
<1>5. s \in Seq(Slots) /\ Len(s) = n
  BY <1>1, <1>4
<1> QED
  BY <1>3, <1>5 DEF n

LEMMA UninitializedMoveIs ==
  ASSUME NEW m, Clean(m), NEW lo \in Int, NEW hi \in Int, NEW to \in Int, lo <= hi,
         \A x \in Span(lo, hi) : x \in Address /\ m.slot[x] \in Alive,
         \A x \in Span(to, to + (hi - lo)) : x \in Address /\ m.slot[x] = "raw"
  PROVE  /\ Clean(UninitializedMove(m, lo, hi, to))
         /\ \A x \in Address : UninitializedMove(m, lo, hi, to).slot[x] =
              IF x \in Span(to, to + (hi - lo)) THEN m.slot[lo + (x - to)]
              ELSE IF x \in Span(lo, hi) THEN "moved" ELSE m.slot[x]
<1> DEFINE k == Taken(m, lo, hi)
           h == Held(m, lo, hi)
<1>1. h \in Seq(Slots) /\ Len(h) = hi - lo /\ \A i \in 1 .. hi - lo : h[i] = m.slot[lo + i - 1]
  BY HeldIs
<1>2. Clean(k) /\ \A x \in Address : k.slot[x] = IF x \in Span(lo, hi) THEN "moved" ELSE m.slot[x]
  BY TakenIs
<1>3. UninitializedMove(m, lo, hi, to) = Construct(k, to, h)
  BY DEF UninitializedMove
<1> HIDE DEF k, h
<1>4. \A x \in Span(to, to + Len(h)) : x \in Address /\ k.slot[x] = "raw"
  BY <1>1, <1>2, SlotsDiffer
<1>5. /\ Clean(Construct(k, to, h))
      /\ \A x \in Address : Construct(k, to, h).slot[x] =
           IF x \in Span(to, to + Len(h)) THEN h[x - to + 1] ELSE k.slot[x]
  BY <1>1, <1>2, <1>4, ConstructIs
<1>6. \A x \in Span(to, to + (hi - lo)) : h[x - to + 1] = m.slot[lo + (x - to)]
  <2> SUFFICES ASSUME NEW x \in Span(to, to + (hi - lo)) PROVE h[x - to + 1] = m.slot[lo + (x - to)]
    OBVIOUS
  <2>1. x \in Int /\ x - to + 1 \in 1 .. hi - lo /\ lo + (x - to + 1) - 1 = lo + (x - to)
    BY DEF Span
  <2> QED
    BY <1>1, <2>1
<1> QED
  BY <1>1, <1>2, <1>3, <1>5, <1>6

LEMMA MoveAssignIs ==
  ASSUME NEW m, Clean(m), NEW lo \in Int, NEW hi \in Int, NEW to \in Int, lo <= hi, lo # to,
         \A x \in Span(lo, hi) : x \in Address /\ m.slot[x] \in Alive,
         \A x \in Span(to, to + (hi - lo)) : x \in Address /\ m.slot[x] \in Alive
  PROVE  /\ Clean(MoveAssign(m, lo, hi, to))
         /\ \A x \in Address : MoveAssign(m, lo, hi, to).slot[x] =
              IF x \in Span(to, to + (hi - lo)) THEN m.slot[lo + (x - to)]
              ELSE IF x \in Span(lo, hi) THEN "moved" ELSE m.slot[x]
<1> DEFINE k == Taken(m, lo, hi)
           h == Held(m, lo, hi)
<1>1. h \in Seq(Slots) /\ Len(h) = hi - lo /\ \A i \in 1 .. hi - lo : h[i] = m.slot[lo + i - 1]
  BY HeldIs
<1>2. Clean(k) /\ \A x \in Address : k.slot[x] = IF x \in Span(lo, hi) THEN "moved" ELSE m.slot[x]
  BY TakenIs
<1>3. MoveAssign(m, lo, hi, to) = Assign(k, to, h)
  BY DEF MoveAssign
<1> HIDE DEF k, h
<1>4. \A x \in Span(to, to + Len(h)) : x \in Address /\ k.slot[x] \in Alive
  BY <1>1, <1>2, SlotsDiffer
<1>5. /\ Clean(Assign(k, to, h))
      /\ \A x \in Address : Assign(k, to, h).slot[x] =
           IF x \in Span(to, to + Len(h)) THEN h[x - to + 1] ELSE k.slot[x]
  BY <1>1, <1>2, <1>4, AssignIs
<1>6. \A x \in Span(to, to + (hi - lo)) : h[x - to + 1] = m.slot[lo + (x - to)]
  <2> SUFFICES ASSUME NEW x \in Span(to, to + (hi - lo)) PROVE h[x - to + 1] = m.slot[lo + (x - to)]
    OBVIOUS
  <2>1. x \in Int /\ x - to + 1 \in 1 .. hi - lo /\ lo + (x - to + 1) - 1 = lo + (x - to)
    BY DEF Span
  <2> QED
    BY <1>1, <2>1
<1> QED
  BY <1>1, <1>2, <1>3, <1>5, <1>6

LEMMA UninitializedCopyIs ==
  ASSUME NEW m, Clean(m), NEW lo \in Int, NEW hi \in Int, NEW to \in Int, lo <= hi,
         \A x \in Span(lo, hi) : x \in Address /\ m.slot[x] \in Alive,
         \A x \in Span(to, to + (hi - lo)) : x \in Address /\ m.slot[x] = "raw"
  PROVE  /\ Clean(UninitializedCopy(m, lo, hi, to))
         /\ \A x \in Address : UninitializedCopy(m, lo, hi, to).slot[x] =
              IF x \in Span(to, to + (hi - lo)) THEN m.slot[lo + (x - to)] ELSE m.slot[x]
<1> DEFINE D == Span(lo, hi)
           f == [a \in D |-> m.slot[a]]
           k == Write(m, f, Alive, "used without an object")
           h == Held(m, lo, hi)
<1>1. h \in Seq(Slots) /\ Len(h) = hi - lo /\ \A i \in 1 .. hi - lo : h[i] = m.slot[lo + i - 1]
  BY HeldIs
<1>2. D \in SUBSET Address /\ f \in [D -> Slots] /\ \A x \in D : m.slot[x] \in Alive
  BY SlotsDiffer
<1>3. UninitializedCopy(m, lo, hi, to) = Construct(k, to, h)
  BY DEF UninitializedCopy
<1>4. \A x \in D : f[x] = m.slot[x]
  OBVIOUS
<1> HIDE DEF D, f
<1>5. Clean(k) /\ \A x \in Address : k.slot[x] = m.slot[x]
  BY <1>2, <1>4 DEF Write, Clean
<1> HIDE DEF k, h
<1>6. \A x \in Span(to, to + Len(h)) : x \in Address /\ k.slot[x] = "raw"
  BY <1>1, <1>5
<1>7. /\ Clean(Construct(k, to, h))
      /\ \A x \in Address : Construct(k, to, h).slot[x] =
           IF x \in Span(to, to + Len(h)) THEN h[x - to + 1] ELSE k.slot[x]
  BY <1>1, <1>5, <1>6, ConstructIs
<1>8. \A x \in Span(to, to + (hi - lo)) : h[x - to + 1] = m.slot[lo + (x - to)]
  <2> SUFFICES ASSUME NEW x \in Span(to, to + (hi - lo)) PROVE h[x - to + 1] = m.slot[lo + (x - to)]
    OBVIOUS
  <2>1. x \in Int /\ x - to + 1 \in 1 .. hi - lo /\ lo + (x - to + 1) - 1 = lo + (x - to)
    BY DEF Span
  <2> QED
    BY <1>1, <2>1
<1> QED
  BY <1>1, <1>3, <1>5, <1>7, <1>8

LEMMA InitsIs ==
  ASSUME NEW k \in Nat
  PROVE  Inits(k) \in Seq(Alive) /\ Len(Inits(k)) = k /\ \A i \in 1 .. k : Inits(k)[i] = "init"
<1>1. Inits(k) \in [1 .. k -> Alive]
  BY SlotsDiffer DEF Inits
<1> QED
  BY <1>1 DEF Inits

LEMMA InitializeIs ==
  ASSUME NEW m, Clean(m), NEW lo \in Int, NEW hi \in Int, lo <= hi,
         \A x \in Span(lo, hi) : x \in Address /\ m.slot[x] = "raw"
  PROVE  /\ Clean(Initialize(m, lo, hi))
         /\ \A x \in Address : Initialize(m, lo, hi).slot[x] = IF x \in Span(lo, hi) THEN "init" ELSE m.slot[x]
<1> DEFINE s == Inits(hi - lo)
<1>1. s \in Seq(Alive) /\ Len(s) = hi - lo /\ \A i \in 1 .. hi - lo : s[i] = "init"
  <2>1. hi - lo \in Nat
    OBVIOUS
  <2> QED
    BY <2>1, InitsIs
<1>2. Initialize(m, lo, hi) = Construct(m, lo, s)
  BY DEF Initialize, Inits
<1> HIDE DEF s
<1>3. s \in Seq(Slots) /\ lo + Len(s) = hi
  BY <1>1, SlotsDiffer
<1>4. /\ Clean(Construct(m, lo, s))
      /\ \A x \in Address : Construct(m, lo, s).slot[x] = IF x \in Span(lo, hi) THEN s[x - lo + 1] ELSE m.slot[x]
  BY <1>3, ConstructIs
<1>5. \A x \in Span(lo, hi) : x - lo + 1 \in 1 .. hi - lo
  BY DEF Span
<1> QED
  BY <1>1, <1>2, <1>4, <1>5

LEMMA DeallocateIs ==
  ASSUME NEW m, Clean(m), NEW c, c.begin \in Int, c.end \in Int, c.begin = Null => c.end = Null,
         \A x \in Span(c.begin, c.end) : x \in Address /\ m.slot[x] = "raw"
  PROVE  /\ Clean(Deallocate(m, c))
         /\ \A x \in Address : Deallocate(m, c).slot[x] = IF x \in Span(c.begin, c.end) THEN "free" ELSE m.slot[x]
<1>1. CASE c.begin = Null
  BY <1>1 DEF Deallocate, Span, Null
<1>2. CASE c.begin # Null
  <2> DEFINE D == Span(c.begin, c.end)
  <2>1. D \in SUBSET Address /\ [a \in D |-> "free"] \in [D -> Slots]
    BY SlotsDiffer
  <2> HIDE DEF D
  <2>2. \A x \in D : m.slot[x] \in {"raw"}
    BY DEF D
  <2> DEFINE f == [a \in D |-> "free"]
  <2> DEFINE k == Write(m, f, {"raw"}, "leaked")
  <2>3. Deallocate(m, c) = k
    BY <1>2 DEF Deallocate, D
  <2>4. f \in [D -> Slots] /\ \A x \in D : f[x] = "free"
    BY <2>1
  <2> HIDE DEF f
  <2>5. Clean(k) /\ \A x \in Address : k.slot[x] = IF x \in D THEN f[x] ELSE m.slot[x]
    BY <2>1, <2>2, <2>3, <2>4 DEF Write, Clean
  <2> HIDE DEF k
  <2> QED
    BY <2>3, <2>4, <2>5 DEF D
<1> QED
  BY <1>1, <1>2

-----------------------------------------------------------------------------
(* The invariant: every array is well placed and holds its sequence, and   *)
(* every slot that is not free lies in the allocation of one array.        *)

Base(b) == \E p \in 1..Places : b = p * Stride

\* What lies behind the last element of an array.
Spare == IF kind \in {"limited", "buffer"} THEN Alive ELSE {"raw"}

WellPlaced(a) ==
  /\ a \in [begin : Nat, end : Nat, last : Nat]
  /\ \/ a = NullArray
     \/ /\ Base(a.begin) /\ a.begin <= a.last /\ a.last <= a.end /\ a.end <= a.begin + MaxCap
        /\ kind = "limited" => a.end = a.begin + MaxLen

Holds(m, a, w) ==
  /\ WellPlaced(a)
  /\ w \in Seq(Alive) /\ Len(w) = a.last - a.begin
  /\ \A x \in Span(a.begin, a.last) : m.slot[x] = w[x - a.begin + 1]
  /\ \A x \in Span(a.last, a.end) : m.slot[x] \in Spare

Owns(ar, n, x) == x \in Span(ar[n].begin, ar[n].end)

Good(m, ar, wn) ==
  /\ Clean(m)
  /\ ar \in [Arrays -> [begin : Nat, end : Nat, last : Nat]] /\ wn \in [Arrays -> Seq(Alive)]
  /\ \A n \in Arrays : Holds(m, ar[n], wn[n])
  /\ \A n, o \in Arrays, x \in Address : Owns(ar, n, x) /\ Owns(ar, o, x) => n = o
  /\ \A x \in Address : m.slot[x] # "free" => \E n \in Arrays : Owns(ar, n, x)

ArraysInv == ArraysTypeOK /\ CostOfMisuse /\ (misuse = {} => Good(mem, arr, want))

LEMMA ProductAbove ==
  ASSUME NEW p \in Nat, NEW q \in Nat, NEW s \in Nat, p < q
  PROVE  p * s \in Nat /\ q * s \in Nat /\ p * s + s <= q * s
BY SMT

LEMMA BaseIs ==
  ASSUME NEW b, Base(b)
  PROVE  /\ b \in Nat \ {0}
         /\ \A x \in Int : b <= x /\ x <= b + MaxCap => x \in Address
<1>1. PICK p \in 1..Places : b = p * Stride
  BY DEF Base
<1>2. Stride \in Nat \ {0} /\ Places \in Nat /\ Stride = MaxCap + 1 /\ MaxCap \in Nat
  BY MemoryAssumption DEF Stride
<1>3. b \in Nat /\ Stride <= b
  BY <1>1, <1>2, SMT
<1>4. PICK q \in Nat : p < q /\ q = Places + 1
  BY <1>2
<1>5. b + Stride <= Stride * (Places + 1)
  <2>1. p * Stride + Stride <= q * Stride
    BY <1>2, <1>4, ProductAbove
  <2>2. q * Stride = Stride * q
    BY <1>2, SMT
  <2> QED
    BY <1>1, <1>4, <2>1, <2>2
<1>6. Stride * (Places + 1) \in Int
  BY <1>2, <1>4, ProductAbove, SMT
<1> DEFINE top == Stride * (Places + 1)
<1>7. Address = Stride .. top - 1
  BY DEF Address
<1> HIDE DEF top
<1> QED
  BY <1>2, <1>3, <1>5, <1>6, <1>7 DEF top

LEMMA BasesApart ==
  ASSUME NEW b, NEW c, Base(b), Base(c), b # c
  PROVE  b + MaxCap < c \/ c + MaxCap < b
<1>1. PICK p \in 1..Places : b = p * Stride
  BY DEF Base
<1>2. PICK q \in 1..Places : c = q * Stride
  BY DEF Base
<1>3. Stride \in Nat \ {0} /\ Places \in Nat /\ Stride = MaxCap + 1 /\ MaxCap \in Nat
  BY MemoryAssumption DEF Stride
<1>4. CASE p < q
  BY <1>1, <1>2, <1>3, <1>4, ProductAbove
<1>5. CASE q < p
  BY <1>1, <1>2, <1>3, <1>5, ProductAbove
<1> QED
  BY <1>1, <1>2, <1>4, <1>5

LEMMA SpanOfArray ==
  ASSUME NEW a, WellPlaced(a)
  PROVE  /\ a.begin \in Nat /\ a.last \in Nat /\ a.end \in Nat /\ a.begin <= a.last /\ a.last <= a.end
         /\ a.end <= a.begin + MaxCap
         /\ a.begin = Null => a.end = Null /\ a.last = Null
         /\ \A x \in Int : a.begin <= x /\ x < a.end => x \in Address
<1>1. MaxCap \in Nat
  BY MemoryAssumption
<1>2. CASE a = NullArray
  BY <1>1, <1>2 DEF NullArray, Null
<1>3. CASE a # NullArray
  BY <1>1, <1>3, BaseIs DEF WellPlaced, Null
<1> QED
  BY <1>2, <1>3

LEMMA FirstFreePlace ==
  ASSUME NEW m, NEW free \in 1..Places,
         \A x \in Span(free * Stride, free * Stride + MaxCap) : m.slot[x] = "free"
  PROVE  /\ FreePlace(m) \in 1..Places
         /\ \A x \in Span(FreePlace(m) * Stride, FreePlace(m) * Stride + MaxCap) : m.slot[x] = "free"
<1> DEFINE Is(p) == \A x \in Span(p * Stride, p * Stride + MaxCap) : m.slot[x] = "free"
           T == {p \in 1..Places : Is(p)}
<1>1. Places \in Nat
  BY MemoryAssumption
<1>3. T # {}
  OBVIOUS
<1> HIDE DEF Is
<1>4. PICK p \in T : \A q \in T : p <= q
  <2>1. T \in SUBSET Nat
    OBVIOUS
  <2> HIDE DEF T
  <2> QED
    BY <2>1, <1>3, LeastElement
<1>5. \A q \in 1 .. p - 1 : ~ Is(q)
  <2> SUFFICES ASSUME NEW q \in 1 .. p - 1, Is(q) PROVE FALSE
    OBVIOUS
  <2>1. q \in T
    BY <1>1
  <2> QED
    BY <2>1, <1>4
<1> DEFINE First(r) == Is(r) /\ \A q \in 1 .. r - 1 : \E x \in Span(q * Stride, q * Stride + MaxCap) : m.slot[x] # "free"
<1>6. First(p)
  BY <1>4, <1>5 DEF Is
<1>7. FreePlace(m) = CHOOSE r \in 1..Places : First(r)
  BY DEF FreePlace, Is
<1> HIDE DEF First
<1>8. FreePlace(m) \in 1..Places /\ First(FreePlace(m))
  BY <1>4, <1>6, <1>7
<1> QED
  BY <1>8 DEF First, Is

LEMMA FreePlaceIs ==
  ASSUME NEW m, NEW ar, NEW wn, Good(m, ar, wn)
  PROVE  /\ FreePlace(m) \in 1..Places
         /\ \A x \in Span(FreePlace(m) * Stride, FreePlace(m) * Stride + MaxCap) : m.slot[x] = "free"
<1> DEFINE Is(p) == \A x \in Span(p * Stride, p * Stride + MaxCap) : m.slot[x] = "free"
           T == {p \in 1..Places : Is(p)}
<1>1. Stride \in Nat \ {0} /\ Places \in Nat /\ MaxCap \in Nat
  BY MemoryAssumption DEF Stride
<1>2. ASSUME NEW p \in 1..Places, ~ Is(p)
      PROVE  \E n \in Arrays : ar[n].begin = p * Stride
  <2>1. PICK x \in Span(p * Stride, p * Stride + MaxCap) : m.slot[x] # "free"
    BY <1>2
  <2> DEFINE b == p * Stride
  <2>2. Base(b)
    BY DEF Base
  <2>3. b \in Nat \ {0} /\ \A y \in Int : b <= y /\ y <= b + MaxCap => y \in Address
    BY <2>2, BaseIs
  <2> HIDE DEF b
  <2>4. x \in Int /\ b <= x /\ x < b + MaxCap
    BY <2>1, <2>3, <1>1 DEF Span, b
  <2>5. PICK n \in Arrays : Owns(ar, n, x)
    BY <2>1, <2>3, <2>4, <1>1 DEF Good
  <2>6. WellPlaced(ar[n])
    BY DEF Good, Holds
  <2>7. ar[n].begin <= x /\ x < ar[n].end /\ ar[n].begin \in Nat /\ ar[n].end \in Nat
    BY <2>5, <2>6, SpanOfArray DEF Owns, Span
  <2>8. Base(ar[n].begin) /\ ar[n].end <= ar[n].begin + MaxCap
    BY <2>6, <2>7, <2>4, <2>3, <1>1 DEF WellPlaced, NullArray, Null
  <2>9. ar[n].begin = b
    <3>1. b # ar[n].begin => b + MaxCap < ar[n].begin \/ ar[n].begin + MaxCap < b
      BY <2>2, <2>8, BasesApart
    <3> QED
      BY <2>3, <2>4, <2>7, <2>8, <3>1, <1>1
  <2> QED
    BY <2>9 DEF b
<1>3. T # {}
  <2> SUFFICES ASSUME T = {} PROVE FALSE
    OBVIOUS
  <2> DEFINE f == [p \in 1..Places |-> CHOOSE n \in Arrays : ar[n].begin = p * Stride]
  <2>1. \A p \in 1..Places : f[p] \in Arrays /\ ar[f[p]].begin = p * Stride
    <3> HIDE DEF Is
    <3> SUFFICES ASSUME NEW p \in 1..Places PROVE f[p] \in Arrays /\ ar[f[p]].begin = p * Stride
      OBVIOUS
    <3>1. \E n \in Arrays : ar[n].begin = p * Stride
      BY <1>2
    <3> QED
      BY <3>1
  <2> HIDE DEF Is, T
  <2>2. f \in [1..Places -> Arrays]
    BY <2>1
  <2> HIDE DEF f
  <2>3. IsFiniteSet(1..Places) /\ Cardinality(1..Places) = Places
    BY <1>1, FS_Interval
  <2>4. PICK p, q \in 1..Places : p # q /\ f[p] = f[q]
    BY <2>2, <2>3, RoomAssumption, FS_PigeonHole
  <2>5. p * Stride = q * Stride
    BY <2>1, <2>4
  <2>6. p \in Nat /\ q \in Nat /\ (p < q \/ q < p)
    BY <2>4
  <2>7. p < q => p * Stride + Stride <= q * Stride
    BY <2>6, <1>1, ProductAbove
  <2>8. q < p => q * Stride + Stride <= p * Stride
    BY <2>6, <1>1, ProductAbove
  <2>9. p * Stride \in Nat /\ q * Stride \in Nat
    BY <2>6, <1>1, SMT
  <2> QED
    BY <2>5, <2>6, <2>7, <2>8, <2>9, <1>1
<1>4. PICK p \in 1..Places : Is(p)
  BY <1>3
<1> QED
  BY <1>4, FirstFreePlace

LEMMA AllocatedThere ==
  ASSUME NEW m, Clean(m), NEW size \in 0..MaxCap, FreePlace(m) \in 1..Places,
         \A x \in Span(FreePlace(m) * Stride, FreePlace(m) * Stride + MaxCap) : m.slot[x] = "free"
  PROVE  /\ Base(Placed(m, size).begin) /\ Placed(m, size).end = Placed(m, size).begin + size
         /\ \A x \in Span(Placed(m, size).begin, Placed(m, size).begin + MaxCap) : m.slot[x] = "free"
         /\ Clean(AllocateMemory(m, size))
         /\ \A x \in Address : AllocateMemory(m, size).slot[x] =
              IF x \in Span(Placed(m, size).begin, Placed(m, size).end) THEN "raw" ELSE m.slot[x]
<1> DEFINE b == FreePlace(m) * Stride
<1>1. Base(b) /\ \A x \in Span(b, b + MaxCap) : m.slot[x] = "free"
  BY DEF Base
<1>2. Placed(m, size).begin = b /\ Placed(m, size).end = b + size
  BY DEF Placed
<1> HIDE DEF b
<1>3. b \in Nat /\ \A x \in Int : b <= x /\ x <= b + MaxCap => x \in Address
  BY <1>1, BaseIs
<1> DEFINE D == Span(b, b + size)
           f == [x \in D |-> "raw"]
           k == Write(m, f, {"free"}, "bad allocation")
<1>4. AllocateMemory(m, size) = k
  BY <1>2, Zenon DEF AllocateMemory
<1>5. D \in SUBSET Address /\ \A x \in D : m.slot[x] \in {"free"}
  BY <1>1, <1>3, MemoryAssumption DEF Span
<1>6. f \in [D -> Slots] /\ \A x \in D : f[x] = "raw"
  BY SlotsDiffer
<1> HIDE DEF D, f
<1>7. Clean(k) /\ \A x \in Address : k.slot[x] = IF x \in D THEN f[x] ELSE m.slot[x]
  BY <1>5, <1>6 DEF Write, Clean
<1> HIDE DEF k
<1> QED
  BY <1>1, <1>2, <1>4, <1>6, <1>7 DEF D

LEMMA AllocatedIs ==
  ASSUME NEW m, NEW ar, NEW wn, Good(m, ar, wn), NEW size \in 0..MaxCap
  PROVE  /\ Base(Placed(m, size).begin) /\ Placed(m, size).end = Placed(m, size).begin + size
         /\ \A x \in Span(Placed(m, size).begin, Placed(m, size).begin + MaxCap) : m.slot[x] = "free"
         /\ Clean(AllocateMemory(m, size))
         /\ \A x \in Address : AllocateMemory(m, size).slot[x] =
              IF x \in Span(Placed(m, size).begin, Placed(m, size).end) THEN "raw" ELSE m.slot[x]
<1>1. Clean(m)
  BY DEF Good
<1> QED
  BY <1>1, FreePlaceIs, AllocatedThere

LEMMA NullHolds ==
  ASSUME NEW m
  PROVE  Holds(m, NullArray, <<>>)
BY DEF Holds, WellPlaced, NullArray, Null, Span

LEMMA OwnedIs ==
  ASSUME NEW m, NEW ar, NEW wn, Good(m, ar, wn), NEW n \in Arrays, NEW x, Owns(ar, n, x)
  PROVE  x \in Address /\ m.slot[x] \in Slots /\ m.slot[x] # "free"
<1>1. Holds(m, ar[n], wn[n]) /\ WellPlaced(ar[n]) /\ Clean(m)
  BY DEF Good, Holds
<1> DEFINE b == ar[n].begin
           l == ar[n].last
           e == ar[n].end
<1>2. b \in Nat /\ l \in Nat /\ e \in Nat /\ b <= l /\ l <= e /\ \A y \in Int : b <= y /\ y < e => y \in Address
  BY <1>1, SpanOfArray
<1>3. /\ wn[n] \in Seq(Alive) /\ Len(wn[n]) = l - b
      /\ \A y \in Span(b, l) : m.slot[y] = wn[n][y - b + 1]
      /\ \A y \in Span(l, e) : m.slot[y] \in Spare
  BY <1>1 DEF Holds
<1>4. x \in Span(b, e)
  BY DEF Owns
<1> HIDE DEF b, l, e
<1>5. x \in Int /\ b <= x /\ x < e /\ x \in Address
  BY <1>2, <1>4 DEF Span
<1>6. m.slot[x] \in Slots
  BY <1>1, <1>5 DEF Clean
<1>7. CASE x < l
  <2>1. x \in Span(b, l) /\ x - b + 1 \in 1 .. Len(wn[n])
    BY <1>2, <1>3, <1>5, <1>7 DEF Span
  <2>2. wn[n][x - b + 1] \in Alive
    BY <1>3, <2>1
  <2> QED
    BY <1>3, <1>5, <1>6, <2>1, <2>2, SlotsDiffer
<1>8. CASE l <= x
  <2>1. x \in Span(l, e)
    BY <1>2, <1>5, <1>8 DEF Span
  <2> QED
    BY <1>3, <1>5, <1>6, <2>1, SlotsDiffer DEF Spare
<1> QED
  BY <1>2, <1>5, <1>7, <1>8

\* One array is replaced by another one that lies where it did or in what was free.
LEMMA Replaced ==
  ASSUME NEW m0, NEW ar, NEW wn, Good(m0, ar, wn), NEW n \in Arrays,
         NEW m, Clean(m), NEW a, NEW w, Holds(m, a, w),
         \A x \in Address : x \in Span(a.begin, a.end) => Owns(ar, n, x) \/ m0.slot[x] = "free",
         \A x \in Address : x \notin Span(a.begin, a.end) =>
           m.slot[x] = IF Owns(ar, n, x) THEN "free" ELSE m0.slot[x]
  PROVE  Good(m, [ar EXCEPT ![n] = a], [wn EXCEPT ![n] = w])
<1> DEFINE as == [ar EXCEPT ![n] = a]
           ws == [wn EXCEPT ![n] = w]
<1>1. as \in [Arrays -> [begin : Nat, end : Nat, last : Nat]] /\ ws \in [Arrays -> Seq(Alive)]
  BY DEF Good, Holds, WellPlaced
<1>2. as[n] = a /\ ws[n] = w /\ \A o \in Arrays : o # n => as[o] = ar[o] /\ ws[o] = wn[o]
  BY DEF Good
<1> HIDE DEF as, ws
<1>3. ASSUME NEW o \in Arrays, o # n, NEW x, Owns(ar, o, x)
      PROVE  x \in Address /\ x \notin Span(a.begin, a.end) /\ m.slot[x] = m0.slot[x]
  <2>1. x \in Address /\ m0.slot[x] # "free"
    BY <1>3, OwnedIs
  <2>2. ~ Owns(ar, n, x)
    BY <1>3, <2>1 DEF Good
  <2> QED
    BY <2>1, <2>2
<1>4. ASSUME NEW o \in Arrays PROVE Holds(m, as[o], ws[o])
  <2>1. CASE o = n
    BY <1>2, <2>1
  <2>2. CASE o # n
    <3>1. Holds(m0, ar[o], wn[o])
      BY DEF Good
    <3>2. WellPlaced(ar[o])
      BY <3>1 DEF Holds
    <3> DEFINE b == ar[o].begin
               l == ar[o].last
               e == ar[o].end
    <3>3. b \in Nat /\ l \in Nat /\ e \in Nat /\ b <= l /\ l <= e
      BY <3>2, SpanOfArray
    <3>4. \A x : x \in Span(b, e) => m.slot[x] = m0.slot[x]
      BY <1>3, <2>2 DEF Owns
    <3> HIDE DEF b, l, e
    <3>5. \A x : (x \in Span(b, l) => x \in Span(b, e)) /\ (x \in Span(l, e) => x \in Span(b, e))
      BY <3>3 DEF Span
    <3> QED
      BY <1>2, <2>2, <3>1, <3>4, <3>5 DEF Holds, b, l, e
  <2> QED
    BY <2>1, <2>2
<1>5. ASSUME NEW o \in Arrays, NEW q \in Arrays, NEW x \in Address, Owns(as, o, x), Owns(as, q, x)
      PROVE  o = q
  <2>1. CASE o = n /\ q # n
    BY <1>2, <1>3, <1>5, <2>1 DEF Owns
  <2>2. CASE o # n /\ q = n
    BY <1>2, <1>3, <1>5, <2>2 DEF Owns
  <2>3. CASE o # n /\ q # n
    <3>1. Owns(ar, o, x) /\ Owns(ar, q, x)
      BY <1>2, <1>5, <2>3 DEF Owns
    <3> QED
      BY <3>1 DEF Good
  <2> QED
    BY <2>1, <2>2, <2>3
<1>6. ASSUME NEW x \in Address, m.slot[x] # "free" PROVE \E o \in Arrays : Owns(as, o, x)
  <2>1. CASE x \in Span(a.begin, a.end)
    BY <1>2, <2>1 DEF Owns
  <2>2. CASE x \notin Span(a.begin, a.end)
    <3>1. ~ Owns(ar, n, x) /\ m0.slot[x] # "free"
      BY <1>6, <2>2
    <3>2. PICK o \in Arrays : Owns(ar, o, x)
      BY <3>1 DEF Good
    <3> QED
      BY <1>2, <3>1, <3>2 DEF Owns
  <2> QED
    BY <2>1, <2>2
<1> QED
  BY <1>1, <1>4, <1>5, <1>6 DEF Good, as, ws

\* Two arrays exchange what they are.
LEMMA Exchanged ==
  ASSUME NEW m, NEW ar, NEW wn, Good(m, ar, wn), NEW n \in Arrays, NEW o \in Arrays
  PROVE  Good(m, [[ar EXCEPT ![n] = ar[o]] EXCEPT ![o] = ar[n]], [[wn EXCEPT ![n] = wn[o]] EXCEPT ![o] = wn[n]])
<1> DEFINE as == [[ar EXCEPT ![n] = ar[o]] EXCEPT ![o] = ar[n]]
           ws == [[wn EXCEPT ![n] = wn[o]] EXCEPT ![o] = wn[n]]
           g == [q \in Arrays |-> IF q = n THEN o ELSE IF q = o THEN n ELSE q]
<1>1. as \in [Arrays -> [begin : Nat, end : Nat, last : Nat]] /\ ws \in [Arrays -> Seq(Alive)]
  BY DEF Good
<1>2. /\ \A q \in Arrays : g[q] \in Arrays /\ as[q] = ar[g[q]] /\ ws[q] = wn[g[q]] /\ g[g[q]] = q
  BY DEF Good
<1> HIDE DEF as, ws, g
<1>3. ASSUME NEW q \in Arrays, NEW x \in Address
      PROVE  (Owns(as, q, x) <=> Owns(ar, g[q], x)) /\ (Owns(ar, q, x) <=> Owns(as, g[q], x))
  <2>1. as[q] = ar[g[q]] /\ as[g[q]] = ar[q]
    BY <1>2
  <2> QED
    BY <2>1 DEF Owns
<1>4. \A q \in Arrays : Holds(m, as[q], ws[q])
  <2> SUFFICES ASSUME NEW q \in Arrays PROVE Holds(m, as[q], ws[q])
    OBVIOUS
  <2>1. g[q] \in Arrays /\ as[q] = ar[g[q]] /\ ws[q] = wn[g[q]]
    BY <1>2
  <2>2. Holds(m, ar[g[q]], wn[g[q]])
    BY <2>1 DEF Good
  <2> QED
    BY <2>1, <2>2
<1>5. ASSUME NEW p \in Arrays, NEW q \in Arrays, NEW x \in Address, Owns(as, p, x), Owns(as, q, x)
      PROVE  p = q
  <2>1. g[p] = g[q]
    BY <1>2, <1>3, <1>5 DEF Good
  <2> QED
    BY <1>2, <2>1
<1>6. ASSUME NEW x \in Address, m.slot[x] # "free" PROVE \E q \in Arrays : Owns(as, q, x)
  <2>1. PICK q \in Arrays : Owns(ar, q, x)
    BY <1>6 DEF Good
  <2>2. g[q] \in Arrays /\ Owns(as, g[q], x)
    BY <1>2, <1>3, <2>1
  <2> QED
    BY <2>2
<1> QED
  BY <1>1, <1>4, <1>5, <1>6 DEF Good, as, ws

LEMMA ArrayIs ==
  ASSUME NEW m, NEW ar, NEW wn, Good(m, ar, wn), NEW n \in Arrays
  PROVE  /\ ar[n] \in [begin : Nat, end : Nat, last : Nat]
         /\ ar[n].begin <= ar[n].last /\ ar[n].last <= ar[n].end /\ ar[n].end <= ar[n].begin + MaxCap
         /\ ar[n].begin = Null => ar[n].end = Null /\ ar[n].last = Null
         /\ ar[n].begin # Null => Base(ar[n].begin) /\ (kind = "limited" => ar[n].end = ar[n].begin + MaxLen)
         /\ \A x \in Span(ar[n].begin, ar[n].end) : x \in Address /\ m.slot[x] \in Slots /\ m.slot[x] # "free"
         /\ wn[n] \in Seq(Alive) /\ Len(wn[n]) = ar[n].last - ar[n].begin
         /\ \A x \in Span(ar[n].begin, ar[n].last) :
              x \in Address /\ m.slot[x] = wn[n][x - ar[n].begin + 1] /\ m.slot[x] \in Alive
         /\ \A x \in Span(ar[n].last, ar[n].end) : x \in Address /\ m.slot[x] \in Spare
<1>1. Holds(m, ar[n], wn[n]) /\ WellPlaced(ar[n])
  BY DEF Good, Holds
<1>2. \A x \in Span(ar[n].begin, ar[n].end) : x \in Address /\ m.slot[x] \in Slots /\ m.slot[x] # "free"
  BY OwnedIs DEF Owns
<1> DEFINE b == ar[n].begin
           l == ar[n].last
           e == ar[n].end
<1>3. /\ b \in Nat /\ l \in Nat /\ e \in Nat /\ b <= l /\ l <= e /\ e <= b + MaxCap
      /\ b = Null => e = Null /\ l = Null
  BY <1>1, SpanOfArray
<1>4. b # Null => Base(b) /\ (kind = "limited" => e = b + MaxLen)
  BY <1>1 DEF WellPlaced, NullArray
<1>5. /\ wn[n] \in Seq(Alive) /\ Len(wn[n]) = l - b
      /\ \A x \in Span(b, l) : m.slot[x] = wn[n][x - b + 1]
      /\ \A x \in Span(l, e) : m.slot[x] \in Spare
  BY <1>1 DEF Holds
<1>6. ar[n] \in [begin : Nat, end : Nat, last : Nat]
  BY <1>1 DEF WellPlaced
<1> HIDE DEF b, l, e
<1>7. \A x \in Span(b, l) : x \in Span(b, e) /\ wn[n][x - b + 1] \in Alive
  BY <1>3, <1>5 DEF Span
<1>8. \A x \in Span(l, e) : x \in Span(b, e)
  BY <1>3 DEF Span
<1> QED
  BY <1>2, <1>3, <1>4, <1>5, <1>6, <1>7, <1>8 DEF b, l, e

\* An array that becomes a, with the sequence w, and stays where it is.
Stays(m0, old, m, a, w) ==
  /\ a \in [begin : Nat, end : Nat, last : Nat] /\ a.begin = old.begin /\ a.end = old.end
  /\ a.begin <= a.last /\ a.last <= a.end
  /\ w \in Seq(Alive) /\ Len(w) = a.last - a.begin
  /\ \A x \in Address : x \notin Span(a.begin, a.end) => m.slot[x] = m0.slot[x]
  /\ \A x \in Span(a.begin, a.last) : m.slot[x] = w[x - a.begin + 1]
  /\ \A x \in Span(a.last, a.end) : m.slot[x] \in Spare

LEMMA InPlace ==
  ASSUME NEW m0, NEW ar, NEW wn, Good(m0, ar, wn), NEW n \in Arrays, NEW m, Clean(m),
         NEW a, NEW w, Stays(m0, ar[n], m, a, w)
  PROVE  Good(m, [ar EXCEPT ![n] = a], [wn EXCEPT ![n] = w])
<1>1. WellPlaced(a)
  <2>1. CASE ar[n].begin = Null
    <3>1. a \in [begin : Nat, end : Nat, last : Nat] /\ a.begin = Null /\ a.end = Null /\ a.last = Null
      BY <2>1, ArrayIs DEF Null, Stays
    <3>2. a = NullArray
      BY <3>1 DEF NullArray
    <3> QED
      BY <3>1, <3>2 DEF WellPlaced
  <2>2. CASE ar[n].begin # Null
    BY <2>2, ArrayIs DEF WellPlaced, Stays
  <2> QED
    BY <2>1, <2>2
<1>2. Holds(m, a, w)
  BY <1>1 DEF Holds, Stays
<1>3. \A x \in Address : x \in Span(a.begin, a.end) <=> Owns(ar, n, x)
  BY DEF Owns, Stays
<1>4. \A x \in Address : x \notin Span(a.begin, a.end) => m.slot[x] = m0.slot[x]
  BY DEF Stays
<1> QED
  BY <1>2, <1>3, <1>4, Replaced

\* An array that is moved, or made, where nothing was; what it had is free.
Moves(m0, old, m, a, w) ==
  /\ a \in [begin : Nat, end : Nat, last : Nat] /\ Base(a.begin)
  /\ a.begin <= a.last /\ a.last <= a.end /\ a.end <= a.begin + MaxCap
  /\ kind = "limited" => a.end = a.begin + MaxLen
  /\ \A x \in Span(a.begin, a.begin + MaxCap) : m0.slot[x] = "free"
  /\ w \in Seq(Alive) /\ Len(w) = a.last - a.begin
  /\ \A x \in Address : x \notin Span(a.begin, a.end) =>
       m.slot[x] = IF x \in Span(old.begin, old.end) THEN "free" ELSE m0.slot[x]
  /\ \A x \in Span(a.begin, a.last) : m.slot[x] = w[x - a.begin + 1]
  /\ \A x \in Span(a.last, a.end) : m.slot[x] \in Spare

LEMMA InNewPlace ==
  ASSUME NEW m0, NEW ar, NEW wn, Good(m0, ar, wn), NEW n \in Arrays, NEW m, Clean(m),
         NEW a, NEW w, Moves(m0, ar[n], m, a, w)
  PROVE  Good(m, [ar EXCEPT ![n] = a], [wn EXCEPT ![n] = w])
<1>1. Holds(m, a, w)
  BY DEF Holds, WellPlaced, Moves
<1>2. \A x \in Span(a.begin, a.end) : m0.slot[x] = "free"
  BY MemoryAssumption DEF Span, Moves
<1>3. \A x \in Address : x \notin Span(a.begin, a.end) =>
        m.slot[x] = IF Owns(ar, n, x) THEN "free" ELSE m0.slot[x]
  BY DEF Moves, Owns
<1> QED
  BY <1>1, <1>2, <1>3, Replaced

\* An array whose elements are destroyed and whose allocation is returned.
LEMMA Removed ==
  ASSUME NEW m, NEW ar, NEW wn, Good(m, ar, wn), NEW n \in Arrays, Spare = {"raw"}
  PROVE  /\ Clean(Deallocate(Destroy(m, ar[n].begin, ar[n].last), ar[n]))
         /\ \A x \in Address : Deallocate(Destroy(m, ar[n].begin, ar[n].last), ar[n]).slot[x] =
              IF x \in Span(ar[n].begin, ar[n].end) THEN "free" ELSE m.slot[x]
         /\ Good(Deallocate(Destroy(m, ar[n].begin, ar[n].last), ar[n]),
                 [ar EXCEPT ![n] = NullArray], [wn EXCEPT ![n] = <<>>])
<1> DEFINE a == ar[n]
           d == Destroy(m, a.begin, a.last)
           k == Deallocate(d, a)
<1>1. /\ a.begin \in Nat /\ a.end \in Nat /\ a.last \in Nat /\ a.begin <= a.last /\ a.last <= a.end
      /\ a.begin = Null => a.end = Null
      /\ \A x \in Span(a.begin, a.last) : x \in Address /\ m.slot[x] \in Alive
      /\ \A x \in Span(a.last, a.end) : x \in Address /\ m.slot[x] = "raw"
  BY ArrayIs
<1>2. Clean(m)
  BY DEF Good
<1> HIDE DEF a
<1>3. Clean(d) /\ \A x \in Address : d.slot[x] = IF x \in Span(a.begin, a.last) THEN "raw" ELSE m.slot[x]
  BY <1>1, <1>2, DestroyIs
<1> HIDE DEF d
<1>4. \A x \in Span(a.begin, a.end) : x \in Span(a.begin, a.last) \/ x \in Span(a.last, a.end)
  BY <1>1 DEF Span
<1>5. \A x \in Span(a.begin, a.last) : x \in Span(a.begin, a.end)
  BY <1>1 DEF Span
<1>6. \A x \in Span(a.begin, a.end) : x \in Address /\ d.slot[x] = "raw"
  BY <1>1, <1>3, <1>4
<1>7. Clean(k) /\ \A x \in Address : k.slot[x] = IF x \in Span(a.begin, a.end) THEN "free" ELSE d.slot[x]
  BY <1>1, <1>3, <1>6, DeallocateIs
<1> HIDE DEF k
<1>8. \A x \in Address : k.slot[x] = IF x \in Span(a.begin, a.end) THEN "free" ELSE m.slot[x]
  BY <1>3, <1>5, <1>7
<1>9. Good(k, [ar EXCEPT ![n] = NullArray], [wn EXCEPT ![n] = <<>>])
  <2>1. \A x : x \notin Span(NullArray.begin, NullArray.end)
    BY DEF NullArray, Null, Span
  <2>2. \A x \in Address : Owns(ar, n, x) <=> x \in Span(a.begin, a.end)
    BY DEF Owns, a
  <2> QED
    BY <1>7, <1>8, <2>1, <2>2, NullHolds, Replaced
<1> QED
  BY <1>7, <1>8, <1>9 DEF k, d, a

-----------------------------------------------------------------------------
(* Sequences *)

LEMMA PrefixIs ==
  ASSUME NEW S, NEW s \in Seq(S), NEW k \in 0 .. Len(s)
  PROVE  SubSeq(s, 1, k) \in Seq(S) /\ Len(SubSeq(s, 1, k)) = k /\ \A i \in 1 .. k : SubSeq(s, 1, k)[i] = s[i]
OBVIOUS

LEMMA ConcatIs ==
  ASSUME NEW S, NEW s \in Seq(S), NEW t \in Seq(S)
  PROVE  /\ s \o t \in Seq(S) /\ Len(s \o t) = Len(s) + Len(t)
         /\ \A i \in 1 .. Len(s) : (s \o t)[i] = s[i]
         /\ \A i \in Len(s) + 1 .. Len(s) + Len(t) : (s \o t)[i] = t[i - Len(s)]
OBVIOUS

\* w is s with t in the place of what lies between i and j.
Spliced(w, s, i, j, t) ==
  /\ w \in Seq(Alive) /\ Len(w) = Len(s) - (j - i) + Len(t)
  /\ \A k \in 1 .. i : w[k] = s[k]
  /\ \A k \in i + 1 .. i + Len(t) : w[k] = t[k - i]
  /\ \A k \in i + Len(t) + 1 .. Len(s) - (j - i) + Len(t) : w[k] = s[k - Len(t) + (j - i)]

LEMMA SpliceIs ==
  ASSUME NEW s \in Seq(Alive), NEW t \in Seq(Alive), NEW i \in Nat, NEW j \in Nat, i <= j, j <= Len(s)
  PROVE  Spliced(Splice(s, i, j, t), s, i, j, t)
<1> DEFINE p == SubSeq(s, 1, i)
           q == SubSeq(s, j + 1, Len(s))
           r == p \o t
<1>1. p \in Seq(Alive) /\ Len(p) = i /\ \A k \in 1 .. i : p[k] = s[k]
  BY PrefixIs
<1>2. q \in Seq(Alive) /\ Len(q) = Len(s) - j /\ \A k \in 1 .. Len(s) - j : q[k] = s[j + k]
  OBVIOUS
<1>3. Splice(s, i, j, t) = r \o q
  BY DEF Splice
<1> HIDE DEF p, q
<1>4. /\ r \in Seq(Alive) /\ Len(r) = i + Len(t)
      /\ \A k \in 1 .. i : r[k] = s[k]
      /\ \A k \in i + 1 .. i + Len(t) : r[k] = t[k - i]
  <2>1. p \in Seq(Alive)
    BY <1>1
  <2>2. /\ r \in Seq(Alive) /\ Len(r) = Len(p) + Len(t)
        /\ \A k \in 1 .. Len(p) : r[k] = p[k]
        /\ \A k \in Len(p) + 1 .. Len(p) + Len(t) : r[k] = t[k - Len(p)]
    BY <2>1, ConcatIs
  <2> HIDE DEF r
  <2> QED
    BY <1>1, <2>2
<1> HIDE DEF r
<1> DEFINE z == r \o q
<1>5. /\ z \in Seq(Alive) /\ Len(z) = Len(r) + Len(q)
      /\ \A k \in 1 .. Len(r) : z[k] = r[k]
      /\ \A k \in Len(r) + 1 .. Len(r) + Len(q) : z[k] = q[k - Len(r)]
  BY <1>2, <1>4, ConcatIs
<1> HIDE DEF z
<1>6. \A k \in i + Len(t) + 1 .. i + Len(t) + (Len(s) - j) :
        k - (i + Len(t)) \in 1 .. Len(s) - j /\ j + (k - (i + Len(t))) = k - Len(t) + (j - i)
  OBVIOUS
<1>7. ASSUME NEW k \in i + Len(t) + 1 .. i + Len(t) + (Len(s) - j)
      PROVE  z[k] = s[k - Len(t) + (j - i)]
  <2>1. k \in Len(r) + 1 .. Len(r) + Len(q) /\ k - Len(r) = k - (i + Len(t))
    BY <1>2, <1>4
  <2>2. z[k] = q[k - (i + Len(t))]
    BY <1>5, <2>1
  <2> QED
    BY <1>2, <1>6, <2>2
<1>8. Splice(s, i, j, t) = z
  BY <1>3 DEF z
<1>9. \A k \in 1 .. i + Len(t) : z[k] = r[k]
  BY <1>4, <1>5
<1>10. Len(z) = Len(s) - (j - i) + Len(t) /\ i + Len(t) + (Len(s) - j) = Len(s) - (j - i) + Len(t)
  BY <1>2, <1>4, <1>5
<1>11. \A k \in 1 .. i : z[k] = s[k]
  BY <1>4, <1>9
<1>12. \A k \in i + 1 .. i + Len(t) : z[k] = t[k - i]
  BY <1>4, <1>9
<1>13. \A k \in i + Len(t) + 1 .. Len(s) - (j - i) + Len(t) : z[k] = s[k - Len(t) + (j - i)]
  BY <1>7, <1>10
<1>14. Spliced(z, s, i, j, t)
  BY <1>5, <1>10, <1>11, <1>12, <1>13 DEF Spliced
<1> QED
  BY <1>8, <1>14

\* w is s without what lies between i and j.
WithoutPart(w, s, i, j) ==
  /\ w \in Seq(Alive) /\ Len(w) = Len(s) - (j - i)
  /\ \A k \in 1 .. i : w[k] = s[k]
  /\ \A k \in i + 1 .. Len(s) - (j - i) : w[k] = s[k + (j - i)]

LEMMA CutIs ==
  ASSUME NEW s \in Seq(Alive), NEW i \in Nat, NEW j \in Nat, i <= j, j <= Len(s)
  PROVE  WithoutPart(Splice(s, i, j, <<>>), s, i, j)
<1> DEFINE t == <<>>
           z == Splice(s, i, j, t)
<1>1. t \in Seq(Alive) /\ Len(t) = 0
  OBVIOUS
<1> HIDE DEF t
<1>2. Spliced(z, s, i, j, t)
  BY <1>1, SpliceIs
<1> HIDE DEF z
<1>3. /\ z \in Seq(Alive) /\ Len(z) = Len(s) - (j - i) + Len(t)
      /\ \A k \in 1 .. i : z[k] = s[k]
      /\ \A k \in i + Len(t) + 1 .. Len(s) - (j - i) + Len(t) : z[k] = s[k - Len(t) + (j - i)]
  BY <1>2 DEF Spliced
<1>4. Len(z) = Len(s) - (j - i)
  BY <1>1, <1>3
<1>5. \A k \in i + 1 .. Len(s) - (j - i) : z[k] = s[k + (j - i)]
  BY <1>1, <1>3
<1>6. WithoutPart(z, s, i, j)
  BY <1>3, <1>4, <1>5 DEF WithoutPart
<1> QED
  BY <1>6 DEF z, t

-----------------------------------------------------------------------------
(* DynamicArray: what an array is after an operation in its allocation *)

LEMMA Shortened ==
  ASSUME Good(mem, arr, want), NEW n \in Arrays, Spare = {"raw"}, NEW size \in Nat, size <= Size(arr[n]),
         NEW w \in Seq(Alive), Len(w) = size, \A i \in 1 .. size : w[i] = want[n][i]
  PROVE  Good(Destroy(mem, arr[n].begin + size, arr[n].last),
              [arr EXCEPT ![n] = [arr[n] EXCEPT !.last = arr[n].begin + size]], [want EXCEPT ![n] = w])
<1> DEFINE a == arr[n]
           top == a.begin + size
           k == Destroy(mem, top, a.last)
           r == [a EXCEPT !.last = top]
<1>1. /\ a \in [begin : Nat, end : Nat, last : Nat] /\ a.begin <= a.last /\ a.last <= a.end
      /\ Len(want[n]) = a.last - a.begin
      /\ \A x \in Span(a.begin, a.last) :
           x \in Address /\ mem.slot[x] = want[n][x - a.begin + 1] /\ mem.slot[x] \in Alive
      /\ \A x \in Span(a.last, a.end) : x \in Address /\ mem.slot[x] \in Spare
  BY ArrayIs
<1>2. size <= a.last - a.begin
  BY DEF Size
<1>0. top = a.begin + size /\ top \in Nat
  BY <1>1
<1> HIDE DEF a, top
<1>3. \A x \in Span(top, a.last) : x \in Address /\ mem.slot[x] \in Alive
  BY <1>0, <1>1 DEF Span
<1>4. Clean(k) /\ \A x \in Address : k.slot[x] = IF x \in Span(top, a.last) THEN "raw" ELSE mem.slot[x]
  BY <1>0, <1>1, <1>3, DestroyIs DEF Good
<1> HIDE DEF k
<1>5. /\ r \in [begin : Nat, end : Nat, last : Nat] /\ r.begin = a.begin /\ r.end = a.end /\ r.last = top
  BY <1>0, <1>1
<1> HIDE DEF r
<1>6. r.begin <= r.last /\ r.last <= r.end /\ Len(w) = r.last - r.begin
  BY <1>0, <1>1, <1>2, <1>5
<1>7. \A x \in Address : x \notin Span(r.begin, r.end) => k.slot[x] = mem.slot[x]
  BY <1>0, <1>1, <1>4, <1>5 DEF Span
<1>8. ASSUME NEW x \in Span(r.last, r.end) PROVE k.slot[x] \in Spare
  <2>1. x \in Span(top, a.last) \/ x \in Span(a.last, a.end)
    BY <1>0, <1>1, <1>5 DEF Span
  <2>2. x \in Address
    BY <1>1, <1>3, <2>1
  <2> QED
    BY <1>1, <1>4, <2>1, <2>2
<1>9. ASSUME NEW x \in Span(r.begin, r.last) PROVE k.slot[x] = w[x - r.begin + 1]
  <2>1. x \in Span(a.begin, a.last) /\ x \notin Span(top, a.last) /\ x - a.begin + 1 \in 1 .. size
    BY <1>0, <1>1, <1>2, <1>5, SMTT(30) DEF Span
  <2> QED
    BY <1>1, <1>4, <1>5, <2>1
<1>10. Stays(mem, arr[n], k, r, w)
  BY <1>5, <1>6, <1>7, <1>8, <1>9 DEF Stays, a
<1>11. Good(k, [arr EXCEPT ![n] = r], [want EXCEPT ![n] = w])
  BY <1>4, <1>10, InPlace
<1> QED
  BY <1>11 DEF k, r, a, top

LEMMA ArrayClearKeeps ==
  ASSUME Good(mem, arr, want), NEW n \in Arrays, Spare = {"raw"}, Clear(n)
  PROVE  Good(mem', arr', want') /\ misuse' = misuse
<1>1. arr[n].begin \in Nat /\ arr[n].last \in Nat /\ arr[n].begin <= arr[n].last
  BY ArrayIs
<1>2. PICK size \in Nat : size = 0
  OBVIOUS
<1>3. arr[n].begin + size = arr[n].begin /\ size <= Size(arr[n])
  BY <1>1, <1>2 DEF Size
<1>4. <<>> \in Seq(Alive) /\ Len(<<>>) = size /\ \A i \in 1 .. size : <<>>[i] = want[n][i]
  BY <1>2
<1>5. Good(Destroy(mem, arr[n].begin + size, arr[n].last),
           [arr EXCEPT ![n] = [arr[n] EXCEPT !.last = arr[n].begin + size]], [want EXCEPT ![n] = <<>>])
  BY <1>3, <1>4, Shortened
<1> QED
  BY <1>3, <1>5 DEF Clear, Becomes, Destroyed

LEMMA PopBackKeeps ==
  ASSUME Good(mem, arr, want), NEW n \in Arrays, Spare = {"raw"}, PopBack(n)
  PROVE  Good(mem', arr', want') /\ misuse' = misuse
<1> DEFINE size == Size(arr[n]) - 1
           w == SubSeq(want[n], 1, size)
<1>1. /\ arr[n] \in [begin : Nat, end : Nat, last : Nat] /\ want[n] \in Seq(Alive)
      /\ Len(want[n]) = arr[n].last - arr[n].begin
  BY ArrayIs
<1>2. size \in Nat /\ size <= Size(arr[n]) /\ Len(want[n]) = size + 1 /\ arr[n].begin + size = arr[n].last - 1
  BY <1>1 DEF PopBack, Size
<1>3. Front(want[n]) = w
  BY <1>2 DEF Front
<1>4. w \in Seq(Alive) /\ Len(w) = size /\ \A i \in 1 .. size : w[i] = want[n][i]
  BY <1>1, <1>2
<1>5. /\ mem' = Destroy(mem, arr[n].last - 1, arr[n].last)
      /\ arr' = [arr EXCEPT ![n] = [arr[n] EXCEPT !.last = arr[n].last - 1]]
      /\ want' = [want EXCEPT ![n] = w] /\ misuse' = misuse
  BY <1>3 DEF PopBack, Becomes
<1> HIDE DEF size, w
<1>6. Good(Destroy(mem, arr[n].begin + size, arr[n].last),
           [arr EXCEPT ![n] = [arr[n] EXCEPT !.last = arr[n].begin + size]], [want EXCEPT ![n] = w])
  BY <1>2, <1>4, Shortened
<1> QED
  BY <1>2, <1>5, <1>6

LEMMA ShrinkKeeps ==
  ASSUME Good(mem, arr, want), NEW n \in Arrays, Spare = {"raw"}, NEW size \in Nat, Shrink(n, size)
  PROVE  Good(mem', arr', want')
<1> DEFINE w == SubSeq(want[n], 1, size)
<1>1. /\ arr[n] \in [begin : Nat, end : Nat, last : Nat] /\ want[n] \in Seq(Alive)
      /\ Len(want[n]) = arr[n].last - arr[n].begin
  BY ArrayIs
<1>2. size <= Size(arr[n]) /\ size \in 0 .. Len(want[n])
  BY <1>1 DEF Shrink, Size
<1>3. w \in Seq(Alive) /\ Len(w) = size /\ \A i \in 1 .. size : w[i] = want[n][i]
  BY <1>1, <1>2, PrefixIs
<1>4. /\ mem' = Destroy(mem, arr[n].begin + size, arr[n].last)
      /\ arr' = [arr EXCEPT ![n] = [arr[n] EXCEPT !.last = arr[n].begin + size]]
      /\ want' = [want EXCEPT ![n] = w]
  BY DEF Shrink, Becomes
<1> HIDE DEF w
<1> QED
  BY <1>2, <1>3, <1>4, Shortened

LEMMA ClearMemoryKeeps ==
  ASSUME Good(mem, arr, want), NEW n \in Arrays, Spare = {"raw"}, ClearMemory(n)
  PROVE  Good(mem', arr', want') /\ misuse' = misuse
BY Removed DEF ClearMemory, Becomes, Destroyed

LEMMA SwapKeeps ==
  ASSUME Good(mem, arr, want), NEW n \in Arrays, NEW o \in Arrays, Swap(n, o)
  PROVE  Good(mem', arr', want') /\ misuse' = misuse
BY Exchanged DEF Swap

LEMMA MoveAssignKeeps ==
  ASSUME Good(mem, arr, want), NEW n \in Arrays, NEW o \in Arrays, Spare = {"raw"}, MoveAssignFrom(n, o)
  PROVE  Good(mem', arr', want') /\ misuse' = misuse
<1> DEFINE k == Deallocate(Destroyed(arr[n]), arr[n])
           as == [arr EXCEPT ![n] = NullArray]
           ws == [want EXCEPT ![n] = <<>>]
<1>1. Good(k, as, ws)
  BY Removed DEF Destroyed
<1>2. Good(k, [[as EXCEPT ![n] = as[o]] EXCEPT ![o] = as[n]], [[ws EXCEPT ![n] = ws[o]] EXCEPT ![o] = ws[n]])
  <2> HIDE DEF k, as, ws
  <2> QED
    BY <1>1, Exchanged
<1>3. arr \in [Arrays -> [begin : Nat, end : Nat, last : Nat]] /\ want \in [Arrays -> Seq(Alive)]
  BY DEF Good
<1>4. [[as EXCEPT ![n] = as[o]] EXCEPT ![o] = as[n]] = [[arr EXCEPT ![n] = arr[o]] EXCEPT ![o] = NullArray]
  BY <1>3
<1>5. [[ws EXCEPT ![n] = ws[o]] EXCEPT ![o] = ws[n]] = [[want EXCEPT ![n] = want[o]] EXCEPT ![o] = <<>>]
  BY <1>3
<1> HIDE DEF k, as, ws
<1>6. Good(k, [[arr EXCEPT ![n] = arr[o]] EXCEPT ![o] = NullArray], [[want EXCEPT ![n] = want[o]] EXCEPT ![o] = <<>>])
  BY <1>2, <1>4, <1>5
<1> QED
  BY <1>6 DEF MoveAssignFrom, k

\* The elements from the j-th on move to the i-th place, and what they leave is destroyed.
LEMMA Erased ==
  ASSUME Good(mem, arr, want), NEW n \in Arrays, Spare = {"raw"},
         NEW i \in Nat, NEW j \in Nat, i <= j, j <= Size(arr[n]), i < j \/ j = Size(arr[n])
  PROVE  Good(Destroy(MoveAssign(mem, arr[n].begin + j, arr[n].last, arr[n].begin + i),
                      arr[n].last - (j - i), arr[n].last),
              [arr EXCEPT ![n] = [arr[n] EXCEPT !.last = @ - (j - i)]],
              [want EXCEPT ![n] = Splice(want[n], i, j, <<>>)])
<1> DEFINE b == arr[n].begin
           l == arr[n].last
           e == arr[n].end
           s == want[n]
           lo == b + j
           to == b + i
           top == l - (j - i)
           m == MoveAssign(mem, lo, l, to)
           k == Destroy(m, top, l)
           r == [arr[n] EXCEPT !.last = top]
           w == Splice(s, i, j, <<>>)
<1>1. /\ b \in Nat /\ l \in Nat /\ e \in Nat /\ b <= l /\ l <= e
      /\ s \in Seq(Alive) /\ Len(s) = l - b
  BY ArrayIs
<1>2. /\ \A x \in Span(b, l) : x \in Address /\ mem.slot[x] = s[x - b + 1] /\ mem.slot[x] \in Alive
      /\ \A x \in Span(l, e) : x \in Address /\ mem.slot[x] \in Spare
  BY ArrayIs
<1>3. j <= l - b /\ (i < j \/ j = l - b)
  BY DEF Size
<1>4. r \in [begin : Nat, end : Nat, last : Int] /\ r.begin = b /\ r.end = e /\ r.last = top
  BY <1>1, ArrayIs
<1> HIDE DEF b, l, e, s, r
<1>5. /\ lo = b + j /\ to = b + i /\ top = l - (j - i)
      /\ lo \in Nat /\ to \in Nat /\ top \in Nat /\ lo <= l
      /\ to + (l - lo) = top
  BY <1>1, <1>3
<1>6. /\ w \in Seq(Alive) /\ Len(w) = (l - b) - (j - i)
      /\ \A p \in 1 .. i : w[p] = s[p]
      /\ \A p \in i + 1 .. (l - b) - (j - i) : w[p] = s[p + (j - i)]
  <2>1. j <= Len(s)
    BY <1>1, <1>3
  <2>2. WithoutPart(w, s, i, j)
    BY <1>1, <2>1, CutIs
  <2> HIDE DEF w
  <2>3. /\ w \in Seq(Alive) /\ Len(w) = Len(s) - (j - i)
        /\ \A p \in 1 .. i : w[p] = s[p]
        /\ \A p \in i + 1 .. Len(s) - (j - i) : w[p] = s[p + (j - i)]
    BY <2>2 DEF WithoutPart
  <2>4. Len(w) = (l - b) - (j - i)
    BY <1>1, <2>3
  <2>5. \A p \in i + 1 .. (l - b) - (j - i) : w[p] = s[p + (j - i)]
    BY <1>1, <2>3
  <2> QED
    BY <2>3, <2>4, <2>5
<1> HIDE DEF lo, to, top, w
<1>7. \A x \in Span(lo, l) : x \in Address /\ mem.slot[x] \in Alive
  BY <1>1, <1>2, <1>5 DEF Span
<1>8. \A x \in Span(to, to + (l - lo)) : x \in Address /\ mem.slot[x] \in Alive
  BY <1>1, <1>2, <1>3, <1>5 DEF Span
<1>9. Clean(mem)
  BY DEF Good
<1>10. /\ Clean(m)
       /\ \A x \in Address : m.slot[x] =
            IF x \in Span(to, top) THEN mem.slot[lo + (x - to)]
            ELSE IF x \in Span(lo, l) THEN "moved" ELSE mem.slot[x]
  <2>1. CASE lo # to
    <3>1. /\ Clean(m)
          /\ \A x \in Address : m.slot[x] =
               IF x \in Span(to, to + (l - lo)) THEN mem.slot[lo + (x - to)]
               ELSE IF x \in Span(lo, l) THEN "moved" ELSE mem.slot[x]
      BY <1>1, <1>5, <1>7, <1>8, <1>9, <2>1, MoveAssignIs
    <3> QED
      BY <1>5, <3>1
  <2>2. CASE lo = to
    <3>1. lo = l /\ \A x : x \notin Span(lo, l) /\ x \notin Span(to, top)
      BY <1>1, <1>3, <1>5, <2>2 DEF Span
    <3>2. m = Taken(mem, lo, l)
      BY <2>2 DEF MoveAssign
    <3>3. /\ Clean(Taken(mem, lo, l))
          /\ \A x \in Address : Taken(mem, lo, l).slot[x] = IF x \in Span(lo, l) THEN "moved" ELSE mem.slot[x]
      <4> HIDE DEF m
      <4> QED
        BY <1>1, <1>5, <1>7, <1>9, TakenIs
    <3> HIDE DEF m
    <3> QED
      BY <3>1, <3>2, <3>3
  <2> QED
    BY <2>1, <2>2
<1> HIDE DEF m
<1>11. \A x \in Span(top, l) : x \in Address /\ m.slot[x] \in Alive
  <2> SUFFICES ASSUME NEW x \in Span(top, l) PROVE x \in Address /\ m.slot[x] \in Alive
    OBVIOUS
  <2>1. x \in Span(b, l)
    BY <1>1, <1>3, <1>5 DEF Span
  <2>2. x \notin Span(to, top)
    BY <1>1, <1>5 DEF Span
  <2> QED
    BY <1>2, <1>10, <2>1, <2>2, SlotsDiffer
<1>12. Clean(k) /\ \A x \in Address : k.slot[x] = IF x \in Span(top, l) THEN "raw" ELSE m.slot[x]
  BY <1>1, <1>5, <1>10, <1>11, DestroyIs
<1> HIDE DEF k
<1>13. b <= top /\ top <= e /\ Len(w) = top - b
  <2>1. Len(w) = (l - b) - (j - i)
    BY <1>6
  <2> QED
    BY <1>1, <1>3, <1>5, <2>1
<1>14. ASSUME NEW x \in Address, x \notin Span(b, e) PROVE k.slot[x] = mem.slot[x]
  <2>1. x \notin Span(top, l) /\ x \notin Span(to, top) /\ x \notin Span(lo, l)
    BY <1>1, <1>3, <1>5, <1>14 DEF Span
  <2> QED
    BY <1>10, <1>12, <2>1
<1>15. ASSUME NEW x \in Span(top, e) PROVE k.slot[x] \in Spare
  <2>1. CASE x \in Span(top, l)
    BY <1>11, <1>12, <2>1
  <2>2. CASE x \in Span(l, e)
    <3>1. x \notin Span(top, l) /\ x \notin Span(to, top) /\ x \notin Span(lo, l)
      BY <1>1, <1>3, <1>5, <2>2 DEF Span
    <3> QED
      BY <1>2, <1>10, <1>12, <2>2, <3>1
  <2> QED
    BY <1>1, <1>5, <2>1, <2>2 DEF Span
<1>16. ASSUME NEW x \in Span(b, top) PROVE k.slot[x] = w[x - b + 1]
  <2>1. x \in Span(b, l) /\ x \notin Span(top, l)
    BY <1>1, <1>3, <1>5 DEF Span
  <2>2. k.slot[x] = m.slot[x] /\ x \in Address /\ x \in Int
    BY <1>1, <1>2, <1>12, <2>1 DEF Span
  <2>3. CASE x < to
    <3>1. x \notin Span(to, top) /\ x \notin Span(lo, l) /\ x - b + 1 \in 1 .. i
      BY <1>1, <1>3, <1>5, <2>1, <2>3 DEF Span
    <3> QED
      BY <1>2, <1>6, <1>10, <2>1, <2>2, <3>1
  <2>4. CASE to <= x
    <3>1. x \in Span(to, top) /\ x - b + 1 \in i + 1 .. (l - b) - (j - i)
      BY <1>1, <1>3, <1>5, <2>1, <2>4 DEF Span
    <3>2. lo + (x - to) \in Span(b, l) /\ (lo + (x - to)) - b + 1 = x - b + 1 + (j - i)
      BY <1>1, <1>3, <1>5, <2>1, <2>4, <3>1 DEF Span
    <3>3. mem.slot[lo + (x - to)] = s[x - b + 1 + (j - i)]
      BY <1>2, <3>2
    <3>4. w[x - b + 1] = s[x - b + 1 + (j - i)]
      BY <1>6, <3>1
    <3> QED
      BY <1>10, <2>2, <3>1, <3>3, <3>4
  <2> QED
    BY <1>5, <2>2, <2>3, <2>4
<1>17. Stays(mem, arr[n], k, r, w)
  BY <1>4, <1>5, <1>6, <1>13, <1>14, <1>15, <1>16 DEF Stays, b, e
<1>18. Good(k, [arr EXCEPT ![n] = r], [want EXCEPT ![n] = w])
  BY <1>12, <1>17, InPlace
<1> QED
  BY <1>18 DEF k, r, w, m, lo, to, top, s, b, l

LEMMA EraseAtKeeps ==
  ASSUME Good(mem, arr, want), NEW n \in Arrays, Spare = {"raw"}, NEW i \in Nat, EraseAt(n, i)
  PROVE  Good(mem', arr', want') /\ misuse' = misuse
<1>1. arr[n].begin \in Nat /\ arr[n].last \in Nat
  BY ArrayIs
<1>2. PICK j \in Nat : j = i + 1
  OBVIOUS
<1>3. i <= j /\ j <= Size(arr[n]) /\ i < j
  BY <1>1, <1>2 DEF EraseAt, Size
<1>4. arr[n].begin + j = arr[n].begin + i + 1 /\ arr[n].last - (j - i) = arr[n].last - 1
  BY <1>1, <1>2
<1>5. /\ mem' = Destroy(MoveAssign(mem, arr[n].begin + j, arr[n].last, arr[n].begin + i), arr[n].last - (j - i), arr[n].last)
      /\ arr' = [arr EXCEPT ![n] = [arr[n] EXCEPT !.last = @ - (j - i)]]
      /\ want' = [want EXCEPT ![n] = Splice(want[n], i, j, <<>>)]
      /\ misuse' = misuse
  BY <1>2, <1>4 DEF EraseAt, Becomes
<1>6. Good(Destroy(MoveAssign(mem, arr[n].begin + j, arr[n].last, arr[n].begin + i), arr[n].last - (j - i), arr[n].last),
           [arr EXCEPT ![n] = [arr[n] EXCEPT !.last = @ - (j - i)]],
           [want EXCEPT ![n] = Splice(want[n], i, j, <<>>)])
  BY <1>3, Erased
<1> QED
  BY <1>5, <1>6

LEMMA EraseKeeps ==
  ASSUME Good(mem, arr, want), NEW n \in Arrays, Spare = {"raw"}, NEW i \in Nat, NEW j \in Nat,
         i < j \/ j = Size(arr[n]), Erase(n, i, j)
  PROVE  Good(mem', arr', want') /\ misuse' = misuse
<1>1. arr[n].begin \in Nat /\ arr[n].last \in Nat
  BY ArrayIs
<1>2. i <= j /\ j <= Size(arr[n])
  BY DEF Erase
<1>3. misuse' = misuse
  <2>1. ~ (i = j /\ j < Size(arr[n]))
    BY <1>1 DEF Size
  <2> QED
    BY <2>1 DEF Erase
<1>4. /\ mem' = Destroy(MoveAssign(mem, arr[n].begin + j, arr[n].last, arr[n].begin + i), arr[n].last - (j - i), arr[n].last)
      /\ arr' = [arr EXCEPT ![n] = [arr[n] EXCEPT !.last = @ - (j - i)]]
      /\ want' = [want EXCEPT ![n] = Splice(want[n], i, j, <<>>)]
  BY DEF Erase, Becomes
<1>5. Good(Destroy(MoveAssign(mem, arr[n].begin + j, arr[n].last, arr[n].begin + i), arr[n].last - (j - i), arr[n].last),
           [arr EXCEPT ![n] = [arr[n] EXCEPT !.last = @ - (j - i)]],
           [want EXCEPT ![n] = Splice(want[n], i, j, <<>>)])
  BY <1>2, Erased
<1> QED
  BY <1>3, <1>4, <1>5

\* Elements constructed behind the last one.
LEMMA Lengthened ==
  ASSUME NEW m0, NEW ar, NEW wn, Good(m0, ar, wn), NEW n \in Arrays, NEW m, Clean(m), NEW w \in Seq(Alive), NEW top \in Nat,
         ar[n].last <= top, top <= ar[n].end, Len(w) = top - ar[n].begin,
         \A i \in 1 .. Len(wn[n]) : w[i] = wn[n][i],
         \A x \in Address : m.slot[x] =
           IF x \in Span(ar[n].last, top) THEN w[x - ar[n].begin + 1] ELSE m0.slot[x]
  PROVE  Good(m, [ar EXCEPT ![n] = [ar[n] EXCEPT !.last = top]], [wn EXCEPT ![n] = w])
<1> DEFINE b == ar[n].begin
           l == ar[n].last
           e == ar[n].end
           s == wn[n]
           r == [ar[n] EXCEPT !.last = top]
<1>1. /\ b \in Nat /\ l \in Nat /\ e \in Nat /\ b <= l /\ l <= e
      /\ s \in Seq(Alive) /\ Len(s) = l - b
  BY ArrayIs
<1>2. /\ \A x \in Span(b, l) : x \in Address /\ m0.slot[x] = s[x - b + 1] /\ m0.slot[x] \in Alive
      /\ \A x \in Span(l, e) : x \in Address /\ m0.slot[x] \in Spare
  BY ArrayIs
<1>3. r \in [begin : Nat, end : Nat, last : Nat] /\ r.begin = b /\ r.end = e /\ r.last = top
  <2>1. ar[n] \in [begin : Nat, end : Nat, last : Nat]
    BY ArrayIs
  <2> QED
    BY <2>1
<1>4. /\ l <= top /\ top <= e /\ Len(w) = top - b /\ \A i \in 1 .. Len(s) : w[i] = s[i]
      /\ \A x \in Address : m.slot[x] = IF x \in Span(l, top) THEN w[x - b + 1] ELSE m0.slot[x]
  OBVIOUS
<1> HIDE DEF b, l, e, s, r
<1>5. ASSUME NEW x \in Address, x \notin Span(b, e) PROVE m.slot[x] = m0.slot[x]
  <2>1. x \notin Span(l, top)
    BY <1>1, <1>4, <1>5 DEF Span
  <2> QED
    BY <1>4, <2>1
<1>6. ASSUME NEW x \in Span(b, top) PROVE m.slot[x] = w[x - b + 1]
  <2>1. CASE x \in Span(l, top)
    <3>1. x \in Span(l, e)
      BY <1>1, <1>4, <2>1 DEF Span
    <3> QED
      BY <1>2, <1>4, <2>1, <3>1
  <2>2. CASE x \in Span(b, l)
    <3>1. x \notin Span(l, top) /\ x - b + 1 \in 1 .. Len(s)
      BY <1>1, <2>2 DEF Span
    <3> QED
      BY <1>2, <1>4, <2>2, <3>1
  <2> QED
    BY <1>1, <2>1, <2>2 DEF Span
<1>7. ASSUME NEW x \in Span(top, e) PROVE m.slot[x] \in Spare
  <2>1. x \notin Span(l, top) /\ x \in Span(l, e)
    BY <1>1, <1>4 DEF Span
  <2> QED
    BY <1>2, <1>4, <2>1
<1>8. b <= top
  BY <1>1, <1>4
<1>9. Stays(m0, ar[n], m, r, w)
  BY <1>3, <1>4, <1>5, <1>6, <1>7, <1>8 DEF Stays, b, e
<1>10. Good(m, [ar EXCEPT ![n] = r], [wn EXCEPT ![n] = w])
  BY <1>9, InPlace
<1> QED
  BY <1>10 DEF r

LEMMA AppendIs ==
  ASSUME NEW s \in Seq(Alive), NEW v \in Alive
  PROVE  /\ Append(s, v) \in Seq(Alive) /\ Len(Append(s, v)) = Len(s) + 1
         /\ \A i \in 1 .. Len(s) : Append(s, v)[i] = s[i]
         /\ Append(s, v)[Len(s) + 1] = v
OBVIOUS

LEMMA EmplaceInPlace ==
  ASSUME Good(mem, arr, want), NEW n \in Arrays, Spare = {"raw"}, NEW new, NEW v \in Alive,
         Worth(mem, new) = <<v>>, ~ Full(n), EmplaceBack(n, new, v)
  PROVE  Good(mem', arr', want')
<1> DEFINE b == arr[n].begin
           l == arr[n].last
           e == arr[n].end
           s == want[n]
           vs == <<v>>
           k == Construct(mem, l, vs)
           w == Append(s, v)
           top == l + 1
<1>1. /\ b \in Nat /\ l \in Nat /\ e \in Nat /\ b <= l /\ l <= e
      /\ s \in Seq(Alive) /\ Len(s) = l - b
  BY ArrayIs
<1>2. \A x \in Span(l, e) : x \in Address /\ mem.slot[x] \in Spare
  BY ArrayIs
<1>3. l < e
  BY <1>1 DEF Full, Size, AllocationSize
<1>4. mem' = k /\ arr' = [arr EXCEPT ![n] = [arr[n] EXCEPT !.last = top]] /\ want' = [want EXCEPT ![n] = w]
  BY DEF EmplaceBack, Becomes
<1> HIDE DEF b, l, e, s
<1>5. top \in Nat /\ l <= top /\ top <= e /\ Len(w) = top - b
  BY <1>1, <1>3, AppendIs
<1>6. w \in Seq(Alive) /\ \A i \in 1 .. Len(s) : w[i] = s[i]
  BY <1>1, AppendIs
<1>7. w[l - b + 1] = v
  BY <1>1, AppendIs
<1> HIDE DEF w
<1>8. vs \in Seq(Slots) /\ Clean(mem)
  BY SlotsDiffer DEF Good
<1>9. Len(vs) = 1 /\ vs[1] = v
  OBVIOUS
<1> HIDE DEF vs
<1>10. \A x \in Span(l, l + Len(vs)) : x \in Address /\ mem.slot[x] = "raw"
  BY <1>1, <1>2, <1>3, <1>9 DEF Span
<1>11. Clean(k) /\ \A x \in Address : k.slot[x] = IF x \in Span(l, l + Len(vs)) THEN vs[x - l + 1] ELSE mem.slot[x]
  BY <1>1, <1>8, <1>10, ConstructIs
<1> HIDE DEF k
<1>12. \A x \in Address : k.slot[x] = IF x \in Span(l, top) THEN w[x - b + 1] ELSE mem.slot[x]
  <2>1. \A x : x \in Span(l, top) => x = l
    BY <1>1 DEF Span
  <2> QED
    BY <1>1, <1>7, <1>9, <1>11, <2>1
<1> HIDE DEF top
<1>13. Good(k, [arr EXCEPT ![n] = [arr[n] EXCEPT !.last = top]], [want EXCEPT ![n] = w])
  BY <1>5, <1>6, <1>11, <1>12, Lengthened DEF b, l, e, s
<1> QED
  BY <1>4, <1>13

LEMMA ExpandInPlace ==
  ASSUME Good(mem, arr, want), NEW n \in Arrays, Spare = {"raw"}, NEW size \in Nat,
         size <= AllocationSize(arr[n]), Expand(n, size)
  PROVE  Good(mem', arr', want')
<1> DEFINE b == arr[n].begin
           l == arr[n].last
           e == arr[n].end
           s == want[n]
           more == Inits(size - (l - b))
           top == b + size
           k == Initialize(mem, l, top)
           w == s \o more
<1>1. /\ b \in Nat /\ l \in Nat /\ e \in Nat /\ b <= l /\ l <= e
      /\ s \in Seq(Alive) /\ Len(s) = l - b
  BY ArrayIs
<1>2. \A x \in Span(l, e) : x \in Address /\ mem.slot[x] \in Spare
  BY ArrayIs
<1>3. size > l - b /\ size <= e - b
  BY DEF Expand, Size, AllocationSize
<1>4. mem' = k /\ arr' = [arr EXCEPT ![n] = [arr[n] EXCEPT !.last = top]] /\ want' = [want EXCEPT ![n] = w]
  BY DEF Expand, Becomes, Size
<1> HIDE DEF b, l, e, s
<1>5. size - (l - b) \in Nat
  BY <1>1, <1>3
<1>6. more \in Seq(Alive) /\ Len(more) = size - (l - b) /\ \A i \in 1 .. size - (l - b) : more[i] = "init"
  BY <1>5, InitsIs
<1> HIDE DEF more
<1>7. top \in Nat /\ l <= top /\ top <= e /\ top - b = size
  BY <1>1, <1>3
<1>8. w \in Seq(Alive) /\ Len(w) = size /\ \A i \in 1 .. Len(s) : w[i] = s[i]
  BY <1>1, <1>6
<1>9. \A i \in Len(s) + 1 .. size : w[i] = "init"
  BY <1>1, <1>6
<1> HIDE DEF w, top
<1>10. \A x \in Span(l, top) : x \in Address /\ mem.slot[x] = "raw"
  BY <1>1, <1>2, <1>7 DEF Span
<1>11. Clean(k) /\ \A x \in Address : k.slot[x] = IF x \in Span(l, top) THEN "init" ELSE mem.slot[x]
  BY <1>1, <1>7, <1>10, InitializeIs DEF Good
<1> HIDE DEF k
<1>12. \A x \in Span(l, top) : w[x - b + 1] = "init"
  BY <1>1, <1>7, <1>9 DEF Span
<1>13. Len(w) = top - b
  BY <1>7, <1>8
<1>14. \A x \in Address : k.slot[x] = IF x \in Span(l, top) THEN w[x - b + 1] ELSE mem.slot[x]
  BY <1>11, <1>12
<1>15. Good(k, [arr EXCEPT ![n] = [arr[n] EXCEPT !.last = top]], [want EXCEPT ![n] = w])
  BY <1>7, <1>8, <1>11, <1>13, <1>14, Lengthened DEF b, l, e, s
<1> QED
  BY <1>4, <1>15

-----------------------------------------------------------------------------
(* expand, piece by piece *)

LEMMA MoveAllOne ==
  ASSUME NEW m, NEW begin, NEW p
  PROVE  MoveAll(m, begin, <<p>>) =
           UninitializedMove(m, p.lo, p.hi, begin + p.to)
<1> DEFINE moves == <<p>>
           Step(r, k) == UninitializedMove(r, moves[k].lo, moves[k].hi, begin + moves[k].to)
           Is(f) == f = [k \in 0 .. Len(moves) |-> IF k = 0 THEN m ELSE Step(f[k - 1], k)]
           after == CHOOSE f : Is(f)
           g == [k \in 0 .. 1 |-> IF k = 0 THEN m ELSE Step(m, 1)]
<1>1. Len(moves) = 1 /\ moves[1] = p
  OBVIOUS
<1>2. MoveAll(m, begin, moves) = after[Len(moves)]
  BY DEF MoveAll
<1> HIDE DEF moves, Step
<1>3. Is(g)
  <2>1. \A k \in 0 .. 1 : g[k] = IF k = 0 THEN m ELSE Step(g[k - 1], k)
    OBVIOUS
  <2>2. g = [k \in 0 .. 1 |-> g[k]]
    OBVIOUS
  <2> HIDE DEF g
  <2>3. [k \in 0 .. 1 |-> g[k]] = [k \in 0 .. 1 |-> IF k = 0 THEN m ELSE Step(g[k - 1], k)]
    BY <2>1, Zenon
  <2> QED
    BY <1>1, <2>2, <2>3
<1> HIDE DEF Is
<1>4. Is(after)
  BY <1>3
<1> HIDE DEF after
<1>5. after[0] = m /\ after[1] = Step(after[0], 1)
  BY <1>1, <1>4 DEF Is
<1>6. after[1] = Step(m, 1)
  BY <1>5
<1> QED
  BY <1>1, <1>2, <1>6, Zenon DEF Step, moves

LEMMA MoveAllTwo ==
  ASSUME NEW m, NEW begin, NEW p, NEW q
  PROVE  MoveAll(m, begin, <<p, q>>) =
           UninitializedMove(UninitializedMove(m, p.lo, p.hi, begin + p.to), q.lo, q.hi, begin + q.to)
<1> DEFINE moves == <<p, q>>
           Step(r, k) == UninitializedMove(r, moves[k].lo, moves[k].hi, begin + moves[k].to)
           Is(f) == f = [k \in 0 .. Len(moves) |-> IF k = 0 THEN m ELSE Step(f[k - 1], k)]
           after == CHOOSE f : Is(f)
           g == [k \in 0 .. 2 |-> IF k = 0 THEN m ELSE IF k = 1 THEN Step(m, 1) ELSE Step(Step(m, 1), 2)]
<1>1. Len(moves) = 2 /\ moves[1] = p /\ moves[2] = q
  OBVIOUS
<1>2. MoveAll(m, begin, moves) = after[Len(moves)]
  BY DEF MoveAll
<1> HIDE DEF moves, Step
<1>3. Is(g)
  <2>1. \A k \in 0 .. 2 : g[k] = IF k = 0 THEN m ELSE Step(g[k - 1], k)
    OBVIOUS
  <2>2. g = [k \in 0 .. 2 |-> g[k]]
    OBVIOUS
  <2> HIDE DEF g
  <2>3. [k \in 0 .. 2 |-> g[k]] = [k \in 0 .. 2 |-> IF k = 0 THEN m ELSE Step(g[k - 1], k)]
    BY <2>1, Zenon
  <2> QED
    BY <1>1, <2>2, <2>3
<1> HIDE DEF Is
<1>4. Is(after)
  BY <1>3
<1> HIDE DEF after
<1>5. after[0] = m /\ after[1] = Step(after[0], 1) /\ after[2] = Step(after[1], 2)
  BY <1>1, <1>4 DEF Is
<1>6. after[2] = Step(Step(m, 1), 2)
  BY <1>5
<1> QED
  BY <1>1, <1>2, <1>6, Zenon DEF Step, moves

LEMMA ConstructAllOne ==
  ASSUME NEW m, NEW begin, NEW p
  PROVE  ConstructAll(m, begin, <<p>>) =
           Construct(m, begin + p.to, Worth(m, p))
<1> DEFINE news == <<p>>
           Step(r, k) == Construct(r, begin + news[k].to, Worth(r, news[k]))
           Is(f) == f = [k \in 0 .. Len(news) |-> IF k = 0 THEN m ELSE Step(f[k - 1], k)]
           after == CHOOSE f : Is(f)
           g == [k \in 0 .. 1 |-> IF k = 0 THEN m ELSE Step(m, 1)]
<1>1. Len(news) = 1 /\ news[1] = p
  OBVIOUS
<1>2. ConstructAll(m, begin, news) = after[Len(news)]
  BY DEF ConstructAll
<1> HIDE DEF news, Step
<1>3. Is(g)
  <2>1. \A k \in 0 .. 1 : g[k] = IF k = 0 THEN m ELSE Step(g[k - 1], k)
    OBVIOUS
  <2>2. g = [k \in 0 .. 1 |-> g[k]]
    OBVIOUS
  <2> HIDE DEF g
  <2>3. [k \in 0 .. 1 |-> g[k]] = [k \in 0 .. 1 |-> IF k = 0 THEN m ELSE Step(g[k - 1], k)]
    BY <2>1, Zenon
  <2> QED
    BY <1>1, <2>2, <2>3
<1> HIDE DEF Is
<1>4. Is(after)
  BY <1>3
<1> HIDE DEF after
<1>5. after[0] = m /\ after[1] = Step(after[0], 1)
  BY <1>1, <1>4 DEF Is
<1>6. after[1] = Step(m, 1)
  BY <1>5
<1> QED
  BY <1>1, <1>2, <1>6, Zenon DEF Step, news

LEMMA ConstructAllTwo ==
  ASSUME NEW m, NEW begin, NEW p, NEW q, NEW one, one = Construct(m, begin + p.to, Worth(m, p))
  PROVE  ConstructAll(m, begin, <<p, q>>) = Construct(one, begin + q.to, Worth(one, q))
<1> DEFINE news == <<p, q>>
           Step(r, k) == Construct(r, begin + news[k].to, Worth(r, news[k]))
           Is(f) == f = [k \in 0 .. Len(news) |-> IF k = 0 THEN m ELSE Step(f[k - 1], k)]
           after == CHOOSE f : Is(f)
           g == [k \in 0 .. 2 |-> IF k = 0 THEN m ELSE IF k = 1 THEN Step(m, 1) ELSE Step(Step(m, 1), 2)]
<1>1. Len(news) = 2 /\ news[1] = p /\ news[2] = q
  OBVIOUS
<1>2. ConstructAll(m, begin, news) = after[Len(news)]
  BY DEF ConstructAll
<1> HIDE DEF news, Step
<1>3. Is(g)
  <2>1. \A k \in 0 .. 2 : g[k] = IF k = 0 THEN m ELSE Step(g[k - 1], k)
    OBVIOUS
  <2>2. g = [k \in 0 .. 2 |-> g[k]]
    OBVIOUS
  <2> HIDE DEF g
  <2>3. [k \in 0 .. 2 |-> g[k]] = [k \in 0 .. 2 |-> IF k = 0 THEN m ELSE Step(g[k - 1], k)]
    BY <2>1, Zenon
  <2> QED
    BY <1>1, <2>2, <2>3
<1> HIDE DEF Is
<1>4. Is(after)
  BY <1>3
<1> HIDE DEF after
<1>5. after[0] = m /\ after[1] = Step(after[0], 1) /\ after[2] = Step(after[1], 2)
  BY <1>1, <1>4 DEF Is
<1>6. after[2] = Step(Step(m, 1), 2)
  BY <1>5
<1> QED
  BY <1>1, <1>2, <1>6, Zenon DEF Step, news

LEMMA DestroyAllOne ==
  ASSUME NEW m, NEW p
  PROVE  DestroyAll(m, <<p>>) =
           Destroy(m, p.lo, p.hi)
<1> DEFINE moves == <<p>>
           Step(r, k) == Destroy(r, moves[k].lo, moves[k].hi)
           Is(f) == f = [k \in 0 .. Len(moves) |-> IF k = 0 THEN m ELSE Step(f[k - 1], k)]
           after == CHOOSE f : Is(f)
           g == [k \in 0 .. 1 |-> IF k = 0 THEN m ELSE Step(m, 1)]
<1>1. Len(moves) = 1 /\ moves[1] = p
  OBVIOUS
<1>2. DestroyAll(m, moves) = after[Len(moves)]
  BY DEF DestroyAll
<1> HIDE DEF moves, Step
<1>3. Is(g)
  <2>1. \A k \in 0 .. 1 : g[k] = IF k = 0 THEN m ELSE Step(g[k - 1], k)
    OBVIOUS
  <2>2. g = [k \in 0 .. 1 |-> g[k]]
    OBVIOUS
  <2> HIDE DEF g
  <2>3. [k \in 0 .. 1 |-> g[k]] = [k \in 0 .. 1 |-> IF k = 0 THEN m ELSE Step(g[k - 1], k)]
    BY <2>1, Zenon
  <2> QED
    BY <1>1, <2>2, <2>3
<1> HIDE DEF Is
<1>4. Is(after)
  BY <1>3
<1> HIDE DEF after
<1>5. after[0] = m /\ after[1] = Step(after[0], 1)
  BY <1>1, <1>4 DEF Is
<1>6. after[1] = Step(m, 1)
  BY <1>5
<1> QED
  BY <1>1, <1>2, <1>6, Zenon DEF Step, moves

LEMMA DestroyAllTwo ==
  ASSUME NEW m, NEW p, NEW q
  PROVE  DestroyAll(m, <<p, q>>) =
           Destroy(Destroy(m, p.lo, p.hi), q.lo, q.hi)
<1> DEFINE moves == <<p, q>>
           Step(r, k) == Destroy(r, moves[k].lo, moves[k].hi)
           Is(f) == f = [k \in 0 .. Len(moves) |-> IF k = 0 THEN m ELSE Step(f[k - 1], k)]
           after == CHOOSE f : Is(f)
           g == [k \in 0 .. 2 |-> IF k = 0 THEN m ELSE IF k = 1 THEN Step(m, 1) ELSE Step(Step(m, 1), 2)]
<1>1. Len(moves) = 2 /\ moves[1] = p /\ moves[2] = q
  OBVIOUS
<1>2. DestroyAll(m, moves) = after[Len(moves)]
  BY DEF DestroyAll
<1> HIDE DEF moves, Step
<1>3. Is(g)
  <2>1. \A k \in 0 .. 2 : g[k] = IF k = 0 THEN m ELSE Step(g[k - 1], k)
    OBVIOUS
  <2>2. g = [k \in 0 .. 2 |-> g[k]]
    OBVIOUS
  <2> HIDE DEF g
  <2>3. [k \in 0 .. 2 |-> g[k]] = [k \in 0 .. 2 |-> IF k = 0 THEN m ELSE Step(g[k - 1], k)]
    BY <2>1, Zenon
  <2> QED
    BY <1>1, <2>2, <2>3
<1> HIDE DEF Is
<1>4. Is(after)
  BY <1>3
<1> HIDE DEF after
<1>5. after[0] = m /\ after[1] = Step(after[0], 1) /\ after[2] = Step(after[1], 2)
  BY <1>1, <1>4 DEF Is
<1>6. after[2] = Step(Step(m, 1), 2)
  BY <1>5
<1> QED
  BY <1>1, <1>2, <1>6, Zenon DEF Step, moves

LEMMA ConstructAllNone ==
  ASSUME NEW m, NEW begin
  PROVE  ConstructAll(m, begin, <<>>) = m
<1> DEFINE Step(r, k) == Construct(r, begin + <<>>[k].to, Worth(r, <<>>[k]))
           Is(f) == f = [k \in 0 .. Len(<<>>) |-> IF k = 0 THEN m ELSE Step(f[k - 1], k)]
           after == CHOOSE f : Is(f)
           g == [k \in 0 .. 0 |-> m]
<1>1. ConstructAll(m, begin, <<>>) = after[0]
  BY DEF ConstructAll
<1> HIDE DEF Step
<1>2. Is(g)
  OBVIOUS
<1> HIDE DEF Is
<1>3. Is(after)
  BY <1>2
<1> HIDE DEF after
<1> QED
  BY <1>1, <1>3 DEF Is

\* An array at b whose elements s end at t, and a new allocation at c.
Room(b, t, e, s, c, size) ==
  /\ b \in Nat /\ t \in Nat /\ e \in Nat /\ b <= t /\ t <= e
  /\ s \in Seq(Alive) /\ Len(s) = t - b
  /\ \A x \in Span(b, t) : x \in Address /\ mem.slot[x] = s[x - b + 1] /\ mem.slot[x] \in Alive
  /\ \A x \in Span(t, e) : x \in Address /\ mem.slot[x] = "raw"
  /\ c \in Nat /\ size \in Nat /\ Len(s) <= size
  /\ \A x \in Span(c, c + size) : x \in Address /\ mem.slot[x] = "free"

\* The allocation holds w, and the elements of the array are worth nothing any more.
Filled(m, b, t, c, size, w) ==
  /\ Clean(m) /\ w \in Seq(Alive) /\ Len(w) <= size
  /\ \A x \in Address : m.slot[x] =
       IF x \in Span(c, c + Len(w)) THEN w[x - c + 1]
       ELSE IF x \in Span(c, c + size) THEN "raw"
       ELSE IF x \in Span(b, t) THEN "moved" ELSE mem.slot[x]

LEMMA Apart ==
  ASSUME NEW b, NEW t, NEW e, NEW s, NEW c, NEW size, Room(b, t, e, s, c, size)
  PROVE  \A x \in Span(c, c + size) : x \notin Span(b, t) /\ x \notin Span(t, e) /\ x \notin Span(b, e)
<1> SUFFICES ASSUME NEW x \in Span(c, c + size) PROVE x \notin Span(b, t) /\ x \notin Span(t, e) /\ x \notin Span(b, e)
  OBVIOUS
<1>1. mem.slot[x] = "free"
  BY DEF Room
<1>2. x \notin Span(b, t)
  BY <1>1, SlotsDiffer DEF Room
<1>3. x \notin Span(t, e)
  BY <1>1 DEF Room
<1>4. b \in Nat /\ t \in Nat /\ e \in Nat
  BY DEF Room
<1> QED
  BY <1>2, <1>3, <1>4 DEF Span

LEMMA MovedOut ==
  ASSUME NEW b, NEW t, NEW e, NEW s, NEW c, NEW size, Room(b, t, e, s, c, size),
         NEW m, Clean(m), \A x \in Address : m.slot[x] = IF x \in Span(c, c + size) THEN "raw" ELSE mem.slot[x]
  PROVE  Filled(UninitializedMove(m, b, t, c), b, t, c, size, s)
<1> DEFINE k == UninitializedMove(m, b, t, c)
<1>1. /\ b \in Nat /\ t \in Nat /\ b <= t /\ s \in Seq(Alive) /\ Len(s) = t - b
      /\ c \in Nat /\ size \in Nat /\ Len(s) <= size
  BY DEF Room
<1>2. \A x \in Span(b, t) : x \in Address /\ mem.slot[x] = s[x - b + 1] /\ mem.slot[x] \in Alive
  BY DEF Room
<1>3. \A x \in Span(c, c + size) : x \in Address /\ x \notin Span(b, t)
  BY Apart DEF Room
<1>4. \A x \in Span(b, t) : x \in Address /\ m.slot[x] = s[x - b + 1] /\ m.slot[x] \in Alive
  BY <1>2, <1>3
<1>5. \A x \in Span(c, c + (t - b)) : x \in Span(c, c + size)
  BY <1>1 DEF Span
<1>6. \A x \in Span(c, c + (t - b)) : x \in Address /\ m.slot[x] = "raw"
  BY <1>3, <1>5
<1>7. Clean(k) /\ \A x \in Address : k.slot[x] =
        IF x \in Span(c, c + (t - b)) THEN m.slot[b + (x - c)]
        ELSE IF x \in Span(b, t) THEN "moved" ELSE m.slot[x]
  <2>1. b \in Int /\ t \in Int /\ c \in Int /\ b <= t
    BY <1>1
  <2> QED
    BY <1>4, <1>6, <2>1, UninitializedMoveIs
<1> HIDE DEF k
<1>8. ASSUME NEW x \in Span(c, c + (t - b)) PROVE m.slot[b + (x - c)] = s[x - c + 1]
  <2>1. b + (x - c) \in Span(b, t) /\ (b + (x - c)) - b + 1 = x - c + 1
    BY <1>1 DEF Span
  <2> QED
    BY <1>4, <2>1
<1>9. Span(c, c + Len(s)) = Span(c, c + (t - b))
  BY <1>1
<1>10. \A x \in Address : k.slot[x] =
         IF x \in Span(c, c + Len(s)) THEN s[x - c + 1]
         ELSE IF x \in Span(c, c + size) THEN "raw"
         ELSE IF x \in Span(b, t) THEN "moved" ELSE mem.slot[x]
  BY <1>3, <1>7, <1>8, <1>9
<1> QED
  BY <1>1, <1>7, <1>10 DEF Filled, k

LEMMA FilledMore ==
  ASSUME NEW b, NEW t, NEW e, NEW s, NEW c, NEW size, Room(b, t, e, s, c, size),
         NEW m, NEW w, Filled(m, b, t, c, size, w), NEW vs \in Seq(Alive), Len(w) + Len(vs) <= size
  PROVE  Filled(Construct(m, c + Len(w), vs), b, t, c, size, w \o vs)
<1> DEFINE at == c + Len(w)
           k == Construct(m, at, vs)
           z == w \o vs
<1>1. c \in Nat /\ size \in Nat /\ w \in Seq(Alive) /\ Clean(m) /\ vs \in Seq(Slots)
  BY SlotsDiffer DEF Room, Filled
<1>2. \A x \in Address : m.slot[x] =
        IF x \in Span(c, at) THEN w[x - c + 1]
        ELSE IF x \in Span(c, c + size) THEN "raw"
        ELSE IF x \in Span(b, t) THEN "moved" ELSE mem.slot[x]
  BY DEF Filled
<1>3. at \in Nat /\ at = c + Len(w)
  BY <1>1
<1>4. \A x \in Span(c, c + size) : x \in Address
  BY DEF Room
<1> HIDE DEF at
<1>5. \A x \in Span(at, at + Len(vs)) : x \in Span(c, c + size) /\ x \notin Span(c, at)
  BY <1>1, <1>3 DEF Span
<1>6. \A x \in Span(at, at + Len(vs)) : x \in Address /\ m.slot[x] = "raw"
  BY <1>2, <1>4, <1>5
<1>7. Clean(k) /\ \A x \in Address : k.slot[x] = IF x \in Span(at, at + Len(vs)) THEN vs[x - at + 1] ELSE m.slot[x]
  BY <1>1, <1>3, <1>6, ConstructIs
<1> HIDE DEF k
<1>8. z \in Seq(Alive) /\ Len(z) = Len(w) + Len(vs) /\ \A i \in 1 .. Len(w) : z[i] = w[i]
  BY <1>1, ConcatIs
<1>9. \A i \in Len(w) + 1 .. Len(w) + Len(vs) : z[i] = vs[i - Len(w)]
  BY <1>1, ConcatIs
<1> HIDE DEF z
<1>10. ASSUME NEW x \in Address
       PROVE  k.slot[x] =
                IF x \in Span(c, c + Len(z)) THEN z[x - c + 1]
                ELSE IF x \in Span(c, c + size) THEN "raw"
                ELSE IF x \in Span(b, t) THEN "moved" ELSE mem.slot[x]
  <2>1. CASE x \in Span(at, at + Len(vs))
    <3>1. x \in Int /\ at <= x /\ x < at + Len(vs) /\ Len(w) \in Nat /\ Len(vs) \in Nat
      BY <1>1, <1>3, <2>1 DEF Span
    <3>2. x \in Span(c, c + Len(z))
      BY <1>1, <1>3, <1>8, <3>1 DEF Span
    <3>3. x - c + 1 \in Len(w) + 1 .. Len(w) + Len(vs) /\ (x - c + 1) - Len(w) = x - at + 1
      BY <1>1, <1>3, <3>1
    <3>4. z[x - c + 1] = vs[(x - c + 1) - Len(w)]
      BY <1>9, <3>3
    <3>5. k.slot[x] = vs[x - at + 1]
      BY <1>7, <2>1
    <3> QED
      BY <3>2, <3>3, <3>4, <3>5
  <2>2. CASE x \in Span(c, at)
    <3>1. x \in Span(c, c + Len(z)) /\ x \notin Span(at, at + Len(vs)) /\ x - c + 1 \in 1 .. Len(w)
      BY <1>1, <1>3, <1>8, <2>2 DEF Span
    <3> QED
      BY <1>2, <1>7, <1>8, <2>2, <3>1
  <2>3. CASE x \notin Span(at, at + Len(vs)) /\ x \notin Span(c, at)
    <3>1. x \notin Span(c, c + Len(z))
      BY <1>1, <1>3, <1>8, <2>3 DEF Span
    <3> QED
      BY <1>2, <1>7, <2>3, <3>1
  <2> QED
    BY <2>1, <2>2, <2>3
<1>11. Len(z) <= size
  BY <1>8
<1>12. Filled(k, b, t, c, size, z)
  BY <1>7, <1>8, <1>10, <1>11 DEF Filled
<1> QED
  BY <1>12 DEF k, z, at

\* As Filled, with a gap behind the first i elements.
Spread(m, b, t, c, size, s, i, gap) ==
  /\ Clean(m) /\ i \in Nat /\ gap \in Nat /\ i <= Len(s) /\ Len(s) + gap <= size
  /\ \A x \in Address : m.slot[x] =
       IF x \in Span(c, c + i) THEN s[x - c + 1]
       ELSE IF x \in Span(c + i + gap, c + gap + Len(s)) THEN s[x - c - gap + 1]
       ELSE IF x \in Span(c, c + size) THEN "raw"
       ELSE IF x \in Span(b, t) THEN "moved" ELSE mem.slot[x]

LEMMA MovedApart ==
  ASSUME NEW b, NEW t, NEW e, NEW s, NEW c, NEW size, Room(b, t, e, s, c, size),
         NEW m, Clean(m), \A x \in Address : m.slot[x] = IF x \in Span(c, c + size) THEN "raw" ELSE mem.slot[x],
         NEW i \in Nat, NEW gap \in Nat, i <= Len(s), Len(s) + gap <= size,
         NEW pos, pos = b + i, NEW to, to = c + i + gap
  PROVE  Spread(UninitializedMove(UninitializedMove(m, b, pos, c), pos, t, to), b, t, c, size, s, i, gap)
<1> DEFINE h == UninitializedMove(m, b, pos, c)
           k == UninitializedMove(h, pos, t, to)
<1>1. /\ b \in Nat /\ t \in Nat /\ b <= t /\ s \in Seq(Alive) /\ Len(s) = t - b
      /\ c \in Nat /\ size \in Nat
  BY DEF Room
<1>2. \A x \in Span(b, t) : x \in Address /\ mem.slot[x] = s[x - b + 1] /\ mem.slot[x] \in Alive
  BY DEF Room
<1>3. \A x \in Span(c, c + size) : x \in Address /\ x \notin Span(b, t)
  BY Apart DEF Room
<1>4. \A x \in Span(b, t) : x \in Address /\ m.slot[x] = s[x - b + 1] /\ m.slot[x] \in Alive
  BY <1>2, <1>3
<1>5. pos \in Nat /\ b <= pos /\ pos <= t /\ pos - b = i /\ to \in Nat
  BY <1>1
<1>6. \A x \in Span(b, pos) : x \in Span(b, t)
  BY <1>1, <1>5 DEF Span
<1>7. \A x \in Span(c, c + (pos - b)) : x \in Span(c, c + size)
  BY <1>1, <1>5 DEF Span
<1>8. \A x \in Span(b, pos) : x \in Address /\ m.slot[x] \in Alive
  BY <1>4, <1>6
<1>9. \A x \in Span(c, c + (pos - b)) : x \in Address /\ m.slot[x] = "raw"
  BY <1>3, <1>7
<1>10. Clean(h) /\ \A x \in Address : h.slot[x] =
         IF x \in Span(c, c + (pos - b)) THEN m.slot[b + (x - c)]
         ELSE IF x \in Span(b, pos) THEN "moved" ELSE m.slot[x]
  <2>1. b \in Int /\ pos \in Int /\ c \in Int /\ b <= pos
    BY <1>1, <1>5
  <2> QED
    BY <1>8, <1>9, <2>1, UninitializedMoveIs
<1> HIDE DEF h
<1>11. \A x \in Span(pos, t) : x \in Span(b, t) /\ x \notin Span(b, pos)
  BY <1>1, <1>5 DEF Span
<1>12. \A x \in Span(pos, t) : x \in Address /\ h.slot[x] = s[x - b + 1] /\ h.slot[x] \in Alive
  BY <1>3, <1>4, <1>7, <1>10, <1>11
<1>13. \A x \in Span(to, to + (t - pos)) : x \in Span(c, c + size) /\ x \notin Span(c, c + (pos - b))
  BY <1>1, <1>5 DEF Span
<1>14. \A x \in Span(to, to + (t - pos)) : x \in Address /\ h.slot[x] = "raw"
  BY <1>3, <1>6, <1>10, <1>13
<1>15. Clean(k) /\ \A x \in Address : k.slot[x] =
         IF x \in Span(to, to + (t - pos)) THEN h.slot[pos + (x - to)]
         ELSE IF x \in Span(pos, t) THEN "moved" ELSE h.slot[x]
  <2>1. t \in Int /\ pos \in Int /\ to \in Int /\ pos <= t
    BY <1>1, <1>5
  <2> QED
    BY <1>10, <1>12, <1>14, <2>1, UninitializedMoveIs
<1> HIDE DEF k
<1>16. ASSUME NEW x \in Address
       PROVE  k.slot[x] =
                IF x \in Span(c, c + i) THEN s[x - c + 1]
                ELSE IF x \in Span(c + i + gap, c + gap + Len(s)) THEN s[x - c - gap + 1]
                ELSE IF x \in Span(c, c + size) THEN "raw"
                ELSE IF x \in Span(b, t) THEN "moved" ELSE mem.slot[x]
  <2>1. x \in Span(c, c + i) <=> x \in Span(c, c + (pos - b))
    BY <1>5
  <2>2. x \in Span(c + i + gap, c + gap + Len(s)) <=> x \in Span(to, to + (t - pos))
    BY <1>1, <1>5 DEF Span
  <2>3. CASE x \in Span(c, c + (pos - b))
    <3> DEFINE y == b + (x - c)
    <3>0. x \in Int /\ c <= x /\ x < c + (pos - b)
      BY <1>1, <1>5, <2>3 DEF Span
    <3>1. y \in Int /\ b <= y /\ y < t /\ y - b + 1 = x - c + 1
      BY <1>1, <1>5, <3>0
    <3> HIDE DEF y
    <3>2. m.slot[y] = s[x - c + 1]
      <4>1. y \in Span(b, t)
        BY <1>1, <3>1 DEF Span
      <4>2. m.slot[y] = s[y - b + 1]
        BY <1>4, <4>1
      <4> QED
        BY <3>1, <4>2
    <3>3. x \notin Span(to, to + (t - pos)) /\ x \notin Span(pos, t)
      BY <1>3, <1>7, <1>11, <1>13, <2>3
    <3> QED
      BY <1>10, <1>15, <2>1, <2>3, <3>2, <3>3 DEF y
  <2>4. CASE x \in Span(to, to + (t - pos))
    <3> DEFINE y == pos + (x - to)
    <3>0. x \in Int /\ to <= x /\ x < to + (t - pos)
      BY <1>1, <1>5, <2>4 DEF Span
    <3>1. y \in Int /\ pos <= y /\ y < t /\ y - b + 1 = x - c - gap + 1
      BY <1>1, <1>5, <3>0
    <3> HIDE DEF y
    <3>2. h.slot[y] = s[x - c - gap + 1]
      <4>1. y \in Span(pos, t)
        BY <1>1, <1>5, <3>1 DEF Span
      <4>2. h.slot[y] = s[y - b + 1]
        BY <1>12, <4>1
      <4> QED
        BY <3>1, <4>2
    <3> QED
      BY <1>13, <1>15, <2>1, <2>2, <2>4, <3>2 DEF y
  <2>5. CASE x \notin Span(c, c + (pos - b)) /\ x \notin Span(to, to + (t - pos)) /\ x \in Span(b, t)
    <3>1. x \in Span(b, pos) \/ x \in Span(pos, t)
      BY <1>1, <1>5, <2>5 DEF Span
    <3> QED
      BY <1>3, <1>10, <1>15, <2>1, <2>2, <2>5, <3>1
  <2>6. CASE x \notin Span(c, c + (pos - b)) /\ x \notin Span(to, to + (t - pos)) /\ x \notin Span(b, t)
    BY <1>6, <1>10, <1>11, <1>15, <2>1, <2>2, <2>6
  <2> QED
    BY <2>3, <2>4, <2>5, <2>6
<1>17. Spread(k, b, t, c, size, s, i, gap)
  BY <1>15, <1>16 DEF Spread
<1> QED
  BY <1>17 DEF k, h

\* w is s with t before what lies at i.
WithInsertion(w, s, i, t) ==
  /\ w \in Seq(Alive) /\ Len(w) = Len(s) + Len(t)
  /\ \A k \in 1 .. i : w[k] = s[k]
  /\ \A k \in i + 1 .. i + Len(t) : w[k] = t[k - i]
  /\ \A k \in i + Len(t) + 1 .. Len(s) + Len(t) : w[k] = s[k - Len(t)]

LEMMA InsertionIs ==
  ASSUME NEW s \in Seq(Alive), NEW t \in Seq(Alive), NEW i \in Nat, i <= Len(s)
  PROVE  WithInsertion(Splice(s, i, i, t), s, i, t)
<1>1. PICK j \in Nat : j = i
  OBVIOUS
<1> DEFINE z == Splice(s, i, j, t)
<1>2. i <= j /\ j <= Len(s)
  BY <1>1
<1>3. Spliced(z, s, i, j, t)
  BY <1>2, SpliceIs
<1>4. z = Splice(s, i, i, t)
  BY <1>1
<1> HIDE DEF z
<1>5. /\ z \in Seq(Alive) /\ Len(z) = Len(s) - (j - i) + Len(t)
      /\ \A k \in 1 .. i : z[k] = s[k]
      /\ \A k \in i + 1 .. i + Len(t) : z[k] = t[k - i]
      /\ \A k \in i + Len(t) + 1 .. Len(s) - (j - i) + Len(t) : z[k] = s[k - Len(t) + (j - i)]
  BY <1>3 DEF Spliced
<1>6. Len(z) = Len(s) + Len(t)
  BY <1>1, <1>5
<1>7. \A k \in i + Len(t) + 1 .. Len(s) + Len(t) : z[k] = s[k - Len(t)]
  BY <1>1, <1>5
<1>8. WithInsertion(z, s, i, t)
  BY <1>5, <1>6, <1>7 DEF WithInsertion
<1> QED
  BY <1>4, <1>8

LEMMA GapFilled ==
  ASSUME NEW b, NEW t, NEW e, NEW s, NEW c, NEW size, Room(b, t, e, s, c, size),
         NEW i, NEW gap, NEW m, Spread(m, b, t, c, size, s, i, gap),
         NEW vs \in Seq(Alive), Len(vs) = gap, NEW at, at = c + i
  PROVE  Filled(Construct(m, at, vs), b, t, c, size, Splice(s, i, i, vs))
<1> DEFINE k == Construct(m, at, vs)
           w == Splice(s, i, i, vs)
<1>1. /\ c \in Nat /\ size \in Nat /\ s \in Seq(Alive) /\ i \in Nat /\ gap \in Nat /\ i <= Len(s)
      /\ Len(s) + gap <= size /\ at \in Nat
  BY DEF Room, Spread
<1>2. Clean(m) /\ vs \in Seq(Slots)
  BY SlotsDiffer DEF Spread
<1>3. \A x \in Address : m.slot[x] =
        IF x \in Span(c, c + i) THEN s[x - c + 1]
        ELSE IF x \in Span(c + i + gap, c + gap + Len(s)) THEN s[x - c - gap + 1]
        ELSE IF x \in Span(c, c + size) THEN "raw"
        ELSE IF x \in Span(b, t) THEN "moved" ELSE mem.slot[x]
  BY DEF Spread
<1>4. \A x \in Span(c, c + size) : x \in Address
  BY DEF Room
<1>5. \A x \in Span(at, at + Len(vs)) :
        x \in Span(c, c + size) /\ x \notin Span(c, c + i) /\ x \notin Span(c + i + gap, c + gap + Len(s))
  BY <1>1 DEF Span
<1>6. \A x \in Span(at, at + Len(vs)) : x \in Address /\ m.slot[x] = "raw"
  BY <1>3, <1>4, <1>5
<1>7. Clean(k) /\ \A x \in Address : k.slot[x] = IF x \in Span(at, at + Len(vs)) THEN vs[x - at + 1] ELSE m.slot[x]
  <2>1. at \in Int
    BY <1>1
  <2> QED
    BY <1>2, <1>6, <2>1, ConstructIs
<1> HIDE DEF k
<1>20. WithInsertion(w, s, i, vs)
  BY <1>1, InsertionIs
<1> HIDE DEF w
<1>8. w \in Seq(Alive)
  BY <1>20 DEF WithInsertion
<1>9. Len(w) = Len(s) + Len(vs)
  BY <1>20 DEF WithInsertion
<1>10. \A p \in 1 .. i : w[p] = s[p]
  BY <1>20 DEF WithInsertion
<1>11. \A p \in i + 1 .. i + Len(vs) : w[p] = vs[p - i]
  BY <1>20 DEF WithInsertion
<1>12. \A p \in i + Len(vs) + 1 .. Len(s) + Len(vs) : w[p] = s[p - Len(vs)]
  BY <1>20 DEF WithInsertion
<1>13. Len(w) = Len(s) + gap /\ \A p \in i + gap + 1 .. Len(s) + gap : w[p] = s[p - gap]
  BY <1>1, <1>9, <1>12
<1>14. ASSUME NEW x \in Address
       PROVE  k.slot[x] =
                IF x \in Span(c, c + Len(w)) THEN w[x - c + 1]
                ELSE IF x \in Span(c, c + size) THEN "raw"
                ELSE IF x \in Span(b, t) THEN "moved" ELSE mem.slot[x]
  <2>1. CASE x \in Span(c, c + i)
    <3>1. x \in Span(c, c + Len(w)) /\ x \notin Span(at, at + Len(vs)) /\ x - c + 1 \in 1 .. i
      BY <1>1, <1>13, <2>1, SMTT(30) DEF Span
    <3> QED
      BY <1>3, <1>7, <1>10, <2>1, <3>1
  <2>2. CASE x \in Span(at, at + Len(vs))
    <3>1. x \in Int /\ c + i <= x /\ x < c + i + gap
      BY <1>1, <2>2 DEF Span
    <3>2. x \in Span(c, c + Len(w))
      BY <1>1, <1>13, <3>1 DEF Span
    <3>3. x - c + 1 \in i + 1 .. i + Len(vs) /\ (x - c + 1) - i = x - at + 1
      BY <1>1, <3>1
    <3>4. w[x - c + 1] = vs[(x - c + 1) - i]
      BY <1>11, <3>3
    <3>5. k.slot[x] = vs[x - at + 1]
      BY <1>7, <2>2
    <3> QED
      BY <3>2, <3>3, <3>4, <3>5
  <2>3. CASE x \in Span(c + i + gap, c + gap + Len(s))
    <3>1. x \in Int /\ c + i + gap <= x /\ x < c + gap + Len(s)
      BY <1>1, <2>3 DEF Span
    <3>2. x \in Span(c, c + Len(w)) /\ x \notin Span(c, c + i) /\ x \notin Span(at, at + Len(vs))
      BY <1>1, <1>13, <3>1 DEF Span
    <3>3. x - c + 1 \in i + gap + 1 .. Len(s) + gap /\ (x - c + 1) - gap = x - c - gap + 1
      BY <1>1, <3>1
    <3>4. w[x - c + 1] = s[(x - c + 1) - gap]
      BY <1>13, <3>3
    <3>5. k.slot[x] = s[x - c - gap + 1]
      BY <1>3, <1>7, <2>3, <3>2
    <3> QED
      BY <3>2, <3>3, <3>4, <3>5
  <2>4. CASE /\ x \notin Span(c, c + i) /\ x \notin Span(at, at + Len(vs))
             /\ x \notin Span(c + i + gap, c + gap + Len(s))
    <3> DEFINE n == Len(s)
    <3>1. n \in Nat /\ Len(w) = n + gap /\ i <= n
      BY <1>1, <1>13
    <3>2. x \notin Span(c + i + gap, c + gap + n)
      BY <2>4
    <3> HIDE DEF n
    <3>3. x \notin Span(c, c + Len(w))
      BY <1>1, <2>4, <3>1, <3>2 DEF Span
    <3> QED
      BY <1>3, <1>7, <2>4, <3>3
  <2> QED
    BY <2>1, <2>2, <2>3, <2>4
<1>15. Len(w) <= size
  BY <1>1, <1>13
<1>16. Filled(k, b, t, c, size, w)
  BY <1>7, <1>8, <1>14, <1>15 DEF Filled
<1> QED
  BY <1>16 DEF k, w

\* What the mover has left is destroyed, and the old allocation is returned.
LEMMA Emptied ==
  ASSUME NEW b, NEW t, NEW e, NEW s, NEW c, NEW size, Room(b, t, e, s, c, size),
         NEW m, NEW w, Filled(m, b, t, c, size, w),
         NEW d, Clean(d), \A x \in Address : d.slot[x] = IF x \in Span(b, t) THEN "raw" ELSE m.slot[x],
         NEW a, a.begin = b, a.end = e, b = Null => e = Null
  PROVE  /\ Clean(Deallocate(d, a))
         /\ \A x \in Address : Deallocate(d, a).slot[x] =
              IF x \in Span(c, c + Len(w)) THEN w[x - c + 1]
              ELSE IF x \in Span(c, c + size) THEN "raw"
              ELSE IF x \in Span(b, e) THEN "free" ELSE mem.slot[x]
<1> DEFINE k == Deallocate(d, a)
<1>1. /\ b \in Nat /\ t \in Nat /\ e \in Nat /\ b <= t /\ t <= e /\ c \in Nat /\ size \in Nat
      /\ Len(w) \in Nat /\ Len(w) <= size
  BY DEF Room, Filled
<1>2. \A x \in Span(t, e) : x \in Address /\ mem.slot[x] = "raw"
  BY DEF Room
<1>3. \A x \in Span(b, t) : x \in Address
  BY DEF Room
<1>4. \A x \in Address : m.slot[x] =
        IF x \in Span(c, c + Len(w)) THEN w[x - c + 1]
        ELSE IF x \in Span(c, c + size) THEN "raw"
        ELSE IF x \in Span(b, t) THEN "moved" ELSE mem.slot[x]
  BY DEF Filled
<1>5. \A x \in Span(c, c + size) : x \notin Span(b, t) /\ x \notin Span(t, e) /\ x \notin Span(b, e)
  BY Apart
<1>6. \A x \in Span(c, c + Len(w)) : x \in Span(c, c + size)
  BY <1>1 DEF Span
<1>7. ASSUME NEW x \in Span(b, e) PROVE x \in Address /\ d.slot[x] = "raw"
  <2>1. x \in Span(b, t) \/ (x \in Span(t, e) /\ x \notin Span(b, t))
    BY <1>1 DEF Span
  <2> QED
    BY <1>2, <1>3, <1>4, <1>5, <1>6, <2>1
<1>8. Clean(k) /\ \A x \in Address : k.slot[x] = IF x \in Span(b, e) THEN "free" ELSE d.slot[x]
  <2>1. a.begin \in Int /\ a.end \in Int /\ (a.begin = Null => a.end = Null)
    BY <1>1
  <2>2. \A x \in Span(a.begin, a.end) : x \in Address /\ d.slot[x] = "raw"
    BY <1>7
  <2> QED
    BY <2>1, <2>2, DeallocateIs
<1> HIDE DEF k
<1>9. \A x : x \in Span(b, t) => x \in Span(b, e)
  BY <1>1 DEF Span
<1>10. \A x \in Address : k.slot[x] =
         IF x \in Span(c, c + Len(w)) THEN w[x - c + 1]
         ELSE IF x \in Span(c, c + size) THEN "raw"
         ELSE IF x \in Span(b, e) THEN "free" ELSE mem.slot[x]
  BY <1>4, <1>5, <1>6, <1>8, <1>9
<1> QED
  BY <1>8, <1>10 DEF k

LEMMA PlacedApart ==
  ASSUME Good(mem, arr, want), NEW n \in Arrays, Spare = {"raw"}, NEW size \in 0 .. MaxCap, Size(arr[n]) <= size
  PROVE  /\ Room(arr[n].begin, arr[n].last, arr[n].end, want[n], Placed(mem, size).begin, size)
         /\ Clean(AllocateMemory(mem, size))
         /\ \A x \in Address : AllocateMemory(mem, size).slot[x] =
              IF x \in Span(Placed(mem, size).begin, Placed(mem, size).begin + size) THEN "raw" ELSE mem.slot[x]
<1> DEFINE b == arr[n].begin
           l == arr[n].last
           e == arr[n].end
           s == want[n]
           c == Placed(mem, size).begin
           k == AllocateMemory(mem, size)
<1>1. /\ b \in Nat /\ l \in Nat /\ e \in Nat /\ b <= l /\ l <= e
      /\ s \in Seq(Alive) /\ Len(s) = l - b
  BY ArrayIs
<1>2. /\ \A x \in Span(b, l) : x \in Address /\ mem.slot[x] = s[x - b + 1] /\ mem.slot[x] \in Alive
      /\ \A x \in Span(l, e) : x \in Address /\ mem.slot[x] = "raw"
  BY ArrayIs
<1>3. Len(s) <= size
  BY <1>1 DEF Size
<1>4. Base(c) /\ \A x \in Span(c, c + MaxCap) : mem.slot[x] = "free"
  BY AllocatedIs
<1>5. Clean(k) /\ \A x \in Address : k.slot[x] = IF x \in Span(c, Placed(mem, size).end) THEN "raw" ELSE mem.slot[x]
  BY AllocatedIs
<1>6. Placed(mem, size).end = c + size
  BY AllocatedIs
<1> HIDE DEF b, l, e, s, c, k
<1>7. c \in Nat /\ MaxCap \in Nat /\ size \in Nat /\ size <= MaxCap
      /\ \A x \in Int : c <= x /\ x <= c + MaxCap => x \in Address
  BY <1>4, BaseIs, MemoryAssumption
<1>8. ASSUME NEW x \in Span(c, c + size) PROVE x \in Address /\ mem.slot[x] = "free"
  <2>1. x \in Int /\ c <= x /\ x < c + size
    BY <1>7 DEF Span
  <2>2. x \in Span(c, c + MaxCap) /\ x <= c + MaxCap
    BY <1>7, <2>1 DEF Span
  <2> QED
    BY <1>4, <1>7, <2>1, <2>2
<1>9. Room(b, l, e, s, c, size)
  BY <1>1, <1>2, <1>3, <1>7, <1>8 DEF Room
<1>10. \A x \in Address : k.slot[x] = IF x \in Span(c, c + size) THEN "raw" ELSE mem.slot[x]
  BY <1>5, <1>6
<1> QED
  BY <1>5, <1>9, <1>10 DEF b, l, e, s, c, k

\* The array owns the new allocation and nothing else.
LEMMA Relocated ==
  ASSUME Good(mem, arr, want), NEW n \in Arrays, NEW size \in 0 .. MaxCap, kind # "limited",
         NEW t, NEW s, Room(arr[n].begin, t, arr[n].end, s, Placed(mem, size).begin, size),
         NEW m, NEW w, Filled(m, arr[n].begin, t, Placed(mem, size).begin, size, w),
         Spare = {"raw"} \/ Len(w) = size,
         NEW d, Clean(d), \A x \in Address : d.slot[x] = IF x \in Span(arr[n].begin, t) THEN "raw" ELSE m.slot[x],
         NEW last, last = Placed(mem, size).begin + Len(w)
  PROVE  Good(Deallocate(d, arr[n]), [arr EXCEPT ![n] = OfChunk(Placed(mem, size), last)], [want EXCEPT ![n] = w])
<1> DEFINE b == arr[n].begin
           e == arr[n].end
           c == Placed(mem, size).begin
           k == Deallocate(d, arr[n])
           r == OfChunk(Placed(mem, size), last)
<1>1. b = Null => e = Null
  BY ArrayIs
<1>2. /\ Clean(k)
      /\ \A x \in Address : k.slot[x] =
           IF x \in Span(c, c + Len(w)) THEN w[x - c + 1]
           ELSE IF x \in Span(c, c + size) THEN "raw"
           ELSE IF x \in Span(b, e) THEN "free" ELSE mem.slot[x]
  BY <1>1, Emptied
<1>3. Base(c) /\ \A x \in Span(c, c + MaxCap) : mem.slot[x] = "free"
  BY AllocatedIs
<1>4. Placed(mem, size).end = c + size
  BY AllocatedIs
<1>5. r = [begin |-> c, end |-> c + size, last |-> last]
  BY <1>4 DEF OfChunk
<1>6. w \in Seq(Alive) /\ Len(w) \in Nat /\ Len(w) <= size /\ size \in Nat /\ size <= MaxCap /\ MaxCap \in Nat
  BY MemoryAssumption DEF Filled
<1>7. last = c + Len(w)
  OBVIOUS
<1> HIDE DEF b, e, c, k, r
<1>8. c \in Nat /\ \A x \in Int : c <= x /\ x <= c + MaxCap => x \in Address
  BY <1>3, BaseIs
<1>9. r \in [begin : Nat, end : Nat, last : Nat] /\ r.begin = c /\ r.end = c + size /\ r.last = last
  BY <1>5, <1>6, <1>7, <1>8
<1>10. r.begin <= r.last /\ r.last <= r.end /\ r.end <= r.begin + MaxCap /\ Len(w) = r.last - r.begin
  BY <1>6, <1>7, <1>8, <1>9
<1>11. \A x \in Span(c, c + Len(w)) : x \in Span(c, c + size) /\ x \in Address
  BY <1>6, <1>8 DEF Span
<1>12. ASSUME NEW x \in Address, x \notin Span(r.begin, r.end)
       PROVE  k.slot[x] = IF x \in Span(b, e) THEN "free" ELSE mem.slot[x]
  BY <1>2, <1>9, <1>11, <1>12
<1>13. ASSUME NEW x \in Span(r.begin, r.last) PROVE k.slot[x] = w[x - r.begin + 1]
  BY <1>2, <1>7, <1>9, <1>11
<1>14. ASSUME NEW x \in Span(r.last, r.end) PROVE k.slot[x] \in Spare
  <2>1. x \in Int /\ last <= x /\ x < c + size
    BY <1>6, <1>7, <1>8, <1>9 DEF Span
  <2>2. x \in Address /\ x \in Span(c, c + size) /\ x \notin Span(c, c + Len(w))
    BY <1>6, <1>7, <1>8, <2>1 DEF Span
  <2>3. Len(w) # size
    BY <1>6, <1>7, <1>8, <2>1
  <2> QED
    BY <1>2, <2>2, <2>3
<1>15. \A x \in Span(r.begin, r.begin + MaxCap) : mem.slot[x] = "free"
  BY <1>3, <1>9
<1>16. Base(r.begin)
  BY <1>3, <1>9
<1>17. Moves(mem, arr[n], k, r, w)
  BY <1>6, <1>9, <1>10, <1>12, <1>13, <1>14, <1>15, <1>16 DEF Moves, b, e
<1>18. Good(k, [arr EXCEPT ![n] = r], [want EXCEPT ![n] = w])
  BY <1>2, <1>17, InNewPlace
<1> QED
  BY <1>18 DEF k, r

\* Destroying what the mover has left, in one piece and in two.
LEMMA Vacated ==
  ASSUME NEW b, NEW t, NEW e, NEW s, NEW c, NEW size, Room(b, t, e, s, c, size),
         NEW m, NEW w, Filled(m, b, t, c, size, w)
  PROVE  /\ Clean(Destroy(m, b, t))
         /\ \A x \in Address : Destroy(m, b, t).slot[x] = IF x \in Span(b, t) THEN "raw" ELSE m.slot[x]
         /\ \A x \in Span(b, t) : x \in Address /\ m.slot[x] \in Alive
<1>1. b \in Int /\ t \in Int /\ Len(w) \in Nat /\ Len(w) <= size /\ c \in Nat /\ size \in Nat
  BY DEF Room, Filled
<1>2. \A x \in Span(c, c + size) : x \notin Span(b, t)
  BY Apart
<1>3. \A x \in Span(c, c + Len(w)) : x \in Span(c, c + size)
  BY <1>1 DEF Span
<1>4. \A x \in Span(b, t) : x \in Address /\ m.slot[x] = "moved"
  BY <1>2, <1>3 DEF Room, Filled
<1>5. Clean(m)
  BY DEF Filled
<1>6. \A x \in Span(b, t) : x \in Address /\ m.slot[x] \in Alive
  BY <1>4, SlotsDiffer
<1> QED
  BY <1>1, <1>5, <1>6, DestroyIs

LEMMA VacatedTwice ==
  ASSUME NEW b, NEW t, NEW e, NEW s, NEW c, NEW size, Room(b, t, e, s, c, size),
         NEW m, NEW w, Filled(m, b, t, c, size, w), NEW pos \in Nat, b <= pos, pos <= t
  PROVE  /\ Clean(Destroy(Destroy(m, b, pos), pos, t))
         /\ \A x \in Address : Destroy(Destroy(m, b, pos), pos, t).slot[x] =
              IF x \in Span(b, t) THEN "raw" ELSE m.slot[x]
<1> DEFINE h == Destroy(m, b, pos)
           k == Destroy(h, pos, t)
<1>1. b \in Nat /\ t \in Nat /\ Clean(m)
  BY DEF Room, Filled
<1>2. \A x \in Span(b, t) : x \in Address /\ m.slot[x] \in Alive
  BY Vacated
<1>3. \A x : /\ x \in Span(b, pos) => x \in Span(b, t)
             /\ x \in Span(pos, t) => x \in Span(b, t) /\ x \notin Span(b, pos)
             /\ x \in Span(b, t) => x \in Span(b, pos) \/ x \in Span(pos, t)
  BY <1>1 DEF Span
<1>4. Clean(h) /\ \A x \in Address : h.slot[x] = IF x \in Span(b, pos) THEN "raw" ELSE m.slot[x]
  <2>1. \A x \in Span(b, pos) : x \in Address /\ m.slot[x] \in Alive
    BY <1>2, <1>3
  <2> QED
    BY <1>1, <2>1, DestroyIs
<1> HIDE DEF h
<1>5. Clean(k) /\ \A x \in Address : k.slot[x] = IF x \in Span(pos, t) THEN "raw" ELSE h.slot[x]
  <2>1. \A x \in Span(pos, t) : x \in Address /\ h.slot[x] \in Alive
    BY <1>2, <1>3, <1>4
  <2> QED
    BY <1>1, <1>4, <2>1, DestroyIs
<1> HIDE DEF k
<1>6. \A x \in Address : k.slot[x] = IF x \in Span(b, t) THEN "raw" ELSE m.slot[x]
  BY <1>3, <1>4, <1>5
<1> QED
  BY <1>5, <1>6 DEF k, h

LEMMA ExpandOneIs ==
  ASSUME NEW m, NEW a, NEW size, NEW news, NEW lo, NEW hi, Placed(m, size).begin \in Nat
  PROVE  ChunkExpand(m, a, size, <<Move(lo, hi, 0)>>, news) =
           Deallocate(Destroy(ConstructAll(UninitializedMove(AllocateMemory(m, size), lo, hi, Placed(m, size).begin),
                                           Placed(m, size).begin, news), lo, hi), a)
<1> DEFINE p == Move(lo, hi, 0)
           c == Placed(m, size).begin
<1>1. p.lo = lo /\ p.hi = hi /\ c + p.to = c
  BY DEF Move
<1>2. ChunkExpand(m, a, size, <<p>>, news) =
        Deallocate(DestroyAll(ConstructAll(MoveAll(AllocateMemory(m, size), c, <<p>>), c, news), <<p>>), a)
  BY DEF ChunkExpand
<1> HIDE DEF p, c
<1>3. MoveAll(AllocateMemory(m, size), c, <<p>>) = UninitializedMove(AllocateMemory(m, size), lo, hi, c)
  BY <1>1, MoveAllOne
<1> DEFINE d == ConstructAll(UninitializedMove(AllocateMemory(m, size), lo, hi, c), c, news)
<1>4. ChunkExpand(m, a, size, <<p>>, news) = Deallocate(DestroyAll(d, <<p>>), a)
  BY <1>2, <1>3
<1> HIDE DEF d
<1>5. DestroyAll(d, <<p>>) = Destroy(d, lo, hi)
  BY <1>1, DestroyAllOne
<1> QED
  BY <1>4, <1>5 DEF d, p, c

LEMMA ExpandTwoIs ==
  ASSUME NEW m, NEW a, NEW size, NEW news, NEW lo, NEW pos, NEW hi, NEW to, Placed(m, size).begin \in Nat
  PROVE  ChunkExpand(m, a, size, <<Move(lo, pos, 0), Move(pos, hi, to)>>, news) =
           Deallocate(Destroy(Destroy(
             ConstructAll(UninitializedMove(UninitializedMove(AllocateMemory(m, size), lo, pos, Placed(m, size).begin),
                                            pos, hi, Placed(m, size).begin + to),
                          Placed(m, size).begin, news), lo, pos), pos, hi), a)
<1> DEFINE p == Move(lo, pos, 0)
           q == Move(pos, hi, to)
           c == Placed(m, size).begin
<1>1. p.lo = lo /\ p.hi = pos /\ c + p.to = c /\ q.lo = pos /\ q.hi = hi /\ q.to = to
  BY DEF Move
<1>2. ChunkExpand(m, a, size, <<p, q>>, news) =
        Deallocate(DestroyAll(ConstructAll(MoveAll(AllocateMemory(m, size), c, <<p, q>>), c, news), <<p, q>>), a)
  BY DEF ChunkExpand
<1> HIDE DEF p, q, c
<1> DEFINE h == UninitializedMove(UninitializedMove(AllocateMemory(m, size), lo, pos, c), pos, hi, c + to)
<1>3. MoveAll(AllocateMemory(m, size), c, <<p, q>>) = h
  BY <1>1, MoveAllTwo
<1> HIDE DEF h
<1> DEFINE d == ConstructAll(h, c, news)
<1>4. ChunkExpand(m, a, size, <<p, q>>, news) = Deallocate(DestroyAll(d, <<p, q>>), a)
  BY <1>2, <1>3
<1> HIDE DEF d
<1>5. DestroyAll(d, <<p, q>>) = Destroy(Destroy(d, lo, pos), pos, hi)
  BY <1>1, DestroyAllTwo
<1> QED
  BY <1>4, <1>5 DEF d, h, p, q, c

LEMMA NotLimited ==
  ASSUME Spare = {"raw"}
  PROVE  kind \notin {"limited", "buffer"}
BY SlotsDiffer DEF Spare

\* An array that moves to a larger allocation and gets vs behind its elements.
LEMMA ExpandedBy ==
  ASSUME Good(mem, arr, want), NEW n \in Arrays, Spare = {"raw"}, NEW size \in 0 .. MaxCap,
         NEW new, new.to = Size(arr[n]), NEW vs \in Seq(Alive), Size(arr[n]) + Len(vs) <= size,
         Worth(UninitializedMove(AllocateMemory(mem, size), arr[n].begin, arr[n].last, Placed(mem, size).begin), new) = vs,
         NEW last, last = Placed(mem, size).begin + (Size(arr[n]) + Len(vs))
  PROVE  Good(ChunkExpand(mem, arr[n], size, <<Move(arr[n].begin, arr[n].last, 0)>>, <<new>>),
              [arr EXCEPT ![n] = OfChunk(Placed(mem, size), last)], [want EXCEPT ![n] = want[n] \o vs])
<1> DEFINE b == arr[n].begin
           t == arr[n].last
           e == arr[n].end
           s == want[n]
           c == Placed(mem, size).begin
           m == AllocateMemory(mem, size)
           h == UninitializedMove(m, b, t, c)
           k == Construct(h, c + Len(s), vs)
           d == Destroy(k, b, t)
           w == s \o vs
<1>1. b \in Nat /\ t \in Nat /\ s \in Seq(Alive) /\ Size(arr[n]) = Len(s)
  BY ArrayIs DEF Size
<1>2. Len(s) <= size
  BY <1>1
<1>3. Room(b, t, e, s, c, size) /\ Clean(m)
  BY <1>1, <1>2, PlacedApart
<1>4. \A x \in Address : m.slot[x] = IF x \in Span(c, c + size) THEN "raw" ELSE mem.slot[x]
  BY <1>1, <1>2, PlacedApart
<1>5. c \in Nat
  BY <1>3 DEF Room
<1>6. ChunkExpand(mem, arr[n], size, <<Move(b, t, 0)>>, <<new>>) = Deallocate(Destroy(ConstructAll(h, c, <<new>>), b, t), arr[n])
  BY <1>5, ExpandOneIs
<1>7. ConstructAll(h, c, <<new>>) = k
  <2>1. ConstructAll(h, c, <<new>>) = Construct(h, c + new.to, Worth(h, new))
    BY ConstructAllOne, Zenon
  <2> QED
    BY <1>1, <2>1
<1> HIDE DEF m
<1>8. Filled(h, b, t, c, size, s)
  <2> HIDE DEF b, t, e, s, c
  <2> QED
    BY <1>3, <1>4, MovedOut
<1> HIDE DEF h
<1>9. Filled(k, b, t, c, size, w)
  <2> HIDE DEF b, t, e, s, c
  <2>1. Len(s) + Len(vs) <= size
    BY <1>1
  <2> QED
    BY <1>3, <1>8, <2>1, FilledMore
<1> HIDE DEF k
<1>10. Clean(d) /\ \A x \in Address : d.slot[x] = IF x \in Span(b, t) THEN "raw" ELSE k.slot[x]
  <2> HIDE DEF b, t, e, s, c, w
  <2> QED
    BY <1>3, <1>9, Vacated
<1>11. last = c + Len(w)
  <2>1. Len(w) = Len(s) + Len(vs)
    BY <1>1
  <2> QED
    BY <1>1, <2>1
<1>12. kind # "limited"
  BY NotLimited
<1> HIDE DEF d, w, s, t
<1>13. Good(Deallocate(d, arr[n]), [arr EXCEPT ![n] = OfChunk(Placed(mem, size), last)], [want EXCEPT ![n] = w])
  BY <1>3, <1>9, <1>10, <1>11, <1>12, Relocated
<1> QED
  BY <1>6, <1>7, <1>13 DEF d, w, s, t

LEMMA Reserved ==
  ASSUME Good(mem, arr, want), NEW n \in Arrays, Spare = {"raw"}, NEW size \in 0 .. MaxCap, Size(arr[n]) <= size,
         NEW last, last = Placed(mem, size).begin + Size(arr[n])
  PROVE  Good(ChunkExpand(mem, arr[n], size, <<Move(arr[n].begin, arr[n].last, 0)>>, <<>>),
              [arr EXCEPT ![n] = OfChunk(Placed(mem, size), last)], [want EXCEPT ![n] = want[n]])
<1> DEFINE b == arr[n].begin
           t == arr[n].last
           e == arr[n].end
           s == want[n]
           c == Placed(mem, size).begin
           m == AllocateMemory(mem, size)
           k == UninitializedMove(m, b, t, c)
           d == Destroy(k, b, t)
<1>1. b \in Nat /\ t \in Nat /\ s \in Seq(Alive) /\ Size(arr[n]) = Len(s)
  BY ArrayIs DEF Size
<1>3. Room(b, t, e, s, c, size) /\ Clean(m)
  BY PlacedApart
<1>4. \A x \in Address : m.slot[x] = IF x \in Span(c, c + size) THEN "raw" ELSE mem.slot[x]
  BY PlacedApart
<1>5. c \in Nat
  BY <1>3 DEF Room
<1>6. ChunkExpand(mem, arr[n], size, <<Move(b, t, 0)>>, <<>>) = Deallocate(Destroy(ConstructAll(k, c, <<>>), b, t), arr[n])
  BY <1>5, ExpandOneIs
<1>7. ConstructAll(k, c, <<>>) = k
  BY ConstructAllNone
<1> HIDE DEF m
<1>8. Filled(k, b, t, c, size, s)
  <2> HIDE DEF b, t, e, s, c
  <2> QED
    BY <1>3, <1>4, MovedOut
<1> HIDE DEF k
<1>10. Clean(d) /\ \A x \in Address : d.slot[x] = IF x \in Span(b, t) THEN "raw" ELSE k.slot[x]
  <2> HIDE DEF b, t, e, s, c
  <2> QED
    BY <1>3, <1>8, Vacated
<1>11. last = c + Len(s)
  BY <1>1
<1>12. kind # "limited"
  BY NotLimited
<1> HIDE DEF d, s, t
<1>13. Good(Deallocate(d, arr[n]), [arr EXCEPT ![n] = OfChunk(Placed(mem, size), last)], [want EXCEPT ![n] = s])
  BY <1>3, <1>8, <1>10, <1>11, <1>12, Relocated
<1> QED
  BY <1>6, <1>7, <1>13 DEF d, s, t

-----------------------------------------------------------------------------
(* DynamicArray: operations that let an array grow *)

LEMMA GrownIs ==
  ASSUME NEW size \in 1 .. MaxLen
  PROVE  GrownSize(size) \in 0 .. MaxCap /\ size <= GrownSize(size) /\ GrownSize(size) \in Nat
<1>1. GrownSize(size) \in size .. MaxCap
  BY RoomAssumption
<1> QED
  BY <1>1

LEMMA WorthOfNew ==
  ASSUME NEW m, NEW to, NEW vs
  PROVE  Worth(m, New(to, vs)) = vs /\ New(to, vs).to = to
<1>1. DOMAIN New(to, vs) = {"to", "vs"}
  BY DEF New
<1>2. New(to, vs).vs = vs /\ New(to, vs).to = to
  BY DEF New
<1> QED
  BY <1>1, <1>2 DEF Worth

LEMMA WorthOfNewFrom ==
  ASSUME NEW m, NEW to, NEW a
  PROVE  Worth(m, NewFrom(to, a)) = <<m.slot[a]>> /\ NewFrom(to, a).to = to
<1>1. DOMAIN NewFrom(to, a) = {"to", "ref"}
  BY DEF NewFrom
<1>2. NewFrom(to, a).ref = a /\ NewFrom(to, a).to = to
  BY DEF NewFrom
<1> QED
  BY <1>1, <1>2 DEF Worth

LEMMA ExpandKeeps ==
  ASSUME Good(mem, arr, want), NEW n \in Arrays, Spare = {"raw"}, NEW size \in 0 .. MaxLen, Expand(n, size)
  PROVE  Good(mem', arr', want')
<1>1. CASE size <= AllocationSize(arr[n])
  BY <1>1, ExpandInPlace
<1>2. CASE ~ (size <= AllocationSize(arr[n]))
  <2> DEFINE had == Size(arr[n])
             vs == Inits(size - had)
             g == GrownSize(size)
             new == New(had, vs)
             last == Placed(mem, g).begin + size
  <2>1. had \in Nat /\ had < size /\ size \in 1 .. MaxLen
    <3>1. arr[n].begin \in Nat /\ arr[n].last \in Nat /\ arr[n].begin <= arr[n].last
      BY ArrayIs
    <3>2. had \in Nat
      BY <3>1 DEF Size
    <3>3. had < size
      BY DEF Expand
    <3> QED
      BY <3>2, <3>3, RoomAssumption
  <2>2. g \in 0 .. MaxCap /\ size <= g /\ g \in Nat
    BY <2>1, GrownIs
  <2>3. vs \in Seq(Alive) /\ Len(vs) = size - had
    <3>1. size - had \in Nat
      BY <2>1
    <3> QED
      BY <3>1, InitsIs
  <2>4. /\ mem' = ChunkExpand(mem, arr[n], g, <<Move(arr[n].begin, arr[n].last, 0)>>, <<new>>)
        /\ arr' = [arr EXCEPT ![n] = OfChunk(Placed(mem, g), last)]
        /\ want' = [want EXCEPT ![n] = want[n] \o vs]
    BY <1>2 DEF Expand, Becomes, AllocationExpand, Moved
  <2>5. /\ Worth(UninitializedMove(AllocateMemory(mem, g), arr[n].begin, arr[n].last, Placed(mem, g).begin), new) = vs
        /\ new.to = had
    BY WorthOfNew
  <2>6. last = Placed(mem, g).begin + (had + Len(vs)) /\ had + Len(vs) <= g
    <3>1. had + Len(vs) = size
      BY <2>1, <2>3
    <3> QED
      BY <2>2, <3>1
  <2> HIDE DEF vs, g, new, last
  <2> QED
    BY <2>2, <2>3, <2>4, <2>5, <2>6, ExpandedBy
<1> QED
  BY <1>1, <1>2

LEMMA ArrayResizeKeeps ==
  ASSUME Good(mem, arr, want), NEW n \in Arrays, Spare = {"raw"}, NEW size \in 0 .. MaxLen, Resize(n, size)
  PROVE  Good(mem', arr', want') /\ misuse' = misuse
<1>1. CASE Shrink(n, size)
  BY <1>1, ShrinkKeeps DEF Resize
<1>2. CASE Expand(n, size)
  BY <1>2, ExpandKeeps DEF Resize
<1> QED
  BY <1>1, <1>2 DEF Resize

LEMMA ReserveKeeps ==
  ASSUME Good(mem, arr, want), NEW n \in Arrays, Spare = {"raw"}, NEW size \in 0 .. MaxLen, Reserve(n, size)
  PROVE  Good(mem', arr', want') /\ misuse' = misuse
<1> DEFINE had == Size(arr[n])
           g == GrownSize(size)
           last == Placed(mem, g).begin + had
<1>1. had \in Nat /\ had < size /\ size \in 1 .. MaxLen
  <2>1. arr[n].begin \in Nat /\ arr[n].last \in Nat /\ arr[n].end \in Nat /\ arr[n].begin <= arr[n].last /\ arr[n].last <= arr[n].end
    BY ArrayIs
  <2>2. had \in Nat /\ had < size
    BY <2>1 DEF Size, Reserve, AllocationSize
  <2> QED
    BY <2>2, RoomAssumption
<1>2. g \in 0 .. MaxCap /\ size <= g /\ g \in Nat
  BY <1>1, GrownIs
<1>3. /\ mem' = ChunkExpand(mem, arr[n], g, <<Move(arr[n].begin, arr[n].last, 0)>>, <<>>)
      /\ arr' = [arr EXCEPT ![n] = OfChunk(Placed(mem, g), last)]
      /\ want' = [want EXCEPT ![n] = want[n]]
      /\ misuse' = misuse
  BY DEF Reserve, Becomes, AllocationExpand, Moved
<1>4. had <= g
  BY <1>1, <1>2
<1>5. Good(ChunkExpand(mem, arr[n], g, <<Move(arr[n].begin, arr[n].last, 0)>>, <<>>),
           [arr EXCEPT ![n] = OfChunk(Placed(mem, g), last)], [want EXCEPT ![n] = want[n]])
  <2> HIDE DEF g
  <2> QED
    BY <1>2, <1>4, Reserved
<1> QED
  BY <1>3, <1>5

\* emplace_back that grows: what the element is worth when it is constructed.
LEMMA EmplaceInNewPlace ==
  ASSUME Good(mem, arr, want), NEW n \in Arrays, Spare = {"raw"}, Full(n), Size(arr[n]) < MaxLen,
         NEW new, new.to = Size(arr[n]), NEW v \in Alive,
         Worth(UninitializedMove(AllocateMemory(mem, GrownSize(Size(arr[n]) + 1)), arr[n].begin, arr[n].last,
                                 Placed(mem, GrownSize(Size(arr[n]) + 1)).begin), new) = <<v>>,
         NEW w, EmplaceBack(n, new, w)
  PROVE  Good(mem', arr', [want EXCEPT ![n] = Append(want[n], v)]) /\ want' = [want EXCEPT ![n] = Append(want[n], w)]
<1> DEFINE had == Size(arr[n])
           g == GrownSize(had + 1)
           vs == <<v>>
           last == Placed(mem, g).begin + (had + 1)
<1>1. had \in Nat /\ had + 1 \in 1 .. MaxLen
  <2>1. arr[n].begin \in Nat /\ arr[n].last \in Nat /\ arr[n].begin <= arr[n].last
    BY ArrayIs
  <2>2. had \in Nat
    BY <2>1 DEF Size
  <2> QED
    BY <2>2, RoomAssumption
<1>2. g \in 0 .. MaxCap /\ had + 1 <= g
  BY <1>1, GrownIs
<1>3. /\ mem' = ChunkExpand(mem, arr[n], g, <<Move(arr[n].begin, arr[n].last, 0)>>, <<new>>)
      /\ arr' = [arr EXCEPT ![n] = OfChunk(Placed(mem, g), last)]
      /\ want' = [want EXCEPT ![n] = Append(want[n], w)]
  BY DEF EmplaceBack, Becomes, AllocationExpand, Moved
<1>4. vs \in Seq(Alive) /\ Len(vs) = 1
  OBVIOUS
<1>5. last = Placed(mem, g).begin + (had + Len(vs)) /\ had + Len(vs) <= g
  BY <1>2, <1>4
<1>6. want[n] \o vs = Append(want[n], v)
  <2>1. want[n] \in Seq(Alive)
    BY ArrayIs
  <2> QED
    BY <2>1
<1>7. Worth(UninitializedMove(AllocateMemory(mem, g), arr[n].begin, arr[n].last, Placed(mem, g).begin), new) = vs
  OBVIOUS
<1> HIDE DEF g, vs, last
<1>8. Good(ChunkExpand(mem, arr[n], g, <<Move(arr[n].begin, arr[n].last, 0)>>, <<new>>),
           [arr EXCEPT ![n] = OfChunk(Placed(mem, g), last)], [want EXCEPT ![n] = want[n] \o vs])
  BY <1>2, <1>4, <1>5, <1>7, ExpandedBy
<1> QED
  BY <1>3, <1>6, <1>8

LEMMA ArrayPushBackKeeps ==
  ASSUME Good(mem, arr, want), NEW n \in Arrays, Spare = {"raw"}, Size(arr[n]) < MaxLen,
         NEW v \in Alive, PushBack(n, v)
  PROVE  Good(mem', arr', want') /\ misuse' = misuse
<1> DEFINE new == New(Size(arr[n]), <<v>>)
<1>1. new.to = Size(arr[n]) /\ \A m : Worth(m, new) = <<v>>
  BY WorthOfNew
<1>2. EmplaceBack(n, new, v) /\ misuse' = misuse
  BY DEF PushBack
<1> HIDE DEF new
<1>3. CASE Full(n)
  <2>1. Worth(UninitializedMove(AllocateMemory(mem, GrownSize(Size(arr[n]) + 1)), arr[n].begin, arr[n].last,
                                Placed(mem, GrownSize(Size(arr[n]) + 1)).begin), new) = <<v>>
    BY <1>1
  <2>2. Good(mem', arr', [want EXCEPT ![n] = Append(want[n], v)])
    BY <1>1, <1>2, <1>3, <2>1, EmplaceInNewPlace
  <2>3. want' = [want EXCEPT ![n] = Append(want[n], v)]
    BY <1>1, <1>2, <1>3, <2>1, EmplaceInNewPlace
  <2> QED
    BY <1>2, <2>2, <2>3
<1>4. CASE ~ Full(n)
  BY <1>1, <1>2, <1>4, EmplaceInPlace
<1> QED
  BY <1>2, <1>3, <1>4

LEMMA SameSequence ==
  ASSUME NEW S, NEW s \in Seq(S), NEW t \in Seq(S), Len(s) = Len(t), \A i \in 1 .. Len(s) : s[i] = t[i]
  PROVE  s = t
OBVIOUS

\* What an array holds is the sequence it owns.
LEMMA HeldIsOwned ==
  ASSUME NEW m, NEW ar, NEW wn, Good(m, ar, wn), NEW n \in Arrays
  PROVE  Held(m, ar[n].begin, ar[n].last) = wn[n]
<1> DEFINE b == ar[n].begin
           l == ar[n].last
           s == wn[n]
           h == Held(m, b, l)
<1>1. b \in Nat /\ l \in Nat /\ b <= l /\ s \in Seq(Alive) /\ Len(s) = l - b
  BY ArrayIs
<1>2. \A x \in Span(b, l) : x \in Address /\ m.slot[x] = s[x - b + 1]
  BY ArrayIs
<1> HIDE DEF b, l, s
<1>3. Clean(m)
  BY DEF Good
<1>4. h \in Seq(Slots) /\ Len(h) = l - b /\ \A i \in 1 .. l - b : h[i] = m.slot[b + i - 1]
  <2>1. b \in Int /\ l \in Int /\ \A x \in Span(b, l) : x \in Address
    BY <1>1, <1>2
  <2> QED
    BY <1>1, <1>3, <2>1, HeldIs
<1> HIDE DEF h
<1>5. ASSUME NEW i \in 1 .. l - b PROVE h[i] = s[i]
  <2>1. b + i - 1 \in Span(b, l) /\ (b + i - 1) - b + 1 = i
    BY <1>1 DEF Span
  <2> QED
    BY <1>2, <1>4, <2>1
<1>6. s \in Seq(Slots)
  BY <1>1, SlotsDiffer
<1>7. h = s
  BY <1>1, <1>4, <1>5, <1>6, SameSequence
<1> QED
  BY <1>7 DEF h, b, l, s

\* The elements from the i-th on have been moved from.
Spoiled(s, i) == [k \in 1 .. Len(s) |-> IF k <= i THEN s[k] ELSE "moved"]

LEMMA SpoiledIs ==
  ASSUME NEW s \in Seq(Alive), NEW i \in Nat
  PROVE  /\ Spoiled(s, i) \in Seq(Alive) /\ Len(Spoiled(s, i)) = Len(s)
         /\ \A k \in 1 .. Len(s) : Spoiled(s, i)[k] = IF k <= i THEN s[k] ELSE "moved"
<1>1. Spoiled(s, i) \in [1 .. Len(s) -> Alive]
  BY SlotsDiffer DEF Spoiled
<1>2. Len(s) \in Nat
  OBVIOUS
<1> QED
  BY <1>1, <1>2 DEF Spoiled

\* Taking the elements from the i-th on leaves the array with a spoiled sequence.
LEMMA TakenInPlace ==
  ASSUME Good(mem, arr, want), NEW n \in Arrays, NEW i \in Nat, i <= Size(arr[n])
  PROVE  /\ Good(Taken(mem, arr[n].begin + i, arr[n].last), arr, [want EXCEPT ![n] = Spoiled(want[n], i)])
         /\ \A x \in Address : Taken(mem, arr[n].begin + i, arr[n].last).slot[x] =
              IF x \in Span(arr[n].begin + i, arr[n].last) THEN "moved" ELSE mem.slot[x]
<1> DEFINE b == arr[n].begin
           l == arr[n].last
           e == arr[n].end
           s == want[n]
           lo == b + i
           k == Taken(mem, lo, l)
           w == Spoiled(s, i)
<1>1. /\ b \in Nat /\ l \in Nat /\ e \in Nat /\ b <= l /\ l <= e
      /\ s \in Seq(Alive) /\ Len(s) = l - b
  BY ArrayIs
<1>2. /\ \A x \in Span(b, l) : x \in Address /\ mem.slot[x] = s[x - b + 1] /\ mem.slot[x] \in Alive
      /\ \A x \in Span(l, e) : x \in Address /\ mem.slot[x] \in Spare
  BY ArrayIs
<1>3. i <= l - b /\ Clean(mem)
  BY DEF Size, Good
<1> HIDE DEF b, l, e, s
<1>4. lo = b + i /\ lo \in Nat /\ lo <= l
  BY <1>1, <1>3
<1> HIDE DEF lo
<1>5. \A x \in Span(lo, l) : x \in Span(b, l)
  BY <1>1, <1>4 DEF Span
<1>6. Clean(k) /\ \A x \in Address : k.slot[x] = IF x \in Span(lo, l) THEN "moved" ELSE mem.slot[x]
  <2>1. \A x \in Span(lo, l) : x \in Address /\ mem.slot[x] \in Alive
    BY <1>2, <1>5
  <2> QED
    BY <1>1, <1>3, <1>4, <2>1, TakenIs
<1> HIDE DEF k
<1>7. w \in Seq(Alive) /\ Len(w) = l - b /\ \A p \in 1 .. l - b : w[p] = IF p <= i THEN s[p] ELSE "moved"
  BY <1>1, SpoiledIs
<1> HIDE DEF w
<1>8. ASSUME NEW x \in Address, x \notin Span(b, e) PROVE k.slot[x] = mem.slot[x]
  <2>1. x \notin Span(lo, l)
    BY <1>1, <1>4, <1>8 DEF Span
  <2> QED
    BY <1>6, <2>1
<1>9. ASSUME NEW x \in Span(b, l) PROVE k.slot[x] = w[x - b + 1]
  <2>1. x \in Int /\ b <= x /\ x < l /\ x - b + 1 \in 1 .. l - b /\ (x - b + 1 <= i <=> x < lo)
    BY <1>1, <1>4 DEF Span
  <2>2. x \in Span(lo, l) <=> ~ (x < lo)
    BY <1>1, <1>4, <2>1 DEF Span
  <2> QED
    BY <1>2, <1>6, <1>7, <2>1, <2>2
<1>10. ASSUME NEW x \in Span(l, e) PROVE k.slot[x] \in Spare
  <2>1. x \notin Span(lo, l)
    BY <1>1, <1>4 DEF Span
  <2> QED
    BY <1>2, <1>6, <2>1
<1>11. arr[n] \in [begin : Nat, end : Nat, last : Nat] /\ arr[n].begin = b /\ arr[n].end = e /\ arr[n].last = l
  BY ArrayIs DEF b, e, l
<1>12. Stays(mem, arr[n], k, arr[n], w)
  BY <1>1, <1>7, <1>8, <1>9, <1>10, <1>11 DEF Stays
<1>13. Good(k, [arr EXCEPT ![n] = arr[n]], [want EXCEPT ![n] = w])
  BY <1>6, <1>12, InPlace
<1>14. [arr EXCEPT ![n] = arr[n]] = arr
  BY DEF Good
<1> QED
  BY <1>6, <1>13, <1>14 DEF k, w, lo, b, l, s

\* When something is wrong with what n holds, the invariant asks for less.
LEMMA Misused ==
  ASSUME NEW n \in Arrays, NEW u \in Seq(Alive), NEW w \in Seq(Alive), want \in [Arrays -> Seq(Alive)],
         Good(mem', arr', [want EXCEPT ![n] = u]), want' = [want EXCEPT ![n] = w],
         NEW what \in Misuses, misuse' = {what}, kind' = kind, kind \in Kinds
  PROVE  ArraysTypeOK' /\ mem'.faults = {} /\ Held(mem', arr'[n].begin, arr'[n].last) = u /\ want'[n] = w
<1>1. mem'.slot \in [Address -> Slots] /\ mem'.faults = {} /\ arr' \in [Arrays -> [begin : Nat, end : Nat, last : Nat]]
  BY DEF Good, Clean
<1>2. want'[n] = w /\ \A o \in Arrays : want'[o] \in Seq(Alive)
  OBVIOUS
<1>3. ArraysTypeOK'
  BY <1>1, <1>2 DEF ArraysTypeOK, Slots
<1>4. Held(mem', arr'[n].begin, arr'[n].last) = [want EXCEPT ![n] = u][n]
  BY HeldIsOwned
<1> QED
  BY <1>1, <1>2, <1>3, <1>4

LEMMA EmptyRangeCosts ==
  ASSUME NEW n \in Arrays, NEW u \in Seq(Alive), NEW w \in Seq(Alive), mem'.faults = {},
         Held(mem', arr'[n].begin, arr'[n].last) = u, want'[n] = w, misuse' = {"empty range"},
         Len(u) = Len(w), NEW i \in 1 .. Len(w), u[i] = "moved", \A j \in 1 .. Len(w) : u[j] \in {w[j], "moved"}
  PROVE  CostOfMisuse'
BY DEF CostOfMisuse

LEMMA EmptyEraseCosts ==
  ASSUME Good(mem, arr, want), NEW n \in Arrays, Spare = {"raw"}, NEW i \in Nat, i < Size(arr[n]), Erase(n, i, i),
         kind' = kind, kind \in Kinds
  PROVE  misuse' = {"empty range"} /\ ArraysTypeOK' /\ CostOfMisuse'
<1> DEFINE b == arr[n].begin
           l == arr[n].last
           s == want[n]
           lo == b + i
           m == Taken(mem, lo, l)
           u == Spoiled(s, i)
           w == Splice(s, i, i, <<>>)
<1>1. b \in Nat /\ l \in Nat /\ b <= l /\ s \in Seq(Alive) /\ Len(s) = l - b
  BY ArrayIs
<1>2. i < l - b
  BY DEF Size
<1>3. misuse' = {"empty range"}
  BY DEF Erase
<1>4. l - (i - i) = l /\ arr[n].last - (i - i) = arr[n].last
  BY <1>1
<1>5. mem' = Destroy(m, l, l)
  BY <1>4 DEF Erase, Becomes, MoveAssign
<1>6. arr' = [arr EXCEPT ![n] = [arr[n] EXCEPT !.last = arr[n].last]] /\ want' = [want EXCEPT ![n] = w]
  BY <1>4 DEF Erase, Becomes
<1>7. arr' = arr
  <2>1. arr \in [Arrays -> [begin : Nat, end : Nat, last : Nat]]
    BY DEF Good
  <2>2. [arr[n] EXCEPT !.last = arr[n].last] = arr[n]
    BY <2>1
  <2> QED
    BY <1>6, <2>1, <2>2
<1>8. Good(m, arr, [want EXCEPT ![n] = u])
  <2>1. i <= Size(arr[n])
    BY <1>1, <1>2 DEF Size
  <2> QED
    BY <2>1, TakenInPlace
<1>9. w \in Seq(Alive) /\ Len(w) = l - b /\ \A k \in 1 .. l - b : w[k] = s[k]
  <2>1. PICK j \in Nat : j = i
    OBVIOUS
  <2>2. i <= j /\ j <= Len(s)
    BY <1>1, <1>2, <2>1
  <2> DEFINE z == Splice(s, i, j, <<>>)
  <2>3. WithoutPart(z, s, i, j)
    BY <1>1, <2>2, CutIs
  <2>7. w = z
    BY <2>1
  <2> HIDE DEF z
  <2>4. z \in Seq(Alive) /\ Len(z) = Len(s) - (j - i)
    BY <2>3 DEF WithoutPart
  <2>5. \A k \in 1 .. i : z[k] = s[k]
    BY <2>3 DEF WithoutPart
  <2>6. \A k \in i + 1 .. Len(s) - (j - i) : z[k] = s[k + (j - i)]
    BY <2>3 DEF WithoutPart
  <2> HIDE DEF z, w, b, l, s
  <2>8. Len(z) = l - b
    BY <1>1, <2>1, <2>4
  <2>9. \A k \in i + 1 .. l - b : z[k] = s[k]
    BY <1>1, <2>1, <2>6
  <2> QED
    BY <1>1, <2>4, <2>5, <2>7, <2>8, <2>9
<1>10. u \in Seq(Alive) /\ Len(u) = l - b /\ \A k \in 1 .. l - b : u[k] = IF k <= i THEN s[k] ELSE "moved"
  BY <1>1, SpoiledIs
<1> HIDE DEF u, w, m, b, l, s
<1>11. Good(mem', arr', [want EXCEPT ![n] = u])
  <2>1. Clean(m)
    BY <1>8 DEF Good
  <2>2. \A x : x \notin Span(l, l)
    BY <1>1 DEF Span
  <2>3. Clean(mem') /\ \A x \in Address : mem'.slot[x] = m.slot[x]
    BY <1>1, <1>5, <2>1, <2>2, DestroyIs
  <2>4. mem'.slot = m.slot /\ mem'.faults = m.faults
    BY <2>1, <2>3 DEF Clean
  <2> QED
    BY <1>7, <1>8, <2>3, <2>4 DEF Good, Holds
<1>12. ArraysTypeOK' /\ mem'.faults = {} /\ Held(mem', arr'[n].begin, arr'[n].last) = u /\ want'[n] = w
  <2>1. want \in [Arrays -> Seq(Alive)] /\ "empty range" \in Misuses
    BY DEF Good, Misuses
  <2> QED
    BY <1>3, <1>6, <1>9, <1>10, <1>11, <2>1, Misused
<1>13. PICK k \in 1 .. Len(w) : k = i + 1
  BY <1>1, <1>2, <1>9
<1>14. u[k] = "moved" /\ Len(u) = Len(w) /\ \A j \in 1 .. Len(w) : u[j] \in {w[j], "moved"}
  BY <1>1, <1>2, <1>9, <1>10, <1>13
<1>15. CostOfMisuse'
  BY <1>3, <1>9, <1>10, <1>12, <1>14, EmptyRangeCosts
<1> QED
  BY <1>3, <1>12, <1>15

\* A gap of ins slots behind the first i elements, the first taken of which hold what has been moved from.
Gap(m, b, l, t, pos, ins, taken) ==
  /\ Clean(m)
  /\ \A x \in Address : m.slot[x] =
       IF x \in Span(pos, pos + taken) THEN "moved"
       ELSE IF x \in Span(pos + taken, pos + ins) THEN "raw"
       ELSE IF x \in Span(pos + ins, l + ins) THEN t[x - ins - b + 1] ELSE mem.slot[x]

\* An array of the elements s that lies in [b, e), up to l.
Lies(b, l, e, s) ==
  /\ b \in Nat /\ l \in Nat /\ e \in Nat /\ b <= l /\ l <= e
  /\ s \in Seq(Alive) /\ Len(s) = l - b
  /\ \A x \in Span(b, l) : x \in Address /\ mem.slot[x] = s[x - b + 1] /\ mem.slot[x] \in Alive
  /\ \A x \in Span(l, e) : x \in Address /\ mem.slot[x] = "raw"

LEMMA ArrayLies ==
  ASSUME Good(mem, arr, want), NEW n \in Arrays, Spare = {"raw"}
  PROVE  Lies(arr[n].begin, arr[n].last, arr[n].end, want[n]) /\ Clean(mem)
<1> DEFINE b == arr[n].begin
           l == arr[n].last
           e == arr[n].end
           s == want[n]
<1>1. /\ b \in Nat /\ l \in Nat /\ e \in Nat /\ b <= l /\ l <= e
      /\ s \in Seq(Alive) /\ Len(s) = l - b
  BY ArrayIs
<1>2. /\ \A x \in Span(b, l) : x \in Address /\ mem.slot[x] = s[x - b + 1] /\ mem.slot[x] \in Alive
      /\ \A x \in Span(l, e) : x \in Address /\ mem.slot[x] = "raw"
  BY ArrayIs
<1>3. Clean(mem)
  BY DEF Good
<1> HIDE DEF b, l, e, s
<1>4. Lies(b, l, e, s)
  BY <1>1, <1>2 DEF Lies
<1> QED
  BY <1>3, <1>4 DEF b, l, e, s

LEMMA GapOpened ==
  ASSUME NEW b, NEW l, NEW e, NEW s, Lies(b, l, e, s), Clean(mem),
         NEW i \in Nat, i <= l - b, NEW ins \in Nat \ {0}, l + ins <= e,
         NEW taken \in Nat, taken = IF (l - b) - i < ins THEN (l - b) - i ELSE ins,
         NEW pos, pos = b + i, NEW p, p = l - taken, NEW q, q = p + ins, NEW to, to = pos + ins
  PROVE  Gap(MoveAssign(UninitializedMove(mem, p, l, q), pos, p, to), b, l, s, pos, ins, taken)
<1> DEFINE h == UninitializedMove(mem, p, l, q)
           k == MoveAssign(h, pos, p, to)
<1>1. /\ b \in Nat /\ l \in Nat /\ e \in Nat /\ b <= l /\ l <= e
      /\ s \in Seq(Alive) /\ Len(s) = l - b
  BY DEF Lies
<1>2. /\ \A x \in Span(b, l) : x \in Address /\ mem.slot[x] = s[x - b + 1] /\ mem.slot[x] \in Alive
      /\ \A x \in Span(l, e) : x \in Address /\ mem.slot[x] = "raw"
  BY DEF Lies
<1>3. /\ l + ins <= e /\ Clean(mem) /\ taken <= ins
      /\ pos = b + i /\ p = l - taken /\ q = p + ins /\ to = pos + ins
  OBVIOUS
<1>4. /\ pos \in Nat /\ p \in Nat /\ q \in Nat /\ to \in Nat /\ b <= pos /\ pos <= p /\ p <= l /\ l <= q
      /\ q + (l - p) = l + ins /\ to + (p - pos) = q /\ pos # to
      /\ (taken = ins /\ q = l) \/ (taken < ins /\ pos = p /\ pos + taken = l /\ q = to)
  BY <1>1, <1>3
<1>5. /\ \A x \in Span(p, l) : x \in Span(b, l)
      /\ \A x \in Span(q, q + (l - p)) : x \in Span(l, e)
  BY <1>1, <1>3, <1>4 DEF Span
<1>6. Clean(h) /\ \A x \in Address : h.slot[x] =
        IF x \in Span(q, q + (l - p)) THEN mem.slot[p + (x - q)]
        ELSE IF x \in Span(p, l) THEN "moved" ELSE mem.slot[x]
  <2>1. /\ \A x \in Span(p, l) : x \in Address /\ mem.slot[x] \in Alive
        /\ \A x \in Span(q, q + (l - p)) : x \in Address /\ mem.slot[x] = "raw"
    BY <1>2, <1>5
  <2>2. p \in Int /\ l \in Int /\ q \in Int /\ p <= l
    BY <1>1, <1>4
  <2> QED
    BY <1>3, <2>1, <2>2, UninitializedMoveIs
<1> HIDE DEF h
<1>7. ASSUME NEW x \in Span(b, l), x \notin Span(q, q + (l - p)) PROVE x \in Address /\ h.slot[x] \in Alive
  BY <1>2, <1>6, <1>7, SlotsDiffer
<1>8. \A x \in Span(pos, p) : x \in Span(b, l) /\ x \notin Span(q, q + (l - p)) /\ x \notin Span(p, l)
  BY <1>1, <1>4 DEF Span
<1>9. \A x \in Span(to, to + (p - pos)) : x \in Span(b, l) /\ x \notin Span(q, q + (l - p))
  BY <1>1, <1>3, <1>4 DEF Span
<1>10. Clean(k) /\ \A x \in Address : k.slot[x] =
         IF x \in Span(to, to + (p - pos)) THEN h.slot[pos + (x - to)]
         ELSE IF x \in Span(pos, p) THEN "moved" ELSE h.slot[x]
  <2>1. /\ \A x \in Span(pos, p) : x \in Address /\ h.slot[x] \in Alive
        /\ \A x \in Span(to, to + (p - pos)) : x \in Address /\ h.slot[x] \in Alive
    BY <1>7, <1>8, <1>9
  <2>2. p \in Int /\ pos \in Int /\ to \in Int /\ pos <= p /\ pos # to
    BY <1>4
  <2> QED
    BY <1>6, <2>1, <2>2, MoveAssignIs
<1> HIDE DEF k
<1>11. ASSUME NEW x \in Address
       PROVE  k.slot[x] =
                IF x \in Span(pos, pos + taken) THEN "moved"
                ELSE IF x \in Span(pos + taken, pos + ins) THEN "raw"
                ELSE IF x \in Span(pos + ins, l + ins) THEN s[x - ins - b + 1] ELSE mem.slot[x]
  <2>1. x \in Int
    BY AddressType
  <2>2. CASE x \in Span(pos, pos + taken)
    <3>1. x \notin Span(to, to + (p - pos)) /\ x \notin Span(q, q + (l - p)) /\ (x \in Span(pos, p) \/ x \in Span(p, l))
      BY <1>1, <1>3, <1>4, <2>1, <2>2 DEF Span
    <3> QED
      BY <1>6, <1>10, <2>2, <3>1
  <2>3. CASE x \in Span(pos + taken, pos + ins)
    <3>1. /\ x \notin Span(to, to + (p - pos)) /\ x \notin Span(q, q + (l - p)) /\ x \notin Span(pos, p)
          /\ x \notin Span(p, l) /\ x \in Span(l, e) /\ x \notin Span(pos, pos + taken)
      BY <1>1, <1>3, <1>4, <2>1, <2>3 DEF Span
    <3> QED
      BY <1>2, <1>6, <1>10, <2>3, <3>1
  <2>4. CASE x \in Span(pos + ins, l + ins)
    <3> DEFINE y == x - ins
    <3>1. pos + ins <= x /\ x < l + ins
      BY <1>1, <1>4, <2>1, <2>4 DEF Span
    <3>2. y \in Int /\ pos <= y /\ y < l /\ y - b + 1 = x - ins - b + 1
      BY <1>1, <1>4, <2>1, <3>1
    <3>3. x \notin Span(pos, pos + taken) /\ x \notin Span(pos + taken, pos + ins)
      BY <1>1, <1>3, <1>4, <2>1, <3>1 DEF Span
    <3>4. pos + (x - to) = y /\ p + (x - q) = y
      BY <1>1, <1>3, <1>4, <2>1
    <3> HIDE DEF y
    <3>5. y \in Span(b, l)
      BY <1>1, <1>4, <3>2 DEF Span
    <3>6. mem.slot[y] = s[x - ins - b + 1] /\ y \in Address
      <4>1. mem.slot[y] = s[y - b + 1] /\ y \in Address
        BY <1>2, <3>5
      <4> QED
        BY <3>2, <4>1
    <3>7. CASE x < q
      <4>1. x \in Span(to, to + (p - pos))
        BY <1>4, <2>1, <3>1, <3>7, <1>3 DEF Span
      <4>2. x - ins < p
        BY <1>1, <1>3, <1>4, <2>1, <3>7
      <4>3. y \in Span(pos, p)
        BY <1>4, <3>2, <4>2 DEF Span, y
      <4>4. h.slot[y] = mem.slot[y]
        BY <1>6, <1>8, <3>6, <4>3
      <4> QED
        BY <1>10, <2>4, <3>3, <3>4, <3>6, <4>1, <4>4
    <3>8. CASE q <= x
      <4>1. x \in Span(q, q + (l - p)) /\ x \notin Span(to, to + (p - pos)) /\ x \notin Span(pos, p)
        BY <1>1, <1>4, <2>1, <3>1, <3>8 DEF Span
      <4>2. h.slot[x] = mem.slot[y]
        BY <1>6, <3>4, <4>1
      <4> QED
        BY <1>10, <2>4, <3>3, <3>6, <4>1, <4>2
    <3> QED
      BY <1>4, <2>1, <3>7, <3>8
  <2>5. CASE /\ x \notin Span(pos, pos + taken) /\ x \notin Span(pos + taken, pos + ins)
             /\ x \notin Span(pos + ins, l + ins)
    <3>1. x < pos \/ l + ins <= x
      BY <1>1, <1>3, <1>4, <2>1, <2>5 DEF Span
    <3>2. x \notin Span(to, to + (p - pos)) /\ x \notin Span(q, q + (l - p)) /\ x \notin Span(pos, p) /\ x \notin Span(p, l)
      BY <1>1, <1>3, <1>4, <2>1, <3>1 DEF Span
    <3> QED
      BY <1>6, <1>10, <2>5, <3>2
  <2> QED
    BY <2>2, <2>3, <2>4, <2>5
<1>12. Gap(k, b, l, s, pos, ins, taken)
  BY <1>10, <1>11 DEF Gap
<1> QED
  BY <1>12 DEF k, h

\* t begins as s does and is as long; k is what m becomes when vs is written to pos.
Resembles(t, s, i) == t \in Seq(Alive) /\ Len(t) = Len(s) /\ \A p \in 1 .. i : t[p] = s[p]
Written(k, m, pos, vs) ==
  /\ vs \in Seq(Alive) /\ Clean(k)
  /\ \A x \in Address : k.slot[x] = IF x \in Span(pos, pos + Len(vs)) THEN vs[x - pos + 1] ELSE m.slot[x]

\* m holds w from b on, up to top.
Closed(m, b, top, w) ==
  /\ w \in Seq(Alive) /\ Len(w) = top - b
  /\ \A x \in Address : m.slot[x] = IF x \in Span(b, top) THEN w[x - b + 1] ELSE mem.slot[x]

LEMMA GapWrittenIs ==
  ASSUME NEW b, NEW l, NEW e, NEW s, Lies(b, l, e, s), NEW i \in Nat, i <= l - b, NEW t, Resembles(t, s, i),
         NEW pos, pos = b + i, NEW m, NEW taken \in Nat, NEW vs, Gap(m, b, l, t, pos, Len(vs), taken), taken <= Len(vs),
         NEW k, Written(k, m, pos, vs), NEW top, top = l + Len(vs)
  PROVE  Closed(k, b, top, Splice(t, i, i, vs))
<1> DEFINE w == Splice(t, i, i, vs)
           ins == Len(vs)
<1>0. vs \in Seq(Alive) /\ t \in Seq(Alive) /\ i <= Len(t)
  BY DEF Lies, Resembles, Written
<1>1. /\ b \in Nat /\ l \in Nat /\ b <= l /\ s \in Seq(Alive) /\ Len(s) = l - b /\ pos \in Nat /\ top \in Nat
      /\ ins \in Nat /\ taken <= ins /\ top = l + ins /\ Len(t) = l - b
  BY DEF Lies, Resembles, Written
<1>2. \A x \in Span(b, l) : mem.slot[x] = s[x - b + 1]
  BY DEF Lies
<1>3. \A x \in Address : m.slot[x] =
        IF x \in Span(pos, pos + taken) THEN "moved"
        ELSE IF x \in Span(pos + taken, pos + ins) THEN "raw"
        ELSE IF x \in Span(pos + ins, l + ins) THEN t[x - ins - b + 1] ELSE mem.slot[x]
  BY DEF Gap
<1>4. \A x \in Address : k.slot[x] = IF x \in Span(pos, pos + ins) THEN vs[x - pos + 1] ELSE m.slot[x]
  BY DEF Written
<1>15. WithInsertion(w, t, i, vs)
  BY <1>0, InsertionIs
<1> HIDE DEF w
<1>5. w \in Seq(Alive)
  BY <1>15, Zenon DEF WithInsertion
<1>6. Len(w) = Len(t) + Len(vs)
  BY <1>15, Zenon DEF WithInsertion
<1>7. \A p \in 1 .. i : w[p] = t[p]
  BY <1>15, Zenon DEF WithInsertion
<1>8. \A p \in i + 1 .. i + Len(vs) : w[p] = vs[p - i]
  BY <1>15, Zenon DEF WithInsertion
<1>9. \A p \in i + Len(vs) + 1 .. Len(t) + Len(vs) : w[p] = t[p - Len(vs)]
  BY <1>15, Zenon DEF WithInsertion
<1>10. \A p \in 1 .. i : w[p] = s[p]
  BY <1>7 DEF Resembles
<1>11. \A p \in i + ins + 1 .. (l - b) + ins : w[p] = t[p - ins]
  BY <1>1, <1>9
<1>12. \A p \in i + 1 .. i + ins : w[p] = vs[p - i]
  BY <1>8
<1>14. Len(w) = top - b
  BY <1>1, <1>6
<1> HIDE DEF ins
<1>13. ASSUME NEW x \in Address PROVE k.slot[x] = IF x \in Span(b, top) THEN w[x - b + 1] ELSE mem.slot[x]
  <2>1. x \in Int
    BY AddressType
  <2>2. CASE x \in Span(b, pos)
    <3>1. /\ x \notin Span(pos, pos + ins) /\ x \notin Span(pos, pos + taken) /\ x \notin Span(pos + taken, pos + ins)
          /\ x \notin Span(pos + ins, l + ins) /\ x \in Span(b, top) /\ x \in Span(b, l) /\ x - b + 1 \in 1 .. i
      BY <1>1, <2>1, <2>2 DEF Span
    <3> QED
      BY <1>2, <1>3, <1>4, <1>10, <3>1
  <2>3. CASE x \in Span(pos, pos + ins)
    <3>1. x \in Span(b, top) /\ x - b + 1 \in i + 1 .. i + ins /\ (x - b + 1) - i = x - pos + 1
      BY <1>1, <2>1, <2>3 DEF Span
    <3>2. w[x - b + 1] = vs[(x - b + 1) - i]
      BY <1>12, <3>1
    <3> QED
      BY <1>4, <2>3, <3>1, <3>2
  <2>4. CASE x \in Span(pos + ins, l + ins)
    <3>1. /\ x \notin Span(pos, pos + ins) /\ x \notin Span(pos, pos + taken) /\ x \notin Span(pos + taken, pos + ins)
          /\ x \in Span(b, top) /\ x - b + 1 \in i + ins + 1 .. (l - b) + ins /\ (x - b + 1) - ins = x - ins - b + 1
      BY <1>1, <2>1, <2>4 DEF Span
    <3>2. w[x - b + 1] = t[(x - b + 1) - ins]
      BY <1>11, <3>1
    <3> QED
      BY <1>3, <1>4, <2>4, <3>1, <3>2
  <2>5. CASE x \notin Span(b, pos) /\ x \notin Span(pos, pos + ins) /\ x \notin Span(pos + ins, l + ins)
    <3>1. x \notin Span(b, top) /\ x \notin Span(pos, pos + taken) /\ x \notin Span(pos + taken, pos + ins)
      BY <1>1, <2>1, <2>5 DEF Span
    <3> QED
      BY <1>3, <1>4, <2>5, <3>1
  <2> QED
    BY <2>2, <2>3, <2>4, <2>5
<1> QED
  BY <1>5, <1>13, <1>14 DEF w, Closed

\* An array whose gap has been filled.
LEMMA GapClosed ==
  ASSUME Good(mem, arr, want), NEW n \in Arrays, Spare = {"raw"}, NEW k, Clean(k), NEW w,
         NEW top \in Nat, arr[n].begin <= top, top <= arr[n].end, arr[n].last <= top,
         Closed(k, arr[n].begin, top, w)
  PROVE  Good(k, [arr EXCEPT ![n] = [arr[n] EXCEPT !.last = top]], [want EXCEPT ![n] = w])
<1> DEFINE b == arr[n].begin
           l == arr[n].last
           e == arr[n].end
           r == [arr[n] EXCEPT !.last = top]
<1>1. b \in Nat /\ l \in Nat /\ e \in Nat /\ b <= l /\ l <= e
  BY ArrayIs
<1>2. \A x \in Span(l, e) : x \in Address /\ mem.slot[x] \in Spare
  BY ArrayIs
<1>3. \A x \in Span(b, l) : x \in Address
  BY ArrayIs
<1>4. r \in [begin : Nat, end : Nat, last : Nat] /\ r.begin = b /\ r.end = e /\ r.last = top
  <2>1. arr[n] \in [begin : Nat, end : Nat, last : Nat]
    BY ArrayIs
  <2> QED
    BY <2>1
<1>5. /\ b <= top /\ l <= top /\ top <= e /\ w \in Seq(Alive) /\ Len(w) = top - b
      /\ \A x \in Address : k.slot[x] = IF x \in Span(b, top) THEN w[x - b + 1] ELSE mem.slot[x]
  BY DEF Closed
<1> HIDE DEF b, l, e, r
<1>6. ASSUME NEW x \in Address, x \notin Span(b, e) PROVE k.slot[x] = mem.slot[x]
  <2>1. x \notin Span(b, top)
    BY <1>1, <1>5, <1>6 DEF Span
  <2> QED
    BY <1>5, <2>1
<1>7. ASSUME NEW x \in Span(b, top) PROVE k.slot[x] = w[x - b + 1]
  <2>1. x \in Span(b, l) \/ x \in Span(l, e)
    BY <1>1, <1>5 DEF Span
  <2> QED
    BY <1>2, <1>3, <1>5, <2>1
<1>8. ASSUME NEW x \in Span(top, e) PROVE k.slot[x] \in Spare
  <2>1. x \in Span(l, e) /\ x \notin Span(b, top)
    BY <1>1, <1>5 DEF Span
  <2> QED
    BY <1>2, <1>5, <2>1
<1>9. Stays(mem, arr[n], k, r, w)
  BY <1>4, <1>5, <1>6, <1>7, <1>8 DEF Stays, b, e
<1>10. Good(k, [arr EXCEPT ![n] = r], [want EXCEPT ![n] = w])
  BY <1>9, InPlace
<1> QED
  BY <1>10 DEF r

\* The elements have moved to a new allocation, around vs.
LEMMA FilledApart ==
  ASSUME Good(mem, arr, want), NEW n \in Arrays, Spare = {"raw"}, NEW size \in 0 .. MaxCap,
         NEW i \in Nat, i <= Size(arr[n]), NEW vs \in Seq(Alive), Size(arr[n]) + Len(vs) <= size,
         NEW pos, pos = arr[n].begin + i, NEW to, to = i + Len(vs)
  PROVE  Filled(Construct(UninitializedMove(
                            UninitializedMove(AllocateMemory(mem, size), arr[n].begin, pos, Placed(mem, size).begin),
                            pos, arr[n].last, Placed(mem, size).begin + to),
                          Placed(mem, size).begin + i, vs),
                arr[n].begin, arr[n].last, Placed(mem, size).begin, size, Splice(want[n], i, i, vs))
<1> DEFINE b == arr[n].begin
           t == arr[n].last
           e == arr[n].end
           s == want[n]
           c == Placed(mem, size).begin
           m == AllocateMemory(mem, size)
           there == c + to
           at == c + i
           h == UninitializedMove(UninitializedMove(m, b, pos, c), pos, t, there)
           gap == Len(vs)
<1>1. b \in Nat /\ t \in Nat /\ s \in Seq(Alive) /\ Size(arr[n]) = Len(s)
  BY ArrayIs DEF Size
<1>2. Len(s) <= size /\ i <= Len(s) /\ Len(s) + gap <= size /\ gap \in Nat
  BY <1>1
<1>3. Room(b, t, e, s, c, size) /\ Clean(m)
  BY <1>1, <1>2, PlacedApart
<1>4. \A x \in Address : m.slot[x] = IF x \in Span(c, c + size) THEN "raw" ELSE mem.slot[x]
  BY <1>1, <1>2, PlacedApart
<1>5. c \in Nat
  BY <1>3 DEF Room
<1>6. pos = b + i
  OBVIOUS
<1>7. there = c + i + gap
  BY <1>2, <1>5
<1>8. at = c + i
  OBVIOUS
<1> HIDE DEF b, t, e, s, c, m, there, at, gap
<1>9. Spread(h, b, t, c, size, s, i, gap)
  BY <1>2, <1>3, <1>4, <1>6, <1>7, MovedApart
<1> HIDE DEF h
<1>10. vs \in Seq(Alive) /\ Len(vs) = gap
  BY DEF gap
<1>11. Filled(Construct(h, at, vs), b, t, c, size, Splice(s, i, i, vs))
  BY <1>3, <1>8, <1>9, <1>10, GapFilled
<1> QED
  BY <1>11 DEF b, t, e, s, c, m, there, at, h

LEMMA InsertedBy ==
  ASSUME Good(mem, arr, want), NEW n \in Arrays, Spare = {"raw"}, NEW size \in 0 .. MaxCap,
         NEW i \in Nat, i <= Size(arr[n]), NEW vs \in Seq(Alive), Size(arr[n]) + Len(vs) <= size,
         NEW pos, pos = arr[n].begin + i, NEW to, to = i + Len(vs),
         NEW last, last = Placed(mem, size).begin + (Size(arr[n]) + Len(vs))
  PROVE  Good(ChunkExpand(mem, arr[n], size, <<Move(arr[n].begin, pos, 0), Move(pos, arr[n].last, to)>>, <<New(i, vs)>>),
              [arr EXCEPT ![n] = OfChunk(Placed(mem, size), last)], [want EXCEPT ![n] = Splice(want[n], i, i, vs)])
<1> DEFINE b == arr[n].begin
           t == arr[n].last
           e == arr[n].end
           s == want[n]
           c == Placed(mem, size).begin
           h == UninitializedMove(UninitializedMove(AllocateMemory(mem, size), b, pos, c), pos, t, c + to)
           k == Construct(h, c + i, vs)
           d == Destroy(Destroy(k, b, pos), pos, t)
           w == Splice(s, i, i, vs)
<1>1. b \in Nat /\ t \in Nat /\ s \in Seq(Alive) /\ Size(arr[n]) = Len(s) /\ Len(s) = t - b
  BY ArrayIs DEF Size
<1>2. Len(s) <= size /\ i <= Len(s)
  BY <1>1
<1>3. Room(b, t, e, s, c, size)
  BY <1>1, <1>2, PlacedApart
<1>4. c \in Nat
  BY <1>3 DEF Room
<1>5. ChunkExpand(mem, arr[n], size, <<Move(b, pos, 0), Move(pos, t, to)>>, <<New(i, vs)>>) =
        Deallocate(Destroy(Destroy(ConstructAll(h, c, <<New(i, vs)>>), b, pos), pos, t), arr[n])
  BY <1>4, ExpandTwoIs
<1>6. Filled(k, b, t, c, size, w)
  BY FilledApart
<1> HIDE DEF h
<1>7. ConstructAll(h, c, <<New(i, vs)>>) = k
  <2> DEFINE new == New(i, vs)
  <2>1. Worth(h, new) = vs /\ new.to = i
    BY WorthOfNew
  <2> HIDE DEF new
  <2>2. ConstructAll(h, c, <<new>>) = Construct(h, c + new.to, Worth(h, new))
    BY ConstructAllOne, Zenon
  <2> QED
    BY <2>1, <2>2 DEF new
<1> HIDE DEF k
<1>8. pos \in Nat /\ b <= pos /\ pos <= t
  <2>1. pos = b + i
    OBVIOUS
  <2>2. b \in Nat /\ t \in Nat
    BY <1>1
  <2>3. i <= Size(arr[n]) /\ Size(arr[n]) = t - b
    BY DEF Size
  <2> HIDE DEF b, t, s
  <2>4. i <= t - b
    BY <2>3
  <2> QED
    BY <2>1, <2>2, <2>4
<1>9. Clean(d) /\ \A x \in Address : d.slot[x] = IF x \in Span(b, t) THEN "raw" ELSE k.slot[x]
  <2> HIDE DEF b, t, e, s, c, w
  <2> QED
    BY <1>3, <1>6, <1>8, VacatedTwice
<1>10. last = c + Len(w)
  <2>1. Len(w) = Len(s) + Len(vs)
    BY <1>1, <1>2, InsertionIs DEF WithInsertion
  <2> QED
    BY <1>1, <2>1
<1>11. kind # "limited"
  BY NotLimited
<1> HIDE DEF d, w, s, t
<1>12. Good(Deallocate(d, arr[n]), [arr EXCEPT ![n] = OfChunk(Placed(mem, size), last)], [want EXCEPT ![n] = w])
  BY <1>3, <1>6, <1>9, <1>10, <1>11, Relocated
<1> QED
  BY <1>5, <1>7, <1>12 DEF d, w, s, t

\* The same with us behind the last element.
LEMMA InsertedTwice ==
  ASSUME Good(mem, arr, want), NEW n \in Arrays, Spare = {"raw"}, NEW size \in 0 .. MaxCap,
         NEW i \in Nat, i <= Size(arr[n]), NEW vs \in Seq(Alive), NEW us \in Seq(Alive),
         Size(arr[n]) + Len(vs) + Len(us) <= size,
         NEW pos, pos = arr[n].begin + i, NEW to, to = i + Len(vs), NEW at, at = Size(arr[n]) + Len(vs),
         NEW last, last = Placed(mem, size).begin + (Size(arr[n]) + Len(vs) + Len(us))
  PROVE  Good(ChunkExpand(mem, arr[n], size, <<Move(arr[n].begin, pos, 0), Move(pos, arr[n].last, to)>>,
                          <<New(i, vs), New(at, us)>>),
              [arr EXCEPT ![n] = OfChunk(Placed(mem, size), last)], [want EXCEPT ![n] = Splice(want[n], i, i, vs) \o us])
<1> DEFINE b == arr[n].begin
           t == arr[n].last
           e == arr[n].end
           s == want[n]
           c == Placed(mem, size).begin
           h == UninitializedMove(UninitializedMove(AllocateMemory(mem, size), b, pos, c), pos, t, c + to)
           g == Construct(h, c + i, vs)
           k == Construct(g, c + at, us)
           d == Destroy(Destroy(k, b, pos), pos, t)
           w == Splice(s, i, i, vs)
           z == w \o us
<1>1. b \in Nat /\ t \in Nat /\ s \in Seq(Alive) /\ Size(arr[n]) = Len(s) /\ Len(s) = t - b
  BY ArrayIs DEF Size
<1>2. Len(s) <= size /\ i <= Len(s) /\ Size(arr[n]) + Len(vs) <= size
  BY <1>1, SMTT(30)
<1>3. Room(b, t, e, s, c, size)
  BY <1>1, <1>2, PlacedApart
<1>4. c \in Nat
  BY <1>3 DEF Room
<1>5. ChunkExpand(mem, arr[n], size, <<Move(b, pos, 0), Move(pos, t, to)>>, <<New(i, vs), New(at, us)>>) =
        Deallocate(Destroy(Destroy(ConstructAll(h, c, <<New(i, vs), New(at, us)>>), b, pos), pos, t), arr[n])
  BY <1>4, ExpandTwoIs
<1>6. Filled(g, b, t, c, size, w)
  BY <1>2, FilledApart
<1> HIDE DEF h
<1>7. ConstructAll(h, c, <<New(i, vs), New(at, us)>>) = k
  <2> DEFINE new == New(i, vs)
             more == New(at, us)
  <2>1. Worth(h, new) = vs /\ new.to = i
    BY WorthOfNew
  <2>2. Worth(g, more) = us /\ more.to = at
    BY WorthOfNew
  <2> HIDE DEF new, more
  <2>3. g = Construct(h, c + new.to, Worth(h, new))
    BY <2>1
  <2>4. ConstructAll(h, c, <<new, more>>) = Construct(g, c + more.to, Worth(g, more))
    <3> HIDE DEF g
    <3> QED
      BY <2>3, ConstructAllTwo
  <2> QED
    BY <2>2, <2>4 DEF new, more
<1> HIDE DEF g
<1>16. WithInsertion(w, s, i, vs)
  BY <1>1, <1>2, InsertionIs
<1> HIDE DEF w
<1>8. w \in Seq(Alive) /\ Len(w) = Len(s) + Len(vs)
  BY <1>16 DEF WithInsertion
<1>9. at = Len(w) /\ Len(w) + Len(us) <= size
  BY <1>1, <1>8
<1>10. Filled(k, b, t, c, size, z)
  <2> HIDE DEF b, t, e, s, c
  <2>1. k = Construct(g, c + Len(w), us)
    BY <1>9
  <2> HIDE DEF k
  <2>2. Len(w) + Len(us) <= size
    BY <1>9
  <2>3. Filled(Construct(g, c + Len(w), us), b, t, c, size, z)
    BY <1>3, <1>6, <2>2, FilledMore
  <2> QED
    BY <2>1, <2>3
<1> HIDE DEF k
<1>11. pos \in Nat /\ b <= pos /\ pos <= t
  <2>1. pos = b + i
    OBVIOUS
  <2>2. b \in Nat /\ t \in Nat
    BY <1>1
  <2>3. i <= Size(arr[n]) /\ Size(arr[n]) = t - b
    BY DEF Size
  <2> HIDE DEF b, t, s
  <2>4. i <= t - b
    BY <2>3
  <2> QED
    BY <2>1, <2>2, <2>4
<1>12. Clean(d) /\ \A x \in Address : d.slot[x] = IF x \in Span(b, t) THEN "raw" ELSE k.slot[x]
  <2> HIDE DEF b, t, e, s, c, z
  <2> QED
    BY <1>3, <1>10, <1>11, VacatedTwice
<1>13. last = c + Len(z)
  <2>1. Len(z) = Len(w) + Len(us)
    BY <1>16
  <2>2. Len(w) = Size(arr[n]) + Len(vs)
    BY <1>1, <1>8
  <2> HIDE DEF z
  <2> QED
    BY <2>1, <2>2
<1>14. kind # "limited"
  BY NotLimited
<1> HIDE DEF d, z, s, t
<1>15. Good(Deallocate(d, arr[n]), [arr EXCEPT ![n] = OfChunk(Placed(mem, size), last)], [want EXCEPT ![n] = z])
  BY <1>3, <1>10, <1>12, <1>13, <1>14, Relocated
<1> QED
  BY <1>5, <1>7, <1>15 DEF d, z, w, s, t

\* One element goes between others: those behind it shift by one slot.
LEMMA Shifted ==
  ASSUME NEW b, NEW l, NEW e, NEW s, Lies(b, l, e, s), Clean(mem), NEW i \in Nat, i < l - b, l < e,
         NEW pos, pos = b + i, NEW v \in Alive
  PROVE  LET k == Assign(MoveAssign(UninitializedMove(mem, l - 1, l, l), pos, l - 1, pos + 1), pos, <<v>>)
             w == Splice(s, i, i, <<v>>)
         IN  Clean(k) /\ Closed(k, b, l + 1, w)
<1> DEFINE m == MoveAssign(UninitializedMove(mem, l - 1, l, l), pos, l - 1, pos + 1)
           vs == <<v>>
           k == Assign(m, pos, vs)
           w == Splice(s, i, i, vs)
           top == l + 1
<1>1. b \in Nat /\ l \in Nat /\ e \in Nat /\ b <= l /\ pos \in Nat /\ s \in Seq(Alive) /\ Len(s) = l - b
  BY DEF Lies
<1>2. PICK ins \in Nat \ {0} : ins = 1
  OBVIOUS
<1>3. PICK taken \in Nat : taken = ins
  OBVIOUS
<1>4. PICK p : p = l - taken
  OBVIOUS
<1>5. PICK q : q = p + ins
  OBVIOUS
<1>6. PICK to : to = pos + ins
  OBVIOUS
<1>7. p = l - 1 /\ q = l /\ to = pos + 1
  BY <1>1, <1>2, <1>3, <1>4, <1>5, <1>6
<1>8. taken = IF (l - b) - i < ins THEN (l - b) - i ELSE ins
  BY <1>1, <1>2, <1>3
<1>9. Gap(MoveAssign(UninitializedMove(mem, p, l, q), pos, p, to), b, l, s, pos, ins, taken)
  <2>1. i <= l - b /\ l + ins <= e
    BY <1>1, <1>2
  <2> QED
    BY <1>4, <1>5, <1>6, <1>8, <2>1, GapOpened
<1>10. Gap(m, b, l, s, pos, ins, taken)
  BY <1>7, <1>9
<1> HIDE DEF m
<1>11. vs \in Seq(Alive) /\ vs \in Seq(Slots) /\ Len(vs) = 1
  BY SlotsDiffer
<1> HIDE DEF vs
<1>12. ins = Len(vs) /\ taken = ins /\ pos + Len(vs) = pos + 1
  BY <1>2, <1>3, <1>11
<1>13. \A x \in Span(pos, pos + Len(vs)) : x \in Address /\ m.slot[x] \in Alive
  <2> SUFFICES ASSUME NEW x \in Span(pos, pos + Len(vs)) PROVE x \in Address /\ m.slot[x] \in Alive
    OBVIOUS
  <2>1. x \in Span(b, l)
    BY <1>1, <1>12 DEF Span
  <2>2. x \in Address
    BY <2>1 DEF Lies
  <2>3. x \in Span(pos, pos + taken)
    BY <1>12
  <2>4. m.slot[x] = "moved"
    BY <1>10, <2>2, <2>3 DEF Gap
  <2> QED
    BY <2>2, <2>4, SlotsDiffer
<1>14. Clean(m)
  BY <1>10 DEF Gap
<1>15. Clean(k) /\ \A x \in Address : k.slot[x] = IF x \in Span(pos, pos + Len(vs)) THEN vs[x - pos + 1] ELSE m.slot[x]
  <2>1. pos \in Int /\ vs \in Seq(Slots)
    BY <1>1, <1>11
  <2> QED
    BY <1>13, <1>14, <2>1, AssignIs
<1> HIDE DEF k
<1>16. Written(k, m, pos, vs)
  BY <1>11, <1>15 DEF Written
<1>17. Gap(m, b, l, s, pos, Len(vs), taken) /\ taken <= Len(vs)
  BY <1>10, <1>12
<1>18. top = l + Len(vs)
  BY <1>11
<1>19. Resembles(s, s, i) /\ i <= l - b
  BY <1>1 DEF Resembles
<1> HIDE DEF top
<1>20. Closed(k, b, top, w)
  BY <1>16, <1>17, <1>18, <1>19, GapWrittenIs
<1> HIDE DEF w
<1> QED
  BY <1>15, <1>20 DEF k, w, vs, top, m

LEMMA InsertKeeps ==
  ASSUME Good(mem, arr, want), NEW n \in Arrays, Spare = {"raw"}, Size(arr[n]) < MaxLen,
         NEW i \in Nat, NEW v \in Alive, Insert(n, i, v)
  PROVE  Good(mem', arr', want') /\ misuse' = misuse
<1> DEFINE b == arr[n].begin
           l == arr[n].last
           e == arr[n].end
           s == want[n]
           vs == <<v>>
           w == Splice(s, i, i, vs)
           had == Size(arr[n])
<1>0. misuse' = misuse
  BY DEF Insert
<1>1. Lies(b, l, e, s) /\ Clean(mem)
  BY ArrayLies
<1>2. b \in Nat /\ l \in Nat /\ e \in Nat /\ b <= l /\ l <= e /\ s \in Seq(Alive) /\ Len(s) = l - b
  BY <1>1 DEF Lies
<1>3. had = l - b /\ i <= had
  BY DEF Insert, Size
<1>4. CASE Full(n)
  <2> DEFINE g == GrownSize(had + 1)
             to == i + 1
             last == Placed(mem, g).begin + (had + 1)
  <2>1. /\ mem' = ChunkExpand(mem, arr[n], g, <<Move(b, b + i, 0), Move(b + i, l, to)>>, <<New(i, vs)>>)
        /\ arr' = [arr EXCEPT ![n] = OfChunk(Placed(mem, g), last)]
        /\ want' = [want EXCEPT ![n] = w]
    BY <1>4 DEF Insert, Becomes, Moved
  <2>2. g \in 0 .. MaxCap /\ had + 1 <= g
    <3>1. had + 1 \in 1 .. MaxLen
      BY <1>2, <1>3, RoomAssumption
    <3> QED
      BY <3>1, GrownIs
  <2>3. vs \in Seq(Alive) /\ Len(vs) = 1
    OBVIOUS
  <2>4. last = Placed(mem, g).begin + (had + Len(vs)) /\ had + Len(vs) <= g /\ to = i + Len(vs)
    BY <2>2, <2>3
  <2>5. PICK pos : pos = b + i
    OBVIOUS
  <2> HIDE DEF g, vs, last, to
  <2>6. Good(ChunkExpand(mem, arr[n], g, <<Move(b, pos, 0), Move(pos, l, to)>>, <<New(i, vs)>>),
             [arr EXCEPT ![n] = OfChunk(Placed(mem, g), last)], [want EXCEPT ![n] = w])
    BY <1>3, <2>2, <2>3, <2>4, <2>5, InsertedBy
  <2> QED
    BY <1>0, <2>1, <2>5, <2>6
<1>5. CASE ~ Full(n) /\ b + i = l
  <2> DEFINE new == New(had, vs)
  <2>1. /\ mem' = Construct(mem, l, vs) /\ arr' = [arr EXCEPT ![n] = [arr[n] EXCEPT !.last = @ + 1]]
        /\ want' = [want EXCEPT ![n] = w]
    BY <1>5 DEF Insert, Becomes
  <2>2. w = Append(s, v)
    <3>1. i = Len(s)
      BY <1>2, <1>5
    <3>2. SubSeq(s, 1, i) = s /\ SubSeq(s, i + 1, Len(s)) = <<>>
      BY <1>2, <3>1
    <3>3. w = s \o vs \o <<>>
      BY <3>2 DEF Splice
    <3>4. s \o vs \o <<>> = Append(s, v)
      BY <1>2
    <3> QED
      BY <3>3, <3>4
  <2>3. Worth(mem, new) = vs
    BY WorthOfNew
  <2> HIDE DEF new, w
  <2>4. EmplaceBack(n, new, v)
    BY <1>5, <2>1, <2>2, <2>3 DEF EmplaceBack, Becomes
  <2>5. Good(mem', arr', want')
    BY <1>5, <2>3, <2>4, EmplaceInPlace
  <2> QED
    BY <1>0, <2>5
<1>6. CASE ~ Full(n) /\ b + i # l
  <2> DEFINE pos == b + i
             k == Assign(MoveAssign(UninitializedMove(mem, l - 1, l, l), pos, l - 1, pos + 1), pos, vs)
             top == l + 1
  <2>1. /\ mem' = k /\ arr' = [arr EXCEPT ![n] = [arr[n] EXCEPT !.last = top]] /\ want' = [want EXCEPT ![n] = w]
    BY <1>6 DEF Insert, Becomes
  <2>2. l < e
    BY <1>2, <1>6 DEF Full, Size, AllocationSize
  <2>3. i < l - b
    <3> HIDE DEF b, l
    <3> QED
      BY <1>2, <1>3, <1>6
  <2>4. Clean(k) /\ Closed(k, b, top, w)
    <3> HIDE DEF b, l, e, s
    <3> QED
      BY <1>1, <2>2, <2>3, Shifted
  <2> HIDE DEF k, w
  <2>5. top \in Nat /\ b <= top /\ top <= e /\ l <= top
    <3> HIDE DEF b, l, e
    <3> QED
      BY <1>2, <2>2
  <2>6. Good(k, [arr EXCEPT ![n] = [arr[n] EXCEPT !.last = top]], [want EXCEPT ![n] = w])
    <3> HIDE DEF top
    <3> QED
      BY <2>4, <2>5, GapClosed
  <2> QED
    BY <1>0, <2>1, <2>6
<1> QED
  BY <1>4, <1>5, <1>6

\* The gap that InsertAny opens; an empty one spoils the elements behind it.
LEMMA AnyGapOpened ==
  ASSUME NEW b, NEW l, NEW e, NEW s, Lies(b, l, e, s), Clean(mem),
         NEW i \in Nat, i <= l - b, NEW ins \in Nat, l + ins <= e,
         NEW taken \in Nat, taken = IF (l - b) - i < ins THEN (l - b) - i ELSE ins,
         NEW pos, pos = b + i, NEW p, p = l - taken, NEW q, q = p + ins, NEW to, to = pos + ins
  PROVE  Gap(MoveAssign(UninitializedMove(mem, p, l, q), pos, p, to), b, l,
             IF ins = 0 THEN Spoiled(s, i) ELSE s, pos, ins, taken)
<1>1. CASE ins # 0
  <2>1. ins \in Nat \ {0}
    BY <1>1
  <2>2. Gap(MoveAssign(UninitializedMove(mem, p, l, q), pos, p, to), b, l, s, pos, ins, taken)
    BY <2>1, GapOpened
  <2> QED
    BY <1>1, <2>2
<1>2. CASE ins = 0
  <2> DEFINE h == UninitializedMove(mem, p, l, q)
             k == Taken(h, pos, p)
             t == Spoiled(s, i)
  <2>1. b \in Nat /\ l \in Nat /\ e \in Nat /\ b <= l /\ l <= e /\ s \in Seq(Alive) /\ Len(s) = l - b
    BY DEF Lies
  <2>2. taken = 0 /\ p = l /\ q = l /\ to = pos /\ pos \in Nat /\ pos <= l
    BY <1>2, <2>1
  <2>3. \A x : x \notin Span(p, l) /\ x \notin Span(q, q + (l - p))
    BY <2>1, <2>2 DEF Span
  <2>4. Clean(h) /\ \A x \in Address : h.slot[x] = mem.slot[x]
    <3>1. p \in Int /\ l \in Int /\ q \in Int /\ p <= l
      BY <2>1, <2>2
    <3> QED
      BY <2>3, <3>1, UninitializedMoveIs
  <2> HIDE DEF h
  <2>5. \A x \in Span(pos, p) : x \in Span(b, l)
    BY <2>1, <2>2 DEF Span
  <2>6. \A x \in Span(pos, p) : x \in Address /\ h.slot[x] \in Alive
    BY <2>4, <2>5 DEF Lies
  <2>7. Clean(k) /\ \A x \in Address : k.slot[x] = IF x \in Span(pos, p) THEN "moved" ELSE h.slot[x]
    <3>1. pos \in Int /\ p \in Int
      BY <2>1, <2>2
    <3> QED
      BY <2>4, <2>6, <3>1, TakenIs
  <2>8. MoveAssign(h, pos, p, to) = k
    BY <2>2 DEF MoveAssign
  <2> HIDE DEF k
  <2>9. \A j \in 1 .. l - b : t[j] = IF j <= i THEN s[j] ELSE "moved"
    BY <2>1, SpoiledIs
  <2> HIDE DEF t
  <2>10. ASSUME NEW x \in Address
         PROVE  k.slot[x] =
                  IF x \in Span(pos, pos + taken) THEN "moved"
                  ELSE IF x \in Span(pos + taken, pos + ins) THEN "raw"
                  ELSE IF x \in Span(pos + ins, l + ins) THEN t[x - ins - b + 1] ELSE mem.slot[x]
    <3>1. x \in Int
      BY AddressType
    <3>2. x \notin Span(pos, pos + taken) /\ x \notin Span(pos + taken, pos + ins)
      BY <1>2, <2>2 DEF Span
    <3>3. x \in Span(pos + ins, l + ins) <=> x \in Span(pos, p)
      BY <1>2, <2>1, <2>2 DEF Span
    <3>4. CASE x \in Span(pos, p)
      <4>1. pos <= x /\ x < l
        BY <2>1, <2>2, <3>1, <3>4 DEF Span
      <4>2. x - ins - b + 1 \in 1 .. l - b /\ ~ (x - ins - b + 1 <= i)
        BY <1>2, <2>1, <2>2, <3>1, <4>1
      <4>3. t[x - ins - b + 1] = "moved"
        BY <2>9, <4>2
      <4> QED
        BY <2>7, <3>2, <3>3, <3>4, <4>3
    <3>5. CASE x \notin Span(pos, p)
      BY <2>4, <2>7, <3>2, <3>3, <3>5
    <3> QED
      BY <3>4, <3>5
  <2>11. Gap(k, b, l, t, pos, ins, taken)
    BY <2>7, <2>10 DEF Gap
  <2> QED
    BY <1>2, <2>8, <2>11 DEF h, t
<1> QED
  BY <1>1, <1>2

\* The objects in the gap are destroyed, and all of its slots initialised.
LEMMA GapInitialized ==
  ASSUME NEW b, NEW l, NEW e, NEW s, Lies(b, l, e, s), NEW i \in Nat, i <= l - b, NEW t,
         NEW pos, pos = b + i, NEW ins \in Nat, NEW taken \in Nat, taken <= ins, pos + taken <= l, l + ins <= e,
         NEW m, Gap(m, b, l, t, pos, ins, taken)
  PROVE  Written(Initialize(Destroy(m, pos, pos + taken), pos, pos + ins), m, pos, Inits(ins))
<1> DEFINE f == Destroy(m, pos, pos + taken)
           k == Initialize(f, pos, pos + ins)
           vs == Inits(ins)
<1>1. b \in Nat /\ l \in Nat /\ e \in Nat /\ b <= l /\ l <= e /\ pos \in Nat
  BY DEF Lies
<1>2. Clean(m)
  BY DEF Gap
<1>3. \A x \in Address : m.slot[x] =
        IF x \in Span(pos, pos + taken) THEN "moved"
        ELSE IF x \in Span(pos + taken, pos + ins) THEN "raw"
        ELSE IF x \in Span(pos + ins, l + ins) THEN t[x - ins - b + 1] ELSE mem.slot[x]
  BY DEF Gap
<1>4. ASSUME NEW x \in Span(pos, pos + ins) PROVE x \in Address /\ (x \in Span(pos, pos + taken) \/ x \in Span(pos + taken, pos + ins))
  <2>1. x \in Span(b, l) \/ x \in Span(l, e)
    BY <1>1 DEF Span
  <2>2. x \in Address
    BY <2>1 DEF Lies
  <2>3. x \in Span(pos, pos + taken) \/ x \in Span(pos + taken, pos + ins)
    BY <1>1 DEF Span
  <2> QED
    BY <2>2, <2>3
<1>5. \A x \in Span(pos, pos + taken) : x \in Span(pos, pos + ins)
  BY <1>1 DEF Span
<1>6. Clean(f) /\ \A x \in Address : f.slot[x] = IF x \in Span(pos, pos + taken) THEN "raw" ELSE m.slot[x]
  <2>1. \A x \in Span(pos, pos + taken) : x \in Address /\ m.slot[x] \in Alive
    BY <1>3, <1>4, <1>5, SlotsDiffer
  <2>2. pos \in Int /\ pos + taken \in Int
    BY <1>1
  <2> QED
    BY <1>2, <2>1, <2>2, DestroyIs
<1> HIDE DEF f
<1>7. Clean(k) /\ \A x \in Address : k.slot[x] = IF x \in Span(pos, pos + ins) THEN "init" ELSE f.slot[x]
  <2>1. \A x \in Span(pos, pos + ins) : x \in Address /\ f.slot[x] = "raw"
    BY <1>3, <1>4, <1>6
  <2>2. pos \in Int /\ pos + ins \in Int /\ pos <= pos + ins
    BY <1>1
  <2> QED
    BY <1>6, <2>1, <2>2, InitializeIs
<1> HIDE DEF k
<1>8. vs \in Seq(Alive) /\ Len(vs) = ins /\ \A j \in 1 .. ins : vs[j] = "init"
  BY InitsIs
<1> HIDE DEF vs
<1>9. \A x \in Span(pos, pos + ins) : vs[x - pos + 1] = "init"
  <2> SUFFICES ASSUME NEW x \in Span(pos, pos + ins) PROVE vs[x - pos + 1] = "init"
    OBVIOUS
  <2>1. x - pos + 1 \in 1 .. ins
    BY <1>1 DEF Span
  <2> QED
    BY <1>8, <2>1
<1>10. \A x \in Address : k.slot[x] = IF x \in Span(pos, pos + ins) THEN vs[x - pos + 1] ELSE m.slot[x]
  BY <1>5, <1>6, <1>7, <1>9
<1>11. Written(k, m, pos, vs)
  <2>1. vs \in Seq(Alive)
    BY <1>8
  <2>2. Span(pos, pos + Len(vs)) = Span(pos, pos + ins)
    BY <1>8
  <2> QED
    BY <1>7, <1>10, <2>1, <2>2 DEF Written
<1> QED
  BY <1>11 DEF k, f, vs

\* Elements behind the last one.
LEMMA ClosedMore ==
  ASSUME NEW b, NEW l, NEW e, NEW s, Lies(b, l, e, s), NEW m, Clean(m), NEW top \in Nat, l <= top,
         NEW w, Closed(m, b, top, w), NEW pad \in Nat, NEW last, last = top + pad, last <= e
  PROVE  /\ Clean(Initialize(m, top, last))
         /\ Closed(Initialize(m, top, last), b, last, w \o Inits(pad))
<1> DEFINE k == Initialize(m, top, last)
           us == Inits(pad)
           z == w \o us
<1>1. b \in Nat /\ l \in Nat /\ e \in Nat /\ b <= l /\ l <= e /\ last \in Nat
  BY DEF Lies
<1>2. w \in Seq(Alive) /\ \A x \in Address : m.slot[x] = IF x \in Span(b, top) THEN w[x - b + 1] ELSE mem.slot[x]
  BY DEF Closed
<1>3. us \in Seq(Alive) /\ Len(us) = pad /\ \A j \in 1 .. pad : us[j] = "init"
  BY InitsIs
<1>4. us \in Seq(Alive)
  BY <1>3
<1> HIDE DEF us
<1>5. z \in Seq(Alive) /\ Len(z) = Len(w) + Len(us)
  BY <1>2, <1>4, ConcatIs
<1>6. \A j \in 1 .. Len(w) : z[j] = w[j]
  BY <1>2, <1>4, ConcatIs
<1>7. \A j \in Len(w) + 1 .. Len(w) + Len(us) : z[j] = us[j - Len(w)]
  BY <1>2, <1>4, ConcatIs
<1> HIDE DEF z
<1>8. Len(w) = top - b
  BY DEF Closed
<1>9. \A j \in 1 .. top - b : z[j] = w[j]
  BY <1>6, <1>8
<1>10. \A j \in top - b + 1 .. top - b + pad : z[j] = "init"
  <2> SUFFICES ASSUME NEW j \in top - b + 1 .. top - b + pad PROVE z[j] = "init"
    OBVIOUS
  <2>1. z[j] = us[j - Len(w)]
    BY <1>1, <1>3, <1>7, <1>8
  <2>2. j - Len(w) \in 1 .. pad
    BY <1>1, <1>8
  <2> QED
    BY <1>3, <2>1, <2>2
<1>11. Len(z) = last - b
  BY <1>1, <1>3, <1>5, <1>8
<1>12. \A x \in Span(top, last) : x \in Span(l, e) /\ x \notin Span(b, top)
  BY <1>1 DEF Span
<1>13. \A x \in Span(top, last) : x \in Address /\ m.slot[x] = "raw"
  BY <1>2, <1>12 DEF Lies
<1>14. Clean(k) /\ \A x \in Address : k.slot[x] = IF x \in Span(top, last) THEN "init" ELSE m.slot[x]
  <2>1. top \in Int /\ last \in Int /\ top <= last
    BY <1>1
  <2> QED
    BY <1>13, <2>1, InitializeIs
<1> HIDE DEF k
<1>15. ASSUME NEW x \in Address PROVE k.slot[x] = IF x \in Span(b, last) THEN z[x - b + 1] ELSE mem.slot[x]
  <2>1. x \in Int
    BY AddressType
  <2>2. CASE x \in Span(top, last)
    <3>1. x \in Span(b, last) /\ x - b + 1 \in top - b + 1 .. top - b + pad
      BY <1>1, <2>1, <2>2 DEF Span
    <3> QED
      BY <1>10, <1>14, <2>2, <3>1
  <2>3. CASE x \in Span(b, top)
    <3>1. x \notin Span(top, last) /\ x \in Span(b, last) /\ x - b + 1 \in 1 .. top - b
      BY <1>1, <2>1, <2>3 DEF Span
    <3> QED
      BY <1>2, <1>9, <1>14, <2>3, <3>1
  <2>4. CASE x \notin Span(top, last) /\ x \notin Span(b, top)
    <3>1. x \notin Span(b, last)
      BY <1>1, <2>1, <2>4 DEF Span
    <3> QED
      BY <1>2, <1>14, <2>4, <3>1
  <2> QED
    BY <2>2, <2>3, <2>4
<1>16. Closed(k, b, last, z)
  BY <1>5, <1>11, <1>15 DEF Closed
<1> QED
  BY <1>14, <1>16 DEF k, z, us

\* What insertion in place leaves: the promised sequence, or a spoiled one when nothing is inserted.
LEMMA InsertAnyInPlace ==
  ASSUME Good(mem, arr, want), NEW n \in Arrays, Spare = {"raw"}, NEW i \in Nat, NEW ins \in Nat, NEW pad \in Nat,
         InsertAny(n, i, ins, pad), Size(arr[n]) + ins + pad <= AllocationSize(arr[n])
  PROVE  /\ Good(mem', arr', [want EXCEPT ![n] = Splice(IF ins = 0 THEN Spoiled(want[n], i) ELSE want[n], i, i, Inits(ins)) \o Inits(pad)])
         /\ want' = [want EXCEPT ![n] = Splice(want[n], i, i, Inits(ins)) \o Inits(pad)]
<1> DEFINE b == arr[n].begin
           l == arr[n].last
           e == arr[n].end
           s == want[n]
           pos == b + i
           taken == IF Size(arr[n]) - i < ins THEN Size(arr[n]) - i ELSE ins
           p == l - taken
           q == p + ins
           to == pos + ins
           top == l + ins
           last == l + ins + pad
           m == MoveAssign(UninitializedMove(mem, p, l, q), pos, p, to)
           f == Initialize(Destroy(m, pos, pos + taken), pos, pos + ins)
           k == Initialize(f, top, last)
           t == IF ins = 0 THEN Spoiled(s, i) ELSE s
           w == Splice(t, i, i, Inits(ins))
           z == w \o Inits(pad)
<1>1. Lies(b, l, e, s) /\ Clean(mem)
  BY ArrayLies
<1>2. b \in Nat /\ l \in Nat /\ e \in Nat /\ b <= l /\ l <= e /\ s \in Seq(Alive) /\ Len(s) = l - b
  BY <1>1 DEF Lies
<1>3. i <= l - b /\ l - b + ins + pad <= e - b /\ taken = IF (l - b) - i < ins THEN (l - b) - i ELSE ins
  BY DEF InsertAny, Size, AllocationSize
<1>4. /\ mem' = Initialize(f, last - pad, last)
      /\ arr' = [arr EXCEPT ![n] = [arr[n] EXCEPT !.last = last]]
      /\ want' = [want EXCEPT ![n] = Splice(s, i, i, Inits(ins)) \o Inits(pad)]
  BY DEF InsertAny, Becomes
<1>5. pos = b + i /\ p = l - taken /\ q = p + ins /\ to = pos + ins /\ top = l + ins /\ last = top + pad
  OBVIOUS
<1> HIDE DEF b, l, e, s, taken
<1>6. taken \in Nat /\ taken <= ins /\ pos + taken <= l /\ l + ins <= e /\ last - pad = top /\ top \in Nat /\ last <= e
      /\ last \in Nat /\ b <= last /\ l <= last /\ l <= top
  BY <1>2, <1>3, <1>5
<1> HIDE DEF pos, p, q, to, top, last
<1>7. Gap(m, b, l, t, pos, ins, taken)
  BY <1>1, <1>3, <1>5, <1>6, AnyGapOpened
<1> HIDE DEF m
<1>8. Resembles(t, s, i)
  <2>1. CASE ins = 0
    <3> DEFINE u == Spoiled(s, i)
    <3>1. u \in Seq(Alive) /\ Len(u) = Len(s) /\ \A j \in 1 .. Len(s) : u[j] = IF j <= i THEN s[j] ELSE "moved"
      BY <1>2, SpoiledIs
    <3> HIDE DEF u
    <3>2. \A j \in 1 .. i : j \in 1 .. Len(s)
      BY <1>2, <1>3
    <3>3. Resembles(u, s, i)
      BY <3>1, <3>2 DEF Resembles
    <3> QED
      BY <2>1, <3>3 DEF u
  <2>2. CASE ins # 0
    BY <1>2, <2>2 DEF Resembles
  <2> QED
    BY <2>1, <2>2
<1> HIDE DEF t
<1>9. Written(f, m, pos, Inits(ins))
  BY <1>1, <1>3, <1>5, <1>6, <1>7, GapInitialized
<1> HIDE DEF f
<1>10. Closed(f, b, top, w)
  <2> DEFINE vs == Inits(ins)
  <2>1. Len(vs) = ins
    BY InitsIs
  <2>2. Written(f, m, pos, vs)
    BY <1>9
  <2> HIDE DEF vs
  <2>3. Gap(m, b, l, t, pos, Len(vs), taken) /\ taken <= Len(vs) /\ top = l + Len(vs)
    BY <1>5, <1>6, <1>7, <2>1
  <2>4. Closed(f, b, top, Splice(t, i, i, vs))
    BY <1>1, <1>3, <1>5, <1>6, <1>8, <2>2, <2>3, GapWrittenIs
  <2> QED
    BY <2>4 DEF vs
<1> HIDE DEF w
<1>11. Clean(f)
  BY <1>9 DEF Written
<1>12. Clean(k) /\ Closed(k, b, last, z)
  BY <1>1, <1>5, <1>6, <1>10, <1>11, ClosedMore
<1> HIDE DEF k, z
<1>13. Good(k, [arr EXCEPT ![n] = [arr[n] EXCEPT !.last = last]], [want EXCEPT ![n] = z])
  BY <1>6, <1>12, GapClosed DEF b, l, e
<1>14. mem' = k
  BY <1>4, <1>6 DEF k
<1>15. Good(mem', arr', [want EXCEPT ![n] = z])
  BY <1>4, <1>13, <1>14
<1> QED
  BY <1>4, <1>15 DEF z, w, t, s

LEMMA InsertAnyKeeps ==
  ASSUME Good(mem, arr, want), NEW n \in Arrays, Spare = {"raw"}, NEW i \in Nat, NEW ins \in Nat, NEW pad \in Nat,
         InsertAny(n, i, ins, pad), Size(arr[n]) + ins + pad <= MaxLen,
         ~ (ins = 0 /\ i < Size(arr[n]) /\ pad <= AllocationSize(arr[n]) - Size(arr[n]))
  PROVE  Good(mem', arr', want') /\ misuse' = misuse
<1> DEFINE b == arr[n].begin
           l == arr[n].last
           e == arr[n].end
           s == want[n]
           had == Size(arr[n])
           size == had + ins + pad
           vs == Inits(ins)
           us == Inits(pad)
<1>0. misuse' = misuse
  BY DEF InsertAny
<1>1. b \in Nat /\ l \in Nat /\ e \in Nat /\ b <= l /\ l <= e /\ s \in Seq(Alive) /\ Len(s) = l - b
  BY ArrayIs
<1>2. had \in Nat /\ had = Len(s) /\ i <= had
  <2>1. i <= Size(arr[n])
    BY DEF InsertAny
  <2>2. Size(arr[n]) = l - b
    BY DEF Size
  <2> HIDE DEF b, l, s
  <2> QED
    BY <1>1, <2>1, <2>2
<1>3. CASE size <= AllocationSize(arr[n])
  <2>1. Good(mem', arr', [want EXCEPT ![n] = Splice(IF ins = 0 THEN Spoiled(s, i) ELSE s, i, i, vs) \o us])
    BY <1>3, InsertAnyInPlace
  <2>2. want' = [want EXCEPT ![n] = Splice(s, i, i, vs) \o us]
    BY <1>3 DEF InsertAny, Becomes
  <2>3. ins = 0 => i = Len(s)
    <3>1. e - b \in Int /\ AllocationSize(arr[n]) = e - b
      BY <1>1 DEF AllocationSize
    <3> HIDE DEF had
    <3>2. ins = 0 => ~ (i < had)
      BY <1>1, <1>2, <1>3, <3>1 DEF had
    <3> QED
      BY <1>2, <3>2
  <2>4. (IF ins = 0 THEN Spoiled(s, i) ELSE s) = s
    <3>1. CASE ins = 0
      <4> DEFINE u == Spoiled(s, i)
      <4>1. u \in Seq(Alive) /\ Len(u) = Len(s) /\ \A j \in 1 .. Len(s) : u[j] = IF j <= i THEN s[j] ELSE "moved"
        BY <1>1, SpoiledIs
      <4> HIDE DEF u, s
      <4>2. \A j \in 1 .. Len(u) : u[j] = s[j]
        BY <2>3, <3>1, <4>1
      <4>3. u = s
        BY <1>1, <4>1, <4>2, SameSequence
      <4> QED
        BY <3>1, <4>3 DEF u
    <3>2. CASE ins # 0
      BY <3>2
    <3> QED
      BY <3>1, <3>2
  <2> QED
    BY <1>0, <2>1, <2>2, <2>4
<1>4. CASE ~ (size <= AllocationSize(arr[n]))
  <2> DEFINE g == GrownSize(size)
             pos == b + i
             to == i + ins
             at == had + ins
             last == Placed(mem, g).begin + size
  <2>1. /\ mem' = ChunkExpand(mem, arr[n], g, <<Move(b, pos, 0), Move(pos, l, to)>>, <<New(i, vs), New(at, us)>>)
        /\ arr' = [arr EXCEPT ![n] = OfChunk(Placed(mem, g), last)]
        /\ want' = [want EXCEPT ![n] = Splice(s, i, i, vs) \o us]
    BY <1>4 DEF InsertAny, Becomes, Moved
  <2>2. g \in 0 .. MaxCap /\ size <= g
    <3>1. size \in 1 .. MaxLen
      <4>1. e - b \in Nat /\ AllocationSize(arr[n]) = e - b
        BY <1>1 DEF AllocationSize
      <4>2. size \in Nat /\ size # 0
        <5> HIDE DEF had
        <5> QED
          BY <1>2, <1>4, <4>1
      <4> HIDE DEF size
      <4>3. size <= MaxLen
        BY DEF size
      <4> QED
        BY <4>2, <4>3, RoomAssumption
    <3> HIDE DEF size
    <3> QED
      BY <3>1, GrownIs
  <2>3. vs \in Seq(Alive) /\ Len(vs) = ins /\ us \in Seq(Alive) /\ Len(us) = pad
    BY InitsIs
  <2>4. pos = b + i
    OBVIOUS
  <2> HIDE DEF g, vs, us, pos, had
  <2>5. to = i + Len(vs) /\ at = had + Len(vs) /\ had + Len(vs) + Len(us) = size
    BY <1>2, <2>3
  <2>6. last = Placed(mem, g).begin + (had + Len(vs) + Len(us)) /\ had + Len(vs) + Len(us) <= g
    BY <2>2, <2>5
  <2>7. vs \in Seq(Alive) /\ us \in Seq(Alive)
    BY <2>3
  <2> HIDE DEF last, to, at, size
  <2>8. Good(ChunkExpand(mem, arr[n], g, <<Move(b, pos, 0), Move(pos, l, to)>>, <<New(i, vs), New(at, us)>>),
             [arr EXCEPT ![n] = OfChunk(Placed(mem, g), last)], [want EXCEPT ![n] = Splice(s, i, i, vs) \o us])
    BY <1>2, <2>2, <2>4, <2>5, <2>6, <2>7, InsertedTwice DEF had
  <2> QED
    BY <1>0, <2>1, <2>8
<1> QED
  BY <1>3, <1>4

LEMMA NothingInserted ==
  ASSUME NEW s \in Seq(Alive), NEW i \in Nat, i <= Len(s)
  PROVE  Splice(s, i, i, Inits(0)) = s
<1> DEFINE t == Inits(0)
           w == Splice(s, i, i, t)
<1>1. t \in Seq(Alive)
  BY InitsIs
<1>2. Len(t) = 0
  BY InitsIs
<1> HIDE DEF t
<1>11. WithInsertion(w, s, i, t)
  BY <1>1, InsertionIs
<1> HIDE DEF w
<1>3. w \in Seq(Alive)
  BY <1>11 DEF WithInsertion
<1>4. Len(w) = Len(s) + Len(t)
  BY <1>11 DEF WithInsertion
<1>5. \A k \in 1 .. i : w[k] = s[k]
  BY <1>11 DEF WithInsertion
<1>6. \A k \in i + Len(t) + 1 .. Len(s) + Len(t) : w[k] = s[k - Len(t)]
  BY <1>11 DEF WithInsertion
<1>7. Len(w) = Len(s) /\ Len(s) \in Nat
  BY <1>2, <1>4
<1>8. \A k \in i + 1 .. Len(s) : w[k] = s[k]
  BY <1>2, <1>6, <1>7
<1>9. \A k \in 1 .. Len(w) : w[k] = s[k]
  BY <1>5, <1>7, <1>8
<1>10. w = s
  BY <1>3, <1>7, <1>9, SameSequence
<1> QED
  BY <1>10 DEF w, t

\* An empty range inserted before the i-th element spoils that one and those behind it.
LEMMA SpoiledInsertion ==
  ASSUME NEW s \in Seq(Alive), NEW i \in Nat, i < Len(s), NEW vs \in Seq(Alive)
  PROVE  LET u == Spoiled(s, i) \o vs
             w == s \o vs
         IN  /\ u \in Seq(Alive) /\ w \in Seq(Alive) /\ Len(u) = Len(w)
             /\ i + 1 \in 1 .. Len(w) /\ u[i + 1] = "moved" /\ \A j \in 1 .. Len(w) : u[j] \in {w[j], "moved"}
<1> DEFINE t == Spoiled(s, i)
           u == t \o vs
           w == s \o vs
<1>1. t \in Seq(Alive) /\ Len(t) = Len(s) /\ \A k \in 1 .. Len(s) : t[k] = IF k <= i THEN s[k] ELSE "moved"
  BY SpoiledIs
<1> HIDE DEF t
<1>2. u \in Seq(Alive) /\ Len(u) = Len(t) + Len(vs) /\ \A k \in 1 .. Len(t) : u[k] = t[k]
  BY <1>1, ConcatIs
<1>3. \A k \in Len(t) + 1 .. Len(t) + Len(vs) : u[k] = vs[k - Len(t)]
  BY <1>1, ConcatIs
<1>4. w \in Seq(Alive) /\ Len(w) = Len(s) + Len(vs) /\ \A k \in 1 .. Len(s) : w[k] = s[k]
  BY ConcatIs
<1>5. \A k \in Len(s) + 1 .. Len(s) + Len(vs) : w[k] = vs[k - Len(s)]
  BY ConcatIs
<1> HIDE DEF u, w
<1>6. Len(s) \in Nat /\ Len(vs) \in Nat
  OBVIOUS
<1>7. Len(u) = Len(w) /\ i + 1 \in 1 .. Len(w) /\ i + 1 \in 1 .. Len(s)
  BY <1>1, <1>2, <1>4, <1>6
<1>8. u[i + 1] = "moved"
  BY <1>1, <1>2, <1>7
<1>9. ASSUME NEW j \in 1 .. Len(w) PROVE u[j] \in {w[j], "moved"}
  <2>1. CASE j <= Len(s)
    BY <1>1, <1>2, <1>4, <1>6, <2>1
  <2>2. CASE ~ (j <= Len(s))
    <3>1. j \in Len(s) + 1 .. Len(s) + Len(vs)
      BY <1>4, <1>6, <2>2
    <3>2. w[j] = vs[j - Len(s)]
      BY <1>5, <3>1
    <3>3. u[j] = vs[j - Len(s)]
      BY <1>1, <1>3, <3>1
    <3> QED
      BY <3>2, <3>3
  <2> QED
    BY <2>1, <2>2
<1> QED
  BY <1>2, <1>4, <1>7, <1>8, <1>9 DEF u, w, t

LEMMA EmptyInsertCosts ==
  ASSUME Good(mem, arr, want), NEW n \in Arrays, Spare = {"raw"}, NEW i \in Nat, i < Size(arr[n]),
         NEW pad \in Nat, pad <= AllocationSize(arr[n]) - Size(arr[n]), InsertAny(n, i, 0, pad),
         kind' = kind, kind \in Kinds
  PROVE  misuse' = {"empty range"} /\ ArraysTypeOK' /\ CostOfMisuse'
<1> DEFINE s == want[n]
           vs == Inits(pad)
           t == Spoiled(s, i)
           u == t \o vs
           w == s \o vs
<1>1. s \in Seq(Alive) /\ i < Len(s) /\ want \in [Arrays -> Seq(Alive)]
  <2>1. s \in Seq(Alive) /\ Len(s) = arr[n].last - arr[n].begin
    BY ArrayIs
  <2> QED
    BY <2>1 DEF Size, Good
<1>2. vs \in Seq(Alive)
  BY InitsIs
<1>3. misuse' = {"empty range"}
  BY DEF InsertAny
<1>4. Size(arr[n]) + 0 + pad <= AllocationSize(arr[n])
  <2>1. arr[n].begin \in Nat /\ arr[n].last \in Nat /\ arr[n].end \in Nat
    BY ArrayIs
  <2> DEFINE x == Size(arr[n])
             y == AllocationSize(arr[n])
  <2>2. x \in Int /\ y \in Int
    BY <2>1 DEF Size, AllocationSize
  <2>3. pad <= y - x
    OBVIOUS
  <2> HIDE DEF x, y
  <2>4. x + 0 + pad <= y
    BY <2>2, <2>3
  <2> QED
    BY <2>4 DEF x, y
<1>5. PICK ins \in Nat : ins = 0
  OBVIOUS
<1>6. InsertAny(n, i, ins, pad) /\ Size(arr[n]) + ins + pad <= AllocationSize(arr[n])
  BY <1>4, <1>5
<1>7. Good(mem', arr', [want EXCEPT ![n] = Splice(IF ins = 0 THEN t ELSE s, i, i, Inits(ins)) \o vs])
  BY <1>6, InsertAnyInPlace
<1>8. want' = [want EXCEPT ![n] = Splice(s, i, i, Inits(ins)) \o vs]
  BY <1>6 DEF InsertAny, Becomes
<1>9. t \in Seq(Alive) /\ Len(t) = Len(s)
  BY <1>1, SpoiledIs
<1>10. /\ u \in Seq(Alive) /\ w \in Seq(Alive) /\ Len(u) = Len(w)
       /\ i + 1 \in 1 .. Len(w) /\ u[i + 1] = "moved" /\ \A j \in 1 .. Len(w) : u[j] \in {w[j], "moved"}
  BY <1>1, <1>2, SpoiledInsertion
<1>11. Splice(t, i, i, Inits(0)) = t /\ Splice(s, i, i, Inits(0)) = s
  <2> HIDE DEF t, s
  <2>1. i <= Len(s) /\ i <= Len(t)
    BY <1>1, <1>9
  <2> QED
    BY <1>1, <1>9, <2>1, NothingInserted
<1> HIDE DEF t, s, vs
<1>12. (IF ins = 0 THEN t ELSE s) = t /\ Inits(ins) = Inits(0)
  BY <1>5
<1>13. Good(mem', arr', [want EXCEPT ![n] = u]) /\ want' = [want EXCEPT ![n] = w]
  BY <1>7, <1>8, <1>11, <1>12
<1> HIDE DEF u, w
<1>14. ArraysTypeOK' /\ mem'.faults = {} /\ Held(mem', arr'[n].begin, arr'[n].last) = u /\ want'[n] = w
  <2>1. "empty range" \in Misuses
    BY DEF Misuses
  <2> QED
    BY <1>1, <1>3, <1>10, <1>13, <2>1, Misused
<1>15. CostOfMisuse'
  <2>1. PICK k \in 1 .. Len(w) : k = i + 1
    BY <1>10
  <2> QED
    BY <1>3, <1>10, <1>14, <2>1, EmptyRangeCosts
<1> QED
  BY <1>3, <1>14, <1>15

\* When n grows by one element, its elements have first moved to the new allocation.
LEMMA GrownApart ==
  ASSUME Good(mem, arr, want), NEW n \in Arrays, Spare = {"raw"}, Size(arr[n]) < MaxLen,
         NEW g, g = GrownSize(Size(arr[n]) + 1), NEW c, c = Placed(mem, g).begin
  PROVE  /\ Room(arr[n].begin, arr[n].last, arr[n].end, want[n], c, g)
         /\ Filled(UninitializedMove(AllocateMemory(mem, g), arr[n].begin, arr[n].last, c),
                   arr[n].begin, arr[n].last, c, g, want[n])
<1> DEFINE had == Size(arr[n])
<1>1. had \in Nat /\ had + 1 \in 1 .. MaxLen
  <2>1. arr[n].begin \in Nat /\ arr[n].last \in Nat /\ arr[n].begin <= arr[n].last
    BY ArrayIs
  <2>2. had \in Nat
    BY <2>1 DEF Size
  <2> QED
    BY <2>2, RoomAssumption
<1>2. g \in 0 .. MaxCap /\ had + 1 <= g
  BY <1>1, GrownIs
<1>3. had <= g
  BY <1>1, <1>2
<1>4. /\ Room(arr[n].begin, arr[n].last, arr[n].end, want[n], c, g)
      /\ Clean(AllocateMemory(mem, g))
      /\ \A x \in Address : AllocateMemory(mem, g).slot[x] = IF x \in Span(c, c + g) THEN "raw" ELSE mem.slot[x]
  BY <1>2, <1>3, PlacedApart
<1> QED
  BY <1>4, MovedOut

LEMMA FrontOfAppended ==
  ASSUME NEW s \in Seq(Alive), NEW v \in Alive
  PROVE  Append(s, v) # <<>> /\ Last(Append(s, v)) = v /\ Front(Append(s, v)) = s
<1> DEFINE u == Append(s, v)
<1>1. u \in Seq(Alive) /\ Len(u) = Len(s) + 1 /\ u[Len(s) + 1] = v /\ \A i \in 1 .. Len(s) : u[i] = s[i]
  BY AppendIs
<1> HIDE DEF u
<1>2. Len(s) \in Nat
  OBVIOUS
<1>3. Len(u) - 1 = Len(s) /\ Len(s) \in 0 .. Len(u)
  BY <1>1, <1>2
<1>4. SubSeq(u, 1, Len(s)) \in Seq(Alive) /\ Len(SubSeq(u, 1, Len(s))) = Len(s)
      /\ \A i \in 1 .. Len(s) : SubSeq(u, 1, Len(s))[i] = u[i]
  BY <1>1, <1>3, PrefixIs
<1>5. SubSeq(u, 1, Len(s)) = s
  BY <1>1, <1>4, SameSequence
<1>6. Last(u) = v
  BY <1>1 DEF Last
<1>7. Front(u) = s
  BY <1>3, <1>5 DEF Front
<1>8. u # <<>>
  BY <1>1, <1>2
<1> QED
  BY <1>6, <1>7, <1>8 DEF u

LEMMA AliasCosts ==
  ASSUME NEW n \in Arrays, NEW s \in Seq(Alive), NEW v \in Alive, mem'.faults = {},
         Held(mem', arr'[n].begin, arr'[n].last) = Append(s, "moved"), want'[n] = Append(s, v), misuse' = {"alias"}
  PROVE  CostOfMisuse'
<1>1. /\ Append(s, "moved") # <<>> /\ Last(Append(s, "moved")) = "moved"
      /\ Front(Append(s, "moved")) = s /\ Front(Append(s, v)) = s
  BY SlotsDiffer, FrontOfAppended
<1> QED
  BY <1>1 DEF CostOfMisuse

LEMMA PushBackOwnKeeps ==
  ASSUME Good(mem, arr, want), NEW n \in Arrays, Spare = {"raw"}, ~ Full(n), NEW i \in Nat, PushBackOwn(n, i)
  PROVE  Good(mem', arr', want') /\ misuse' = misuse
<1> DEFINE b == arr[n].begin
           l == arr[n].last
           s == want[n]
           a == b + i
           new == NewFrom(Size(arr[n]), a)
           v == s[i + 1]
<1>1. misuse' = misuse /\ EmplaceBack(n, new, v)
  BY DEF PushBackOwn
<1>2. b \in Nat /\ l \in Nat /\ b <= l /\ s \in Seq(Alive) /\ Len(s) = l - b
  BY ArrayIs
<1>3. \A x \in Span(b, l) : mem.slot[x] = s[x - b + 1]
  BY ArrayIs
<1>4. i < l - b
  BY DEF PushBackOwn, Size
<1>5. Worth(mem, new) = <<mem.slot[a]>>
  BY WorthOfNewFrom
<1> HIDE DEF new, b, l, s
<1>6. a \in Span(b, l) /\ a - b + 1 = i + 1 /\ i + 1 \in 1 .. Len(s)
  BY <1>2, <1>4 DEF Span
<1>7. mem.slot[a] = v
  BY <1>3, <1>6
<1>8. v \in Alive
  BY <1>2, <1>6
<1> HIDE DEF v, a
<1>9. Worth(mem, new) = <<v>>
  BY <1>5, <1>7
<1> QED
  BY <1>1, <1>8, <1>9, EmplaceInPlace

LEMMA PushBackOwnCosts ==
  ASSUME Good(mem, arr, want), NEW n \in Arrays, Spare = {"raw"}, Full(n), Size(arr[n]) < MaxLen,
         NEW i \in Nat, PushBackOwn(n, i), kind' = kind, kind \in Kinds
  PROVE  misuse' = {"alias"} /\ ArraysTypeOK' /\ CostOfMisuse'
<1> DEFINE b == arr[n].begin
           l == arr[n].last
           e == arr[n].end
           s == want[n]
           a == b + i
           new == NewFrom(Size(arr[n]), a)
           v == s[i + 1]
           g == GrownSize(Size(arr[n]) + 1)
           c == Placed(mem, g).begin
           k == UninitializedMove(AllocateMemory(mem, g), b, l, c)
<1>1. misuse' = {"alias"} /\ EmplaceBack(n, new, v)
  BY DEF PushBackOwn
<1>2. b \in Nat /\ l \in Nat /\ b <= l /\ s \in Seq(Alive) /\ Len(s) = l - b
  BY ArrayIs
<1>3. \A x \in Span(b, l) : x \in Address
  BY ArrayIs
<1>4. i < l - b
  BY DEF PushBackOwn, Size
<1>5. Worth(k, new) = <<k.slot[a]>> /\ new.to = Size(arr[n])
  BY WorthOfNewFrom
<1>6. Room(b, l, e, s, c, g) /\ Filled(k, b, l, c, g, s)
  BY GrownApart
<1> HIDE DEF new, b, l, e, s
<1>7. a \in Span(b, l) /\ i + 1 \in 1 .. Len(s)
  BY <1>2, <1>4 DEF Span
<1>8. v \in Alive
  BY <1>2, <1>7
<1> HIDE DEF v, a
<1>9. k.slot[a] = "moved"
  <2> HIDE DEF c, g, k
  <2>1. a \notin Span(c, c + g) /\ a \in Address
    BY <1>3, <1>6, <1>7, Apart
  <2>2. a \notin Span(c, c + Len(s))
    BY <1>6, <2>1 DEF Span, Room
  <2> QED
    BY <1>6, <1>7, <2>1, <2>2 DEF Filled
<1>10. Worth(k, new) = <<"moved">> /\ "moved" \in Alive
  BY <1>5, <1>9, SlotsDiffer
<1>11. Worth(UninitializedMove(AllocateMemory(mem, GrownSize(Size(arr[n]) + 1)), arr[n].begin, arr[n].last,
                                Placed(mem, GrownSize(Size(arr[n]) + 1)).begin), new) = <<"moved">>
  BY <1>10 DEF k, c, g, b, l
<1>12. Good(mem', arr', [want EXCEPT ![n] = Append(want[n], "moved")])
  BY <1>1, <1>5, <1>10, <1>11, EmplaceInNewPlace
<1>13. want' = [want EXCEPT ![n] = Append(want[n], v)]
  BY <1>1 DEF EmplaceBack, Becomes
<1> DEFINE u == Append(s, "moved")
           w == Append(s, v)
<1>14. u \in Seq(Alive) /\ w \in Seq(Alive)
  BY <1>2, <1>8, <1>10, AppendIs
<1>15. Good(mem', arr', [want EXCEPT ![n] = u]) /\ want' = [want EXCEPT ![n] = w]
  BY <1>12, <1>13 DEF s
<1> HIDE DEF u, w, k, c, g
<1>16. ArraysTypeOK' /\ mem'.faults = {} /\ Held(mem', arr'[n].begin, arr'[n].last) = u /\ want'[n] = w
  <2>1. want \in [Arrays -> Seq(Alive)] /\ "alias" \in Misuses
    BY DEF Good, Misuses
  <2> QED
    BY <1>1, <1>14, <1>15, <2>1, Misused
<1>17. CostOfMisuse'
  BY <1>1, <1>2, <1>8, <1>16, AliasCosts DEF u, w
<1> QED
  BY <1>1, <1>16, <1>17

LEMMA ThrownCosts ==
  ASSUME Good(mem, arr, want), NEW n \in Arrays, Spare = {"raw"}, Size(arr[n]) < MaxLen, PushBackThrows(n),
         kind' = kind, kind \in Kinds
  PROVE  misuse' = {"failed element"} /\ ArraysTypeOK' /\ CostOfMisuse'
<1> DEFINE b == arr[n].begin
           l == arr[n].last
           e == arr[n].end
           s == want[n]
           g == GrownSize(Size(arr[n]) + 1)
           c == Placed(mem, g).begin
           k == UninitializedMove(AllocateMemory(mem, g), b, l, c)
           h == Held(k, b, l)
<1>1. misuse' = {"failed element"} /\ arr' = arr /\ want' = want /\ mem' = k
  BY DEF PushBackThrows, Moved, OfChunk
<1>2. b \in Nat /\ l \in Nat /\ b <= l /\ s \in Seq(Alive) /\ Len(s) = l - b
  BY ArrayIs
<1>3. \A x \in Span(b, l) : x \in Address
  BY ArrayIs
<1>4. l - b > 0
  BY DEF PushBackThrows, Size
<1>5. Room(b, l, e, s, c, g) /\ Filled(k, b, l, c, g, s)
  BY GrownApart
<1> HIDE DEF b, l, e, s, g, c, k
<1>6. Clean(k) /\ \A x \in Address : k.slot[x] =
       IF x \in Span(c, c + Len(s)) THEN s[x - c + 1]
       ELSE IF x \in Span(c, c + g) THEN "raw"
       ELSE IF x \in Span(b, l) THEN "moved" ELSE mem.slot[x]
  BY <1>5 DEF Filled
<1>7. c \in Nat /\ g \in Nat /\ Len(s) <= g /\ \A x \in Span(c, c + g) : x \in Address /\ mem.slot[x] = "free"
  BY <1>5 DEF Room
<1>8. c \in Span(c, c + g) /\ c \in Span(c, c + Len(s)) /\ c - c + 1 = 1 /\ 1 \in 1 .. Len(s)
  BY <1>2, <1>4, <1>7 DEF Span
<1>9. c \in Address /\ k.slot[c] \in Alive
  BY <1>2, <1>6, <1>7, <1>8
<1>10. ASSUME NEW o \in Arrays PROVE c \notin Span(arr[o].begin, arr[o].end)
  <2>1. SUFFICES ASSUME Owns(arr, o, c) PROVE FALSE
    BY DEF Owns
  <2>2. mem.slot[c] # "free"
    BY <2>1, OwnedIs
  <2> QED
    BY <1>7, <1>8, <2>2
<1>11. h \in Seq(Slots) /\ Len(h) = l - b /\ \A i \in 1 .. l - b : h[i] = k.slot[b + i - 1]
  <2>1. b \in Int /\ l \in Int
    BY <1>2
  <2> QED
    BY <1>2, <1>3, <1>6, <2>1, HeldIs
<1> HIDE DEF h
<1>12. ASSUME NEW i \in 1 .. Len(s) PROVE h[i] = "moved"
  <2>1. i \in 1 .. l - b
    BY <1>2
  <2>2. b + i - 1 \in Span(b, l)
    BY <1>2, <2>1 DEF Span
  <2>3. b + i - 1 \notin Span(c, c + g)
    BY <1>5, <2>2, Apart
  <2>4. b + i - 1 \notin Span(c, c + Len(s))
    BY <1>2, <1>7, <2>3 DEF Span
  <2>5. k.slot[b + i - 1] = "moved"
    BY <1>3, <1>6, <2>2, <2>3, <2>4
  <2> QED
    BY <1>11, <2>1, <2>5
<1>13. s # <<>>
  BY <1>2, <1>4
<1>14. ArraysTypeOK'
  <2>1. arr \in [Arrays -> [begin : Nat, end : Nat, last : Nat]] /\ want \in [Arrays -> Seq(Alive)]
    BY DEF Good
  <2>2. {"failed element"} \subseteq Misuses
    BY DEF Misuses
  <2> QED
    BY <1>1, <1>6, <2>1, <2>2 DEF ArraysTypeOK, Clean, Slots
<1>15. CostOfMisuse'
  <2>1. \E a \in Address : mem'.slot[a] \in Alive /\ \A o \in Arrays : a \notin Span(arr'[o].begin, arr'[o].end)
    BY <1>1, <1>9, <1>10
  <2>2. want'[n] # <<>> /\ \A i \in 1 .. Len(want'[n]) : Held(mem', arr'[n].begin, arr'[n].last)[i] = "moved"
    BY <1>1, <1>12, <1>13 DEF h, b, l, s
  <2> QED
    BY <1>1, <2>1, <2>2 DEF CostOfMisuse
<1> QED
  BY <1>1, <1>14, <1>15

LEMMA CopyAssignFailsCosts ==
  ASSUME Good(mem, arr, want), NEW n \in Arrays, NEW o \in Arrays, Spare = {"raw"}, CopyAssignFails(n, o),
         kind' = kind, kind \in Kinds
  PROVE  misuse' = {"failed copy"} /\ ArraysTypeOK' /\ CostOfMisuse'
<1> DEFINE k == Deallocate(Destroy(mem, arr[n].begin, arr[n].last), arr[n])
           a == OfChunk(NullChunk, arr[n].last)
<1>1. /\ misuse' = {"failed copy"} /\ mem' = k
      /\ arr' = [arr EXCEPT ![n] = a] /\ want' = [want EXCEPT ![n] = <<>>]
  BY DEF CopyAssignFails, Becomes, Destroyed
<1>2. Clean(k)
  BY Removed
<1>3. arr[n].last \in Nat /\ arr[n].last > 0
  <2>1. WellPlaced(arr[n]) /\ arr[n] # NullArray
    BY DEF CopyAssignFails, Good, Holds
  <2>2. Base(arr[n].begin) /\ arr[n].begin <= arr[n].last /\ arr[n].last \in Nat
    BY <2>1 DEF WellPlaced
  <2>3. arr[n].begin \in Nat \ {0}
    BY <2>2, BaseIs
  <2> QED
    BY <2>2, <2>3
<1>4. a \in [begin : Nat, end : Nat, last : Nat] /\ a.begin = Null /\ Size(a) > 0
  BY <1>3 DEF OfChunk, NullChunk, Null, Size
<1> HIDE DEF k, a
<1>5. arr \in [Arrays -> [begin : Nat, end : Nat, last : Nat]] /\ want \in [Arrays -> Seq(Alive)]
  BY DEF Good
<1>6. ArraysTypeOK'
  <2>1. {"failed copy"} \subseteq Misuses /\ <<>> \in Seq(Alive)
    BY DEF Misuses
  <2>2. arr' \in [Arrays -> [begin : Nat, end : Nat, last : Nat]]
    BY <1>1, <1>4, <1>5
  <2>3. \A p \in Arrays : want'[p] \in Seq(Alive)
    BY <1>1, <1>5, <2>1
  <2> QED
    BY <1>1, <1>2, <2>1, <2>2, <2>3 DEF ArraysTypeOK, Clean, Slots
<1>7. CostOfMisuse'
  <2>1. mem'.faults = {}
    BY <1>1, <1>2 DEF Clean
  <2>2. arr'[n].begin = Null /\ Size(arr'[n]) > 0
    BY <1>1, <1>4, <1>5
  <2> QED
    BY <1>1, <2>1, <2>2 DEF CostOfMisuse
<1> QED
  BY <1>1, <1>6, <1>7

-----------------------------------------------------------------------------
(* New allocations *)

\* The size slots at c hold w, followed by what lies behind elements.
Acquires(m, k, c, size, w) ==
  /\ Clean(k) /\ w \in Seq(Alive) /\ Len(w) <= size
  /\ \A x \in Span(c, c + Len(w)) : k.slot[x] = w[x - c + 1]
  /\ \A x \in Span(c + Len(w), c + size) : k.slot[x] \in Spare
  /\ \A x \in Address : x \notin Span(c, c + size) => k.slot[x] = m.slot[x]

\* An array that had none gets an allocation and the elements of w in its first slots.
LEMMA Acquired ==
  ASSUME NEW m, NEW ar, NEW wn, Good(m, ar, wn), NEW n \in Arrays, ar[n].begin = Null, NEW size \in 0 .. MaxCap,
         kind = "limited" => size = MaxLen, NEW c, c = Placed(m, size).begin,
         NEW k, NEW w, Acquires(m, k, c, size, w), NEW last, last = c + Len(w)
  PROVE  Good(k, [ar EXCEPT ![n] = OfChunk(Placed(m, size), last)], [wn EXCEPT ![n] = w])
<1> DEFINE a == OfChunk(Placed(m, size), last)
<1>1. Base(c) /\ Placed(m, size).end = c + size /\ \A x \in Span(c, c + MaxCap) : m.slot[x] = "free"
  BY AllocatedIs
<1>2. c \in Nat /\ MaxCap \in Nat /\ size \in Nat /\ size <= MaxCap
  BY <1>1, BaseIs, MemoryAssumption
<1>0. /\ Clean(k) /\ w \in Seq(Alive) /\ Len(w) <= size /\ Len(w) \in Nat
      /\ \A x \in Span(c, c + Len(w)) : k.slot[x] = w[x - c + 1]
      /\ \A x \in Span(c + Len(w), c + size) : k.slot[x] \in Spare
      /\ \A x \in Address : x \notin Span(c, c + size) => k.slot[x] = m.slot[x]
  BY DEF Acquires
<1>3. a = [begin |-> c, end |-> c + size, last |-> last]
  BY <1>1 DEF OfChunk
<1>4. ar[n].begin = Null /\ ar[n].end = Null
  BY ArrayIs
<1> HIDE DEF a
<1>5. a.begin = c /\ a.end = c + size /\ a.last = last /\ a \in [begin : Nat, end : Nat, last : Nat]
  BY <1>0, <1>2, <1>3
<1>6. ASSUME NEW x \in Address, x \notin Span(a.begin, a.end)
      PROVE  k.slot[x] = IF x \in Span(ar[n].begin, ar[n].end) THEN "free" ELSE m.slot[x]
  <2>1. x \notin Span(ar[n].begin, ar[n].end)
    BY <1>4 DEF Span, Null
  <2> QED
    BY <1>0, <1>5, <1>6, <2>1
<1>7. Moves(m, ar[n], k, a, w)
  <2>1. c <= last /\ last <= c + size /\ c + size <= c + MaxCap /\ Len(w) = last - c
    BY <1>0, <1>2
  <2>2. a.begin <= a.last /\ a.last <= a.end /\ a.end <= a.begin + MaxCap /\ Len(w) = a.last - a.begin
    BY <1>5, <2>1
  <2>3. kind = "limited" => a.end = a.begin + MaxLen
    BY <1>5
  <2>4. /\ \A x \in Span(a.begin, a.last) : k.slot[x] = w[x - a.begin + 1]
        /\ \A x \in Span(a.last, a.end) : k.slot[x] \in Spare
        /\ \A x \in Span(a.begin, a.begin + MaxCap) : m.slot[x] = "free"
    BY <1>0, <1>1, <1>5
  <2> QED
    BY <1>0, <1>1, <1>5, <1>6, <2>2, <2>3, <2>4 DEF Moves
<1> QED
  BY <1>0, <1>7, InNewPlace DEF a

LEMMA Constructed ==
  ASSUME Good(mem, arr, want), NEW n \in Arrays, arr[n] = NullArray, NEW vs \in Seq(Alive), Len(vs) <= MaxCap,
         kind # "limited", NEW size, size = Len(vs), NEW c, c = Placed(mem, size)
  PROVE  Good(Construct(AllocateMemory(mem, size), c.begin, vs),
              [arr EXCEPT ![n] = OfChunk(c, c.end)], [want EXCEPT ![n] = vs])
<1> DEFINE b == c.begin
           m == AllocateMemory(mem, size)
           k == Construct(m, b, vs)
<1>1. size \in 0 .. MaxCap /\ MaxCap \in Nat
  BY MemoryAssumption
<1>2. Base(b) /\ c.end = b + size /\ \A x \in Span(b, b + MaxCap) : mem.slot[x] = "free"
  BY <1>1, AllocatedIs
<1>3. Clean(m) /\ \A x \in Address : m.slot[x] = IF x \in Span(b, b + size) THEN "raw" ELSE mem.slot[x]
  <2>1. Clean(m) /\ \A x \in Address : m.slot[x] = IF x \in Span(b, c.end) THEN "raw" ELSE mem.slot[x]
    BY <1>1, AllocatedIs
  <2> QED
    BY <1>2, <2>1
<1>4. arr[n].begin = Null
  BY DEF NullArray
<1> HIDE DEF b, m
<1>5. b \in Nat /\ \A x \in Int : b <= x /\ x <= b + MaxCap => x \in Address
  BY <1>2, BaseIs
<1>6. \A x \in Span(b, b + size) : x \in Address
  BY <1>1, <1>5 DEF Span
<1>7. Clean(k) /\ \A x \in Address : k.slot[x] = IF x \in Span(b, b + size) THEN vs[x - b + 1] ELSE m.slot[x]
  <2>1. vs \in Seq(Slots) /\ b \in Int
    BY <1>5, SlotsDiffer
  <2>2. \A x \in Span(b, b + Len(vs)) : x \in Address /\ m.slot[x] = "raw"
    BY <1>3, <1>6
  <2> QED
    BY <1>3, <2>1, <2>2, ConstructIs
<1> HIDE DEF k
<1>8. \A x \in Span(b, b + Len(vs)) : k.slot[x] = vs[x - b + 1]
  BY <1>6, <1>7
<1>9. \A x \in Span(b + Len(vs), b + size) : k.slot[x] \in Spare
  BY <1>1, <1>5 DEF Span
<1>10. \A x \in Address : x \notin Span(b, b + size) => k.slot[x] = mem.slot[x]
  BY <1>3, <1>7
<1>11. b = Placed(mem, size).begin /\ c.end = b + Len(vs) /\ Len(vs) <= size
  BY <1>1, <1>2 DEF b
<1>12. Acquires(mem, k, b, size, vs)
  BY <1>7, <1>8, <1>9, <1>10, <1>11 DEF Acquires
<1>13. PICK last : last = c.end /\ last = b + Len(vs)
  BY <1>11
<1>14. Good(k, [arr EXCEPT ![n] = OfChunk(Placed(mem, size), last)], [want EXCEPT ![n] = vs])
  BY <1>1, <1>4, <1>11, <1>12, <1>13, Acquired
<1> QED
  BY <1>13, <1>14 DEF k, m, b

LEMMA ConstructFromKeeps ==
  ASSUME Good(mem, arr, want), NEW n \in Arrays, NEW vs \in Seq(Alive), Len(vs) <= MaxCap,
         kind # "limited", ConstructFrom(n, vs)
  PROVE  Good(mem', arr', want') /\ misuse' = misuse
<1>1. arr[n] = NullArray
  BY DEF ConstructFrom
<1>2. PICK size : size = Len(vs)
  OBVIOUS
<1>3. PICK c : c = Placed(mem, size)
  OBVIOUS
<1>4. Good(Construct(AllocateMemory(mem, size), c.begin, vs),
           [arr EXCEPT ![n] = OfChunk(c, c.end)], [want EXCEPT ![n] = vs])
  BY <1>1, <1>2, <1>3, Constructed
<1> QED
  BY <1>2, <1>3, <1>4 DEF ConstructFrom, Becomes

LEMMA CreateKeeps ==
  ASSUME Good(mem, arr, want), NEW n \in Arrays, Spare = {"raw"}, NEW k \in 0 .. MaxLen, CreateWithCapacity(n, k)
  PROVE  Good(mem', arr', want') /\ misuse' = misuse
<1> DEFINE c == Placed(mem, k).begin
           m == AllocateMemory(mem, k)
<1>1. k \in 0 .. MaxCap
  <2>1. MaxLen \in 0 .. MaxCap /\ MaxCap \in Nat
    BY RoomAssumption, MemoryAssumption
  <2> QED
    BY <2>1
<1>2. Base(c) /\ Placed(mem, k).end = c + k
  BY <1>1, AllocatedIs
<1>3. Clean(m) /\ \A x \in Address : m.slot[x] = IF x \in Span(c, c + k) THEN "raw" ELSE mem.slot[x]
  <2>1. Clean(m) /\ \A x \in Address : m.slot[x] = IF x \in Span(c, Placed(mem, k).end) THEN "raw" ELSE mem.slot[x]
    BY <1>1, AllocatedIs
  <2> QED
    BY <1>2, <2>1
<1>4. arr[n].begin = Null /\ kind # "limited"
  BY NotLimited DEF CreateWithCapacity, NullArray
<1>5. /\ misuse' = misuse /\ mem' = m /\ arr' = [arr EXCEPT ![n] = OfChunk(Placed(mem, k), c)]
      /\ want' = [want EXCEPT ![n] = <<>>]
  BY DEF CreateWithCapacity, Becomes
<1>6. PICK w \in Seq(Alive) : w = <<>>
  <2>1. <<>> \in Seq(Alive)
    OBVIOUS
  <2> QED
    BY <2>1
<1> HIDE DEF m
<1>7. c \in Nat /\ MaxCap \in Nat /\ \A x \in Int : c <= x /\ x <= c + MaxCap => x \in Address
  BY <1>2, BaseIs, MemoryAssumption
<1>8. Len(w) <= k /\ c = c + Len(w)
  BY <1>1, <1>6, <1>7
<1>9. \A x \in Span(c, c + Len(w)) : m.slot[x] = w[x - c + 1]
  BY <1>7, <1>8 DEF Span
<1>10. \A x \in Span(c + Len(w), c + k) : m.slot[x] \in Spare
  <2>1. c + Len(w) = c
    BY <1>8
  <2>2. \A x \in Span(c, c + k) : x \in Address
    BY <1>1, <1>7 DEF Span
  <2> QED
    BY <1>3, <2>1, <2>2
<1>11. \A x \in Address : x \notin Span(c, c + k) => m.slot[x] = mem.slot[x]
  BY <1>3
<1>12. Acquires(mem, m, c, k, w)
  BY <1>3, <1>6, <1>8, <1>9, <1>10, <1>11 DEF Acquires
<1>13. Good(m, [arr EXCEPT ![n] = OfChunk(Placed(mem, k), c)], [want EXCEPT ![n] = w])
  BY <1>1, <1>4, <1>8, <1>12, Acquired
<1> QED
  BY <1>5, <1>6, <1>13

\* What n gets is a copy of the elements of o, in an allocation of the same size.
LEMMA Copied ==
  ASSUME NEW m, NEW ar, NEW wn, Good(m, ar, wn), NEW n \in Arrays, NEW o \in Arrays, Spare = {"raw"},
         ar[n].begin = Null, NEW size, size = AllocationSize(ar[o]), NEW last, last = Placed(m, size).begin + Size(ar[o])
  PROVE  Good(UninitializedCopy(AllocateMemory(m, size), ar[o].begin, ar[o].last, Placed(m, size).begin),
              [ar EXCEPT ![n] = OfChunk(Placed(m, size), last)], [wn EXCEPT ![n] = wn[o]])
<1> DEFINE b == ar[o].begin
           l == ar[o].last
           e == ar[o].end
           w == wn[o]
           c == Placed(m, size).begin
           d == AllocateMemory(m, size)
           k == UninitializedCopy(d, b, l, c)
<1>1. b \in Nat /\ l \in Nat /\ e \in Nat /\ b <= l /\ l <= e /\ e <= b + MaxCap /\ w \in Seq(Alive) /\ Len(w) = l - b
  BY ArrayIs
<1>2. \A x \in Span(b, l) : x \in Address /\ m.slot[x] = w[x - b + 1] /\ m.slot[x] \in Alive
  BY ArrayIs
<1>3. size = e - b /\ last = c + (l - b)
  BY DEF AllocationSize, Size
<1> HIDE DEF b, l, e, w
<1>4. size \in 0 .. MaxCap /\ MaxCap \in Nat
  BY <1>1, <1>3, MemoryAssumption
<1>5. Base(c) /\ Placed(m, size).end = c + size /\ \A x \in Span(c, c + MaxCap) : m.slot[x] = "free"
  BY <1>4, AllocatedIs
<1>6. Clean(d) /\ \A x \in Address : d.slot[x] = IF x \in Span(c, c + size) THEN "raw" ELSE m.slot[x]
  <2>1. Clean(d) /\ \A x \in Address : d.slot[x] = IF x \in Span(c, Placed(m, size).end) THEN "raw" ELSE m.slot[x]
    BY <1>4, AllocatedIs
  <2> QED
    BY <1>5, <2>1
<1> HIDE DEF c, d
<1>7. c \in Nat /\ \A x \in Int : c <= x /\ x <= c + MaxCap => x \in Address
  BY <1>5, BaseIs
<1>8. ASSUME NEW x \in Span(c, c + size) PROVE x \in Address /\ m.slot[x] = "free"
  <2>1. x \in Int /\ c <= x /\ x < c + size
    BY <1>4, <1>7 DEF Span
  <2>2. x \in Span(c, c + MaxCap) /\ x <= c + MaxCap
    BY <1>4, <1>7, <2>1 DEF Span
  <2> QED
    BY <1>5, <1>7, <2>1, <2>2
<1>9. ASSUME NEW x \in Span(b, l) PROVE x \in Address /\ d.slot[x] = w[x - b + 1] /\ d.slot[x] \in Alive
  <2>1. x \notin Span(c, c + size)
    BY <1>2, <1>8, SlotsDiffer
  <2> QED
    BY <1>2, <1>6, <2>1
<1>10. \A x \in Span(c, c + (l - b)) : x \in Span(c, c + size)
  BY <1>1, <1>3, <1>7 DEF Span
<1>11. /\ Clean(k)
       /\ \A x \in Address : k.slot[x] = IF x \in Span(c, c + (l - b)) THEN d.slot[b + (x - c)] ELSE d.slot[x]
  <2>1. \A x \in Span(c, c + (l - b)) : x \in Address /\ d.slot[x] = "raw"
    BY <1>6, <1>8, <1>10
  <2>2. b \in Int /\ l \in Int /\ c \in Int
    BY <1>1, <1>7
  <2> QED
    BY <1>1, <1>6, <1>9, <2>1, <2>2, UninitializedCopyIs
<1> HIDE DEF k
<1>12. ASSUME NEW x \in Span(c, c + (l - b)) PROVE k.slot[x] = w[x - c + 1]
  <2>1. PICK y : y = b + (x - c)
    OBVIOUS
  <2>2. y \in Span(b, l) /\ y - b + 1 = x - c + 1
    BY <1>1, <1>7, <2>1 DEF Span
  <2>3. k.slot[x] = d.slot[y]
    BY <1>8, <1>10, <1>11, <2>1
  <2>4. d.slot[y] = w[y - b + 1]
    BY <1>9, <2>2
  <2> QED
    BY <2>2, <2>3, <2>4
<1>13. ASSUME NEW x \in Span(c + (l - b), c + size) PROVE k.slot[x] \in Spare
  <2>1. x \in Span(c, c + size) /\ x \notin Span(c, c + (l - b))
    BY <1>1, <1>3, <1>7 DEF Span
  <2> QED
    BY <1>6, <1>8, <1>11, <2>1
<1>14. \A x \in Address : x \notin Span(c, c + size) => k.slot[x] = m.slot[x]
  BY <1>6, <1>10, <1>11
<1>15. Acquires(m, k, c, size, w)
  <2>1. l - b <= size
    BY <1>1, <1>3
  <2> QED
    BY <1>1, <1>11, <1>12, <1>13, <1>14, <2>1 DEF Acquires
<1>16. last = c + Len(w) /\ kind # "limited"
  BY <1>1, <1>3, NotLimited
<1>17. c = Placed(m, size).begin
  BY DEF c
<1>18. Good(k, [ar EXCEPT ![n] = OfChunk(Placed(m, size), last)], [wn EXCEPT ![n] = w])
  BY <1>4, <1>15, <1>16, <1>17, Acquired
<1> QED
  BY <1>18 DEF k, d, c, b, l, w

LEMMA CopyConstructKeeps ==
  ASSUME Good(mem, arr, want), NEW n \in Arrays, NEW o \in Arrays, Spare = {"raw"}, CopyConstruct(n, o)
  PROVE  Good(mem', arr', want') /\ misuse' = misuse
<1>1. PICK size : size = AllocationSize(arr[o])
  OBVIOUS
<1>2. PICK last : last = Placed(mem, size).begin + Size(arr[o])
  OBVIOUS
<1>3. arr[n].begin = Null
  BY DEF CopyConstruct, NullArray
<1>4. Good(UninitializedCopy(AllocateMemory(mem, size), arr[o].begin, arr[o].last, Placed(mem, size).begin),
           [arr EXCEPT ![n] = OfChunk(Placed(mem, size), last)], [want EXCEPT ![n] = want[o]])
  BY <1>1, <1>2, <1>3, Copied
<1> QED
  BY <1>1, <1>2, <1>4 DEF CopyConstruct, Becomes

LEMMA CopyAssignKeeps ==
  ASSUME Good(mem, arr, want), NEW n \in Arrays, NEW o \in Arrays, Spare = {"raw"}, CopyAssign(n, o)
  PROVE  Good(mem', arr', want') /\ misuse' = misuse
<1> DEFINE m == Deallocate(Destroy(mem, arr[n].begin, arr[n].last), arr[n])
           ar == [arr EXCEPT ![n] = NullArray]
           wn == [want EXCEPT ![n] = <<>>]
<1>1. PICK size : size = AllocationSize(arr[o])
  OBVIOUS
<1>2. PICK last : last = Placed(m, size).begin + Size(arr[o])
  OBVIOUS
<1>3. Good(m, ar, wn)
  BY Removed
<1>4. n # o
  BY DEF CopyAssign
<1>5. ar[n].begin = Null /\ ar[o] = arr[o] /\ wn[o] = want[o]
  BY <1>4 DEF Good, NullArray
<1>6. /\ misuse' = misuse
      /\ mem' = UninitializedCopy(AllocateMemory(m, size), arr[o].begin, arr[o].last, Placed(m, size).begin)
      /\ arr' = [arr EXCEPT ![n] = OfChunk(Placed(m, size), last)] /\ want' = [want EXCEPT ![n] = want[o]]
  BY <1>1, <1>2 DEF CopyAssign, Becomes, Destroyed, Reallocated, ReallocateToDestroyed
<1> HIDE DEF m
<1>7. \A a, w : [ar EXCEPT ![n] = a] = [arr EXCEPT ![n] = a] /\ [wn EXCEPT ![n] = w] = [want EXCEPT ![n] = w]
  BY DEF Good
<1> HIDE DEF ar, wn
<1>8. size = AllocationSize(ar[o]) /\ last = Placed(m, size).begin + Size(ar[o])
  BY <1>1, <1>2, <1>5
<1>9. Good(UninitializedCopy(AllocateMemory(m, size), ar[o].begin, ar[o].last, Placed(m, size).begin),
           [ar EXCEPT ![n] = OfChunk(Placed(m, size), last)], [wn EXCEPT ![n] = wn[o]])
  BY <1>3, <1>5, <1>8, Copied
<1> QED
  BY <1>5, <1>6, <1>7, <1>9

LEMMA AllocCopyKeeps ==
  ASSUME Good(mem, arr, want), NEW n \in Arrays, NEW o \in Arrays, Spare = {"raw"}, arr[o].last = arr[o].end,
         AllocCopyConstruct(n, o)
  PROVE  Good(mem', arr', want') /\ misuse' = misuse
<1>1. PICK size : size = AllocationSize(arr[o])
  OBVIOUS
<1>2. PICK last : last = Placed(mem, size).begin + Size(arr[o])
  OBVIOUS
<1>3. arr[n].begin = Null
  BY DEF AllocCopyConstruct, NullArray
<1>4. Good(UninitializedCopy(AllocateMemory(mem, size), arr[o].begin, arr[o].last, Placed(mem, size).begin),
           [arr EXCEPT ![n] = OfChunk(Placed(mem, size), last)], [want EXCEPT ![n] = want[o]])
  BY <1>1, <1>2, <1>3, Copied
<1> QED
  BY <1>1, <1>2, <1>4 DEF AllocCopyConstruct, Becomes

LEMMA AllocEmplaceBackKeeps ==
  ASSUME Good(mem, arr, want), NEW n \in Arrays, Spare = {"raw"}, NEW v \in Alive, AllocEmplaceBack(n, v)
  PROVE  Good(mem', arr', want') /\ misuse' = misuse
<1> DEFINE new == New(Size(arr[n]), <<v>>)
<1>1. Worth(mem, new) = <<v>>
  BY WorthOfNew
<1>2. EmplaceBack(n, new, v) /\ misuse' = misuse /\ arr[n].last # arr[n].end
  BY DEF AllocEmplaceBack, PushBack
<1> HIDE DEF new
<1>3. ~ Full(n)
  <2> DEFINE b == arr[n].begin
             l == arr[n].last
             e == arr[n].end
  <2>1. b \in Nat /\ l \in Nat /\ e \in Nat /\ b <= l /\ l <= e /\ l # e
    BY <1>2, ArrayIs
  <2>2. Full(n) <=> (l - b) + 1 > e - b
    BY DEF Full, Size, AllocationSize
  <2> HIDE DEF b, l, e
  <2>3. ~ ((l - b) + 1 > e - b)
    BY <2>1
  <2> QED
    BY <2>2, <2>3
<1> QED
  BY <1>1, <1>2, <1>3, EmplaceInPlace

LEMMA PartialCopyCosts ==
  ASSUME Good(mem, arr, want), NEW n \in Arrays, NEW o \in Arrays, Spare = {"raw"}, arr[o].last # arr[o].end,
         AllocCopyConstruct(n, o), kind' = kind, kind \in Kinds
  PROVE  misuse' = {"partial copy"} /\ ArraysTypeOK' /\ CostOfMisuse'
<1> DEFINE b == arr[o].begin
           l == arr[o].last
           e == arr[o].end
           size == AllocationSize(arr[o])
           p == Placed(mem, size)
           c == p.begin
           d == AllocateMemory(mem, size)
           f == [a \in Span(b, e) |-> d.slot[a]]
           r == Write(d, f, Alive, "used without an object")
           h == Held(d, b, e)
           k == Construct(r, c, h)
           a == OfChunk(p, c + Size(arr[o]))
<1>1. /\ misuse' = {"partial copy"} /\ mem' = k
      /\ arr' = [arr EXCEPT ![n] = a] /\ want' = [want EXCEPT ![n] = want[o]]
  BY DEF AllocCopyConstruct, Becomes, UninitializedCopy
<1>2. b \in Nat /\ l \in Nat /\ e \in Nat /\ b <= l /\ l <= e /\ e <= b + MaxCap /\ l # e
  BY ArrayIs
<1>3. \A x \in Span(l, e) : x \in Address /\ mem.slot[x] = "raw"
  BY ArrayIs
<1>4. size = e - b /\ Size(arr[o]) = l - b
  BY DEF AllocationSize, Size
<1> HIDE DEF b, l, e
<1>5. size \in 0 .. MaxCap /\ MaxCap \in Nat
  BY <1>2, <1>4, MemoryAssumption
<1>6. Base(c) /\ p.end = c + size /\ \A x \in Span(c, c + MaxCap) : mem.slot[x] = "free"
  BY <1>5, AllocatedIs
<1>7. Clean(d) /\ \A x \in Address : d.slot[x] = IF x \in Span(c, p.end) THEN "raw" ELSE mem.slot[x]
  BY <1>5, AllocatedIs
<1> HIDE DEF d, size
<1>8. c \in Nat
  BY <1>6, BaseIs
<1>9. a = [begin |-> c, end |-> c + size, last |-> c + (l - b)]
  BY <1>4, <1>6 DEF OfChunk
<1> HIDE DEF c, p, a
<1>10. a \in [begin : Nat, end : Nat, last : Nat]
  BY <1>2, <1>4, <1>5, <1>8, <1>9
<1>11. l \in Span(b, e) /\ d.slot[l] = "raw"
  <2>1. l \in Span(l, e) /\ l \in Span(b, e)
    BY <1>2 DEF Span
  <2>2. l \in Address /\ mem.slot[l] = "raw"
    BY <1>3, <2>1
  <2> QED
    BY <1>7, <2>1, <2>2
<1>12. r.slot \in [Address -> Slots]
  <2>1. r.slot = [x \in Address |-> IF x \in DOMAIN f THEN f[x] ELSE d.slot[x]]
    BY DEF Write
  <2>2. \A x \in Address : x \in DOMAIN f => f[x] = d.slot[x]
    OBVIOUS
  <2>3. \A x \in Address : d.slot[x] \in Slots
    BY <1>7 DEF Clean
  <2> HIDE DEF f, r
  <2> QED
    BY <2>1, <2>2, <2>3
<1>13. r.faults = {"used without an object"}
  <2>1. l \in DOMAIN f /\ d.slot[l] \notin Alive
    BY <1>11, SlotsDiffer
  <2>2. ~ \A x \in DOMAIN f : x \in Address /\ d.slot[x] \in Alive
    BY <2>1
  <2>3. r.faults = d.faults \cup {"used without an object"}
    BY <2>2 DEF Write
  <2> QED
    BY <1>7, <2>3 DEF Clean
<1> HIDE DEF r, f
<1>14. \A i \in 1 .. Len(h) : h[i] \in Slots
  <2>1. e - b \in Nat
    BY <1>2
  <2>2. Len(h) = e - b
    BY <2>1 DEF Held
  <2>3. \A i \in 1 .. e - b : h[i] = IF b + i - 1 \in Address THEN d.slot[b + i - 1] ELSE "free"
    BY DEF Held
  <2>4. \A x \in Address : d.slot[x] \in Slots
    BY <1>7 DEF Clean
  <2> HIDE DEF h
  <2> QED
    BY <2>2, <2>3, <2>4, SlotsDiffer
<1>15. Len(h) \in Nat
  <2>1. e - b \in Nat
    BY <1>2
  <2> QED
    BY <2>1 DEF Held
<1> HIDE DEF h
<1>16. k.slot \in [Address -> Slots] /\ "used without an object" \in k.faults /\ k.faults \subseteq Faults
  <2> DEFINE g == [x \in Span(c, c + Len(h)) |-> h[x - c + 1]]
  <2>1. k.slot = [x \in Address |-> IF x \in DOMAIN g THEN g[x] ELSE r.slot[x]]
    BY DEF Construct, Write
  <2>2. k.faults \in {r.faults, r.faults \cup {"constructed over an object"}}
    BY DEF Construct, Write
  <2>3. \A x \in Address : x \in DOMAIN g => g[x] \in Slots
    <3>1. \A x \in Span(c, c + Len(h)) : x - c + 1 \in 1 .. Len(h)
      BY <1>8, <1>15 DEF Span
    <3> QED
      BY <1>14, <3>1
  <2> HIDE DEF g, k
  <2>4. k.slot \in [Address -> Slots]
    BY <1>12, <2>1, <2>3
  <2> QED
    BY <1>13, <2>2, <2>4 DEF Faults
<1> HIDE DEF k
<1>17. ArraysTypeOK'
  <2>1. arr \in [Arrays -> [begin : Nat, end : Nat, last : Nat]] /\ want \in [Arrays -> Seq(Alive)]
    BY DEF Good
  <2>2. {"partial copy"} \subseteq Misuses
    BY DEF Misuses
  <2>3. arr' \in [Arrays -> [begin : Nat, end : Nat, last : Nat]]
    BY <1>1, <1>10, <2>1
  <2>4. \A q \in Arrays : want'[q] \in Seq(Alive)
    BY <1>1, <2>1
  <2> QED
    BY <1>1, <1>16, <2>2, <2>3, <2>4 DEF ArraysTypeOK, Slots
<1>18. CostOfMisuse'
  BY <1>1, <1>16 DEF CostOfMisuse
<1> QED
  BY <1>1, <1>17, <1>18

-----------------------------------------------------------------------------
(* Arrays whose slots all hold objects *)

\* The construction of a LimitedArray and of a buffer.
LEMMA AllInitialized ==
  ASSUME Good(mem, arr, want), NEW n \in Arrays, arr[n] = NullArray, Spare = Alive, NEW size \in 0 .. MaxCap,
         kind = "limited" => size = MaxLen, NEW count \in Nat, count <= size,
         NEW c, c = Placed(mem, size), NEW last, last = c.begin + count
  PROVE  Good(Initialize(AllocateMemory(mem, size), c.begin, c.end),
              [arr EXCEPT ![n] = OfChunk(c, last)], [want EXCEPT ![n] = Inits(count)])
<1> DEFINE b == c.begin
           m == AllocateMemory(mem, size)
           k == Initialize(m, b, c.end)
           w == Inits(count)
<1>1. size \in Nat /\ size <= MaxCap /\ MaxCap \in Nat
  BY MemoryAssumption
<1>2. Base(b) /\ c.end = b + size
  BY AllocatedIs
<1>3. Clean(m) /\ \A x \in Address : m.slot[x] = IF x \in Span(b, c.end) THEN "raw" ELSE mem.slot[x]
  BY AllocatedIs
<1>4. arr[n].begin = Null
  BY DEF NullArray
<1>5. b = Placed(mem, size).begin /\ c.end = b + size /\ last = b + count
  BY <1>2
<1> HIDE DEF b, m
<1>6. b \in Nat /\ \A x \in Int : b <= x /\ x <= b + MaxCap => x \in Address
  BY <1>2, BaseIs
<1>7. \A x \in Span(b, b + size) : x \in Address
  BY <1>1, <1>6 DEF Span
<1>8. Clean(k) /\ \A x \in Address : k.slot[x] = IF x \in Span(b, b + size) THEN "init" ELSE m.slot[x]
  <2>1. b \in Int /\ c.end \in Int /\ b <= c.end
    BY <1>1, <1>2, <1>6
  <2>2. \A x \in Span(b, c.end) : x \in Address /\ m.slot[x] = "raw"
    BY <1>2, <1>3, <1>7
  <2>3. Clean(k) /\ \A x \in Address : k.slot[x] = IF x \in Span(b, c.end) THEN "init" ELSE m.slot[x]
    BY <1>3, <2>1, <2>2, InitializeIs
  <2> QED
    BY <1>2, <2>3
<1> HIDE DEF k
<1>9. w \in Seq(Alive) /\ Len(w) = count /\ \A i \in 1 .. count : w[i] = "init"
  BY InitsIs
<1> HIDE DEF w
<1>10. ASSUME NEW x \in Span(b, b + count) PROVE k.slot[x] = w[x - b + 1]
  <2>1. x \in Span(b, b + size) /\ x - b + 1 \in 1 .. count
    BY <1>1, <1>6 DEF Span
  <2> QED
    BY <1>7, <1>8, <1>9, <2>1
<1>11. ASSUME NEW x \in Span(b + count, b + size) PROVE k.slot[x] \in Spare
  <2>1. x \in Span(b, b + size)
    BY <1>1, <1>6 DEF Span
  <2> QED
    BY <1>7, <1>8, <2>1, SlotsDiffer
<1>12. \A x \in Address : x \notin Span(b, b + size) => k.slot[x] = mem.slot[x]
  BY <1>2, <1>3, <1>8
<1>13. Acquires(mem, k, b, size, w)
  <2>1. Len(w) <= size /\ b + Len(w) = b + count
    BY <1>9
  <2> QED
    BY <1>8, <1>9, <1>10, <1>11, <1>12, <2>1 DEF Acquires
<1>14. last = b + Len(w)
  BY <1>5, <1>9
<1>15. Good(k, [arr EXCEPT ![n] = OfChunk(Placed(mem, size), last)], [want EXCEPT ![n] = w])
  BY <1>4, <1>5, <1>13, <1>14, Acquired
<1> QED
  BY <1>15 DEF k, m, b, w

LEMMA LimitedConstructKeeps ==
  ASSUME Good(mem, arr, want), NEW n \in Arrays, Spare = Alive, kind = "limited",
         NEW count \in 0 .. MaxLen, LimitedConstruct(n, count)
  PROVE  Good(mem', arr', want') /\ misuse' = misuse
<1>1. PICK size \in 0 .. MaxCap : size = MaxLen
  BY RoomAssumption
<1>2. PICK c : c = Placed(mem, size)
  OBVIOUS
<1>3. PICK last : last = c.begin + count
  OBVIOUS
<1>4. count \in Nat /\ count <= size /\ arr[n] = NullArray
  BY <1>1 DEF LimitedConstruct
<1>5. Good(Initialize(AllocateMemory(mem, size), c.begin, c.end),
           [arr EXCEPT ![n] = OfChunk(c, last)], [want EXCEPT ![n] = Inits(count)])
  BY <1>1, <1>2, <1>3, <1>4, AllInitialized
<1> QED
  BY <1>1, <1>2, <1>3, <1>5 DEF LimitedConstruct, Becomes

LEMMA BufferConstructKeeps ==
  ASSUME Good(mem, arr, want), NEW n \in Arrays, Spare = Alive, kind # "limited",
         NEW size \in 0 .. MaxLen, BufferConstruct(n, size)
  PROVE  Good(mem', arr', want') /\ misuse' = misuse
<1>1. size \in 0 .. MaxCap
  <2>1. MaxLen \in 0 .. MaxCap /\ MaxCap \in Nat
    BY RoomAssumption, MemoryAssumption
  <2> QED
    BY <2>1
<1>2. PICK c : c = Placed(mem, size)
  OBVIOUS
<1>3. PICK last : last = c.begin + size
  OBVIOUS
<1>4. size \in Nat /\ size <= size /\ arr[n] = NullArray
  BY DEF BufferConstruct
<1>5. Good(Initialize(AllocateMemory(mem, size), c.begin, c.end),
           [arr EXCEPT ![n] = OfChunk(c, last)], [want EXCEPT ![n] = Inits(size)])
  BY <1>1, <1>2, <1>3, <1>4, AllInitialized
<1>6. c.end = last
  BY <1>1, <1>2, <1>3, AllocatedIs
<1> QED
  BY <1>2, <1>5, <1>6 DEF BufferConstruct, Becomes

LEMMA LimitedPushBackKeeps ==
  ASSUME Good(mem, arr, want), NEW n \in Arrays, Spare = Alive, NEW v \in Alive, LimitedPushBack(n, v)
  PROVE  Good(mem', arr', want') /\ misuse' = misuse
<1> DEFINE b == arr[n].begin
           l == arr[n].last
           e == arr[n].end
           s == want[n]
           top == l + 1
           w == Append(s, v)
           k == Assign(mem, l, <<v>>)
<1>1. b \in Nat /\ l \in Nat /\ e \in Nat /\ b <= l /\ l <= e /\ s \in Seq(Alive) /\ Len(s) = l - b
  BY ArrayIs
<1>2. \A x \in Span(l, e) : x \in Address /\ mem.slot[x] \in Alive
  BY ArrayIs
<1>3. /\ misuse' = misuse /\ mem' = k /\ l < e
      /\ arr' = [arr EXCEPT ![n] = [arr[n] EXCEPT !.last = top]] /\ want' = [want EXCEPT ![n] = w]
  BY DEF LimitedPushBack, Becomes
<1>4. Clean(mem)
  BY DEF Good
<1> HIDE DEF b, l, e, s
<1>5. Clean(k) /\ \A x \in Address : k.slot[x] = IF x \in Span(l, l + 1) THEN <<v>>[x - l + 1] ELSE mem.slot[x]
  <2> DEFINE vs == <<v>>
  <2>1. vs \in Seq(Slots)
    BY SlotsDiffer
  <2>2. Len(vs) = 1
    OBVIOUS
  <2> HIDE DEF vs
  <2>3. \A x \in Span(l, l + Len(vs)) : x \in Address /\ mem.slot[x] \in Alive
    BY <1>1, <1>2, <1>3, <2>2 DEF Span
  <2>4. /\ Clean(Assign(mem, l, vs))
        /\ \A x \in Address : Assign(mem, l, vs).slot[x] = IF x \in Span(l, l + Len(vs)) THEN vs[x - l + 1] ELSE mem.slot[x]
    BY <1>1, <1>4, <2>1, <2>3, AssignIs
  <2> QED
    BY <2>2, <2>4 DEF vs
<1> HIDE DEF k
<1>6. w \in Seq(Alive) /\ Len(w) = Len(s) + 1 /\ w[Len(s) + 1] = v /\ \A i \in 1 .. Len(s) : w[i] = s[i]
  BY <1>1, AppendIs
<1> HIDE DEF w
<1>7. top \in Nat /\ l <= top /\ top <= e /\ Len(w) = top - b
  BY <1>1, <1>3, <1>6
<1>8. ASSUME NEW x \in Address PROVE k.slot[x] = IF x \in Span(l, top) THEN w[x - b + 1] ELSE mem.slot[x]
  <2>1. CASE x \in Span(l, l + 1)
    <3>1. x = l /\ x - l + 1 = 1 /\ x - b + 1 = Len(s) + 1
      BY <1>1, <2>1 DEF Span
    <3>2. w[x - b + 1] = v
      BY <1>6, <3>1
    <3>3. <<v>>[x - l + 1] = v
      BY <3>1
    <3> QED
      BY <1>5, <2>1, <3>2, <3>3
  <2>2. CASE x \notin Span(l, l + 1)
    BY <1>5, <2>2
  <2> QED
    BY <2>1, <2>2
<1> HIDE DEF top
<1>9. Good(k, [arr EXCEPT ![n] = [arr[n] EXCEPT !.last = top]], [want EXCEPT ![n] = w])
  BY <1>5, <1>6, <1>7, <1>8, Lengthened DEF b, l, e, s
<1> QED
  BY <1>3, <1>9

LEMMA LimitedShrinkKeeps ==
  ASSUME Good(mem, arr, want), NEW n \in Arrays, Spare = Alive, NEW size \in Nat, LimitedShrink(n, size)
  PROVE  Good(mem', arr', want') /\ misuse' = misuse
<1> DEFINE b == arr[n].begin
           l == arr[n].last
           e == arr[n].end
           s == want[n]
           top == l - ((l - b) - size)
           a == [arr[n] EXCEPT !.last = top]
           w == SubSeq(s, 1, size)
<1>1. b \in Nat /\ l \in Nat /\ e \in Nat /\ b <= l /\ l <= e /\ s \in Seq(Alive) /\ Len(s) = l - b
  BY ArrayIs
<1>2. /\ \A x \in Span(b, l) : x \in Address /\ mem.slot[x] = s[x - b + 1] /\ mem.slot[x] \in Alive
      /\ \A x \in Span(l, e) : x \in Address /\ mem.slot[x] \in Alive
  BY ArrayIs
<1>3. /\ misuse' = misuse /\ mem' = mem /\ arr' = [arr EXCEPT ![n] = a] /\ want' = [want EXCEPT ![n] = w]
  BY DEF LimitedShrink, Becomes, Size
<1>4. size < l - b
  BY DEF LimitedShrink, Size
<1>5. arr[n] \in [begin : Nat, end : Nat, last : Nat] /\ Clean(mem)
  BY DEF Good
<1>6. a = [begin |-> b, end |-> e, last |-> top]
  BY <1>5
<1> HIDE DEF b, l, e, s, a
<1>7. top = b + size /\ top \in Nat /\ b <= top /\ top <= l /\ top <= e /\ size \in 0 .. Len(s)
  BY <1>1, <1>4
<1> HIDE DEF top
<1>8. a.begin = b /\ a.end = e /\ a.last = top /\ a \in [begin : Nat, end : Nat, last : Nat]
  BY <1>1, <1>6, <1>7
<1>9. w \in Seq(Alive) /\ Len(w) = size /\ \A i \in 1 .. size : w[i] = s[i]
  BY <1>1, <1>7, PrefixIs
<1> HIDE DEF w
<1>10. ASSUME NEW x \in Span(b, top) PROVE mem.slot[x] = w[x - b + 1]
  <2>1. x \in Span(b, l) /\ x - b + 1 \in 1 .. size
    BY <1>1, <1>7 DEF Span
  <2> QED
    BY <1>2, <1>9, <2>1
<1>11. ASSUME NEW x \in Span(top, e) PROVE mem.slot[x] \in Spare
  <2>1. x \in Span(b, l) \/ x \in Span(l, e)
    BY <1>1, <1>7 DEF Span
  <2> QED
    BY <1>2, <2>1
<1>12. Len(w) = top - b
  BY <1>1, <1>7, <1>9
<1>13. arr[n].begin = b /\ arr[n].end = e
  BY DEF b, e
<1>14. Stays(mem, arr[n], mem, a, w)
  BY <1>1, <1>7, <1>8, <1>9, <1>10, <1>11, <1>12, <1>13 DEF Stays
<1>15. Good(mem, [arr EXCEPT ![n] = a], [want EXCEPT ![n] = w])
  BY <1>5, <1>14, InPlace
<1> QED
  BY <1>3, <1>15

\* All objects of n are assigned to; the first of them are its elements from now on.
LEMMA Overwritten ==
  ASSUME NEW m, NEW ar, NEW wn, Good(m, ar, wn), NEW n \in Arrays, Spare = Alive,
         NEW h \in Seq(Alive), Len(h) = ar[n].end - ar[n].begin,
         NEW w \in Seq(Alive), Len(w) <= Len(h), \A i \in 1 .. Len(w) : h[i] = w[i],
         NEW top, top = ar[n].begin + Len(w)
  PROVE  Good(Assign(m, ar[n].begin, h), [ar EXCEPT ![n] = [ar[n] EXCEPT !.last = top]], [wn EXCEPT ![n] = w])
<1> DEFINE b == ar[n].begin
           l == ar[n].last
           e == ar[n].end
           a == [ar[n] EXCEPT !.last = top]
           k == Assign(m, b, h)
<1>1. b \in Nat /\ l \in Nat /\ e \in Nat /\ b <= l /\ l <= e
  BY ArrayIs
<1>2. /\ \A x \in Span(b, l) : x \in Address /\ m.slot[x] \in Alive
      /\ \A x \in Span(l, e) : x \in Address /\ m.slot[x] \in Alive
  BY ArrayIs
<1>3. ar[n] \in [begin : Nat, end : Nat, last : Nat] /\ Clean(m)
  BY DEF Good
<1>4. a = [begin |-> b, end |-> e, last |-> top]
  BY <1>3
<1>5. Len(h) = e - b /\ top = b + Len(w) /\ ar[n].begin = b /\ ar[n].end = e
  OBVIOUS
<1> HIDE DEF b, l, e, a
<1>6. Len(w) \in Nat /\ top \in Nat /\ b <= top /\ top <= e /\ Len(w) = top - b
  BY <1>1, <1>5
<1>7. a.begin = b /\ a.end = e /\ a.last = top /\ a \in [begin : Nat, end : Nat, last : Nat]
  BY <1>1, <1>4, <1>6
<1>8. \A x \in Span(b, e) : x \in Address /\ m.slot[x] \in Alive
  <2>1. \A x \in Span(b, e) : x \in Span(b, l) \/ x \in Span(l, e)
    BY <1>1 DEF Span
  <2> QED
    BY <1>2, <2>1
<1>9. b + Len(h) = e
  BY <1>1, <1>5
<1>10. Clean(k) /\ \A x \in Address : k.slot[x] = IF x \in Span(b, e) THEN h[x - b + 1] ELSE m.slot[x]
  <2>1. h \in Seq(Slots) /\ b \in Int
    BY <1>1, SlotsDiffer
  <2>2. \A x \in Span(b, b + Len(h)) : x \in Address /\ m.slot[x] \in Alive
    BY <1>8, <1>9
  <2>3. Clean(k) /\ \A x \in Address : k.slot[x] = IF x \in Span(b, b + Len(h)) THEN h[x - b + 1] ELSE m.slot[x]
    BY <1>3, <2>1, <2>2, AssignIs
  <2> QED
    BY <1>9, <2>3
<1> HIDE DEF k
<1>11. ASSUME NEW x \in Span(b, top) PROVE k.slot[x] = w[x - b + 1]
  <2>1. x \in Span(b, e) /\ x - b + 1 \in 1 .. Len(w)
    BY <1>1, <1>6, SMTT(30) DEF Span
  <2>2. h[x - b + 1] = w[x - b + 1]
    BY <2>1
  <2> QED
    BY <1>8, <1>10, <2>1, <2>2
<1>12. ASSUME NEW x \in Span(top, e) PROVE k.slot[x] \in Spare
  <2>1. x \in Span(b, e) /\ x - b + 1 \in 1 .. Len(h)
    BY <1>1, <1>5, <1>6 DEF Span
  <2>2. h[x - b + 1] \in Alive
    BY <2>1
  <2> QED
    BY <1>8, <1>10, <2>1, <2>2
<1>13. \A x \in Address : x \notin Span(b, e) => k.slot[x] = m.slot[x]
  BY <1>10
<1>14. Stays(m, ar[n], k, a, w)
  BY <1>5, <1>6, <1>7, <1>11, <1>12, <1>13 DEF Stays
<1>15. Good(k, [ar EXCEPT ![n] = a], [wn EXCEPT ![n] = w])
  BY <1>10, <1>14, InPlace
<1> QED
  BY <1>15 DEF k, a, b

\* What lies in the allocation of n begins with its elements.
LEMMA AllHeld ==
  ASSUME Good(mem, arr, want), NEW n \in Arrays, Spare = Alive, NEW h, h = Held(mem, arr[n].begin, arr[n].end)
  PROVE  /\ h \in Seq(Alive) /\ Len(h) = arr[n].end - arr[n].begin /\ Len(want[n]) <= Len(h)
         /\ \A i \in 1 .. Len(want[n]) : h[i] = want[n][i]
         /\ \A i \in 1 .. Len(h) : h[i] = mem.slot[arr[n].begin + i - 1]
<1> DEFINE b == arr[n].begin
           l == arr[n].last
           e == arr[n].end
           s == want[n]
<1>1. b \in Nat /\ l \in Nat /\ e \in Nat /\ b <= l /\ l <= e /\ s \in Seq(Alive) /\ Len(s) = l - b
  BY ArrayIs
<1>2. /\ \A x \in Span(b, l) : x \in Address /\ mem.slot[x] = s[x - b + 1] /\ mem.slot[x] \in Alive
      /\ \A x \in Span(l, e) : x \in Address /\ mem.slot[x] \in Alive
  BY ArrayIs
<1>3. h = Held(mem, b, e) /\ Clean(mem)
  BY DEF Good
<1> HIDE DEF b, l, e, s
<1>4. \A x \in Span(b, e) : x \in Address /\ mem.slot[x] \in Alive
  <2>1. \A x \in Span(b, e) : x \in Span(b, l) \/ x \in Span(l, e)
    BY <1>1 DEF Span
  <2> QED
    BY <1>2, <2>1
<1>5. h \in Seq(Slots) /\ Len(h) = e - b /\ \A i \in 1 .. e - b : h[i] = mem.slot[b + i - 1]
  <2>1. b \in Int /\ e \in Int /\ b <= e /\ Clean(mem) /\ \A x \in Span(b, e) : x \in Address
    BY <1>1, <1>3, <1>4
  <2>2. /\ Held(mem, b, e) \in Seq(Slots) /\ Len(Held(mem, b, e)) = e - b
        /\ \A i \in 1 .. e - b : Held(mem, b, e)[i] = mem.slot[b + i - 1]
    BY <2>1, HeldIs
  <2> QED
    BY <1>3, <2>2
<1>6. \A i \in 1 .. e - b : b + i - 1 \in Span(b, e)
  BY <1>1 DEF Span
<1>7. h \in Seq(Alive)
  <2>1. \A i \in 1 .. Len(h) : h[i] \in Alive
    BY <1>4, <1>5, <1>6
  <2> QED
    BY <1>5, <2>1
<1>8. ASSUME NEW i \in 1 .. Len(s) PROVE h[i] = s[i]
  <2>1. i \in 1 .. e - b
    BY <1>1
  <2>2. PICK x : x = b + i - 1
    OBVIOUS
  <2>3. x \in Span(b, l) /\ x - b + 1 = i
    BY <1>1, <2>2 DEF Span
  <2>4. mem.slot[x] = s[i]
    BY <1>2, <2>3
  <2> QED
    BY <1>5, <2>1, <2>2, <2>4
<1>9. Len(s) <= Len(h) /\ \A i \in 1 .. Len(h) : h[i] = mem.slot[b + i - 1]
  BY <1>1, <1>5
<1> QED
  BY <1>5, <1>7, <1>8, <1>9 DEF b, e, s

LEMMA LimitedSwapKeeps ==
  ASSUME Good(mem, arr, want), NEW n \in Arrays, NEW o \in Arrays, Spare = Alive, kind = "limited", LimitedSwap(n, o)
  PROVE  Good(mem', arr', want') /\ misuse' = misuse
<1> DEFINE p == arr[n]
           q == arr[o]
           hn == Held(mem, p.begin, p.end)
           ho == Held(mem, q.begin, q.end)
           s == want[n]
           t == want[o]
           topN == p.begin + Len(t)
           topO == q.begin + Len(s)
           k == Assign(mem, p.begin, ho)
           ar == [arr EXCEPT ![n] = [arr[n] EXCEPT !.last = topN]]
           wn == [want EXCEPT ![n] = t]
<1>0. n # o /\ p # NullArray /\ q # NullArray /\ misuse' = misuse
  BY DEF LimitedSwap
<1>1. /\ p.begin \in Nat /\ p.last \in Nat /\ p.end \in Nat /\ s \in Seq(Alive) /\ Len(s) = p.last - p.begin
      /\ q.begin \in Nat /\ q.last \in Nat /\ q.end \in Nat /\ t \in Seq(Alive) /\ Len(t) = q.last - q.begin
  BY ArrayIs
<1>2. p.end = p.begin + MaxLen /\ q.end = q.begin + MaxLen /\ MaxLen \in Nat
  <2>1. WellPlaced(p) /\ WellPlaced(q)
    BY DEF Good, Holds
  <2>2. MaxLen \in Nat
    BY RoomAssumption
  <2> QED
    BY <1>0, <2>1, <2>2 DEF WellPlaced
<1>3. hn \in Seq(Alive) /\ Len(hn) = p.end - p.begin /\ Len(s) <= Len(hn) /\ \A i \in 1 .. Len(s) : hn[i] = s[i]
  BY AllHeld
<1>4. ho \in Seq(Alive) /\ Len(ho) = q.end - q.begin /\ Len(t) <= Len(ho) /\ \A i \in 1 .. Len(t) : ho[i] = t[i]
  BY AllHeld
<1>5. p.end - p.begin = MaxLen /\ q.end - q.begin = MaxLen
  BY <1>1, <1>2, SMTT(30)
<1> HIDE DEF hn, ho, s, t, topN, topO
<1>6. Len(ho) = arr[n].end - arr[n].begin /\ topN = arr[n].begin + Len(t)
  BY <1>4, <1>5 DEF topN
<1>7. Good(k, ar, wn)
  BY <1>1, <1>4, <1>6, Overwritten
<1>8. ar[o] = q /\ wn[o] = want[o] /\ ar[n] = [p EXCEPT !.last = topN] /\ wn[n] = t
  BY <1>0 DEF Good
<1> HIDE DEF k, ar, wn
<1>9. Len(hn) = ar[o].end - ar[o].begin /\ topO = ar[o].begin + Len(s)
  BY <1>3, <1>5, <1>8 DEF topO
<1>10. Good(Assign(k, ar[o].begin, hn), [ar EXCEPT ![o] = [ar[o] EXCEPT !.last = topO]], [wn EXCEPT ![o] = s])
  BY <1>1, <1>3, <1>7, <1>9, Overwritten
<1>11. mem' = Assign(k, ar[o].begin, hn)
  BY <1>8 DEF LimitedSwap, k, hn, ho
<1>12. want' = [wn EXCEPT ![o] = s]
  BY DEF LimitedSwap, wn, s, t
<1>13. arr' = [ar EXCEPT ![o] = [ar[o] EXCEPT !.last = topO]]
  <2> DEFINE sn == Size(p)
             so == Size(q)
  <2>1. arr' = [[arr EXCEPT ![n].last = @ + so - sn] EXCEPT ![o].last = @ + sn - so]
    BY DEF LimitedSwap
  <2>2. sn = p.last - p.begin /\ so = q.last - q.begin
    BY DEF Size
  <2> HIDE DEF sn, so
  <2> DEFINE pb == p.begin
             pl == p.last
             qb == q.begin
             ql == q.last
  <2>0. pl + so - sn = pb + so /\ ql + sn - so = qb + sn /\ so = Len(t) /\ sn = Len(s)
    <3>1. /\ pb \in Nat /\ pl \in Nat /\ qb \in Nat /\ ql \in Nat /\ sn = pl - pb /\ so = ql - qb
          /\ Len(s) = pl - pb /\ Len(t) = ql - qb
      BY <1>1, <2>2
    <3> HIDE DEF pb, pl, qb, ql
    <3> QED
      BY <3>1
  <2>3. arr \in [Arrays -> [begin : Nat, end : Nat, last : Nat]]
    BY DEF Good
  <2> DEFINE one == [arr EXCEPT ![n].last = @ + so - sn]
  <2>4. one = [arr EXCEPT ![n] = [p EXCEPT !.last = p.last + so - sn]]
    BY <2>3
  <2>5. p.last + so - sn = topN
    BY <2>0 DEF topN
  <2>6. one = ar
    BY <2>4, <2>5 DEF ar
  <2>7. arr' = [ar EXCEPT ![o].last = @ + sn - so]
    BY <2>1, <2>6
  <2> HIDE DEF one
  <2>8. ar[o].last + sn - so = topO
    <3>1. ar[o].last = q.last
      BY <1>8
    <3> QED
      BY <2>0, <3>1 DEF topO
  <2>9. ar \in [Arrays -> [begin : Nat, end : Nat, last : Nat]]
    BY <1>7 DEF Good
  <2>10. [ar EXCEPT ![o].last = @ + sn - so] = [ar EXCEPT ![o] = [ar[o] EXCEPT !.last = ar[o].last + sn - so]]
    BY <2>9
  <2> QED
    BY <2>7, <2>8, <2>10
<1> QED
  BY <1>0, <1>10, <1>11, <1>12, <1>13

LEMMA BufferResizeInPlaceKeeps ==
  ASSUME Good(mem, arr, want), NEW n \in Arrays, Spare = Alive, NEW size \in Nat,
         size <= AllocationSize(arr[n]), BufferResize(n, size)
  PROVE  Good(mem', arr', want') /\ misuse' = misuse
<1> DEFINE b == arr[n].begin
           l == arr[n].last
           e == arr[n].end
           top == b + size
           a == [arr[n] EXCEPT !.last = top]
           w == Held(mem, b, top)
<1>1. b \in Nat /\ l \in Nat /\ e \in Nat /\ b <= l /\ l <= e
  BY ArrayIs
<1>2. /\ \A x \in Span(b, l) : x \in Address /\ mem.slot[x] \in Alive
      /\ \A x \in Span(l, e) : x \in Address /\ mem.slot[x] \in Alive
  BY ArrayIs
<1>3. /\ misuse' = misuse /\ mem' = mem /\ arr' = [arr EXCEPT ![n] = a] /\ want' = [want EXCEPT ![n] = w]
  BY DEF BufferResize, Becomes
<1>4. size <= e - b
  BY DEF AllocationSize
<1>5. arr[n] \in [begin : Nat, end : Nat, last : Nat] /\ Clean(mem)
  BY DEF Good
<1>6. a = [begin |-> b, end |-> e, last |-> top] /\ arr[n].begin = b /\ arr[n].end = e
  BY <1>5
<1> HIDE DEF b, l, e, a
<1>7. top = b + size /\ top \in Nat /\ b <= top /\ top <= e /\ top - b = size
  BY <1>1, <1>4
<1> HIDE DEF top
<1>8. a.begin = b /\ a.end = e /\ a.last = top /\ a \in [begin : Nat, end : Nat, last : Nat]
  BY <1>1, <1>6, <1>7
<1>9. \A x \in Span(b, e) : x \in Address /\ mem.slot[x] \in Alive
  <2>1. \A x \in Span(b, e) : x \in Span(b, l) \/ x \in Span(l, e)
    BY <1>1 DEF Span
  <2> QED
    BY <1>2, <2>1
<1>10. \A x \in Span(b, top) : x \in Span(b, e)
  BY <1>1, <1>7 DEF Span
<1>11. w \in Seq(Slots) /\ Len(w) = top - b /\ \A i \in 1 .. top - b : w[i] = mem.slot[b + i - 1]
  <2>1. b \in Int /\ top \in Int /\ b <= top /\ \A x \in Span(b, top) : x \in Address
    BY <1>1, <1>7, <1>9, <1>10
  <2> QED
    BY <1>5, <2>1, HeldIs
<1> HIDE DEF w
<1>12. w \in Seq(Alive)
  <2>1. ASSUME NEW i \in 1 .. Len(w) PROVE w[i] \in Alive
    <3>1. i \in 1 .. top - b
      BY <1>11
    <3>2. b + i - 1 \in Span(b, top)
      BY <1>1, <1>7, <3>1 DEF Span
    <3> QED
      BY <1>9, <1>10, <1>11, <3>1, <3>2
  <2> QED
    BY <1>11, <2>1
<1>13. ASSUME NEW x \in Span(b, top) PROVE mem.slot[x] = w[x - b + 1]
  <2>1. PICK i : i = x - b + 1
    OBVIOUS
  <2>2. i \in 1 .. top - b /\ b + i - 1 = x
    BY <1>1, <1>7, <2>1 DEF Span
  <2> QED
    BY <1>11, <2>1, <2>2
<1>14. ASSUME NEW x \in Span(top, e) PROVE mem.slot[x] \in Spare
  <2>1. x \in Span(b, e)
    BY <1>1, <1>7 DEF Span
  <2> QED
    BY <1>9, <2>1
<1>15. Stays(mem, arr[n], mem, a, w)
  BY <1>6, <1>7, <1>8, <1>11, <1>12, <1>13, <1>14 DEF Stays
<1>16. Good(mem, [arr EXCEPT ![n] = a], [want EXCEPT ![n] = w])
  BY <1>5, <1>15, InPlace
<1> QED
  BY <1>3, <1>16

\* realloc moves every byte of the allocation, elements or not.
LEMMA BufferResizeKeeps ==
  ASSUME Good(mem, arr, want), NEW n \in Arrays, Spare = Alive, kind # "limited", NEW size \in 0 .. MaxLen,
         ~ (size <= AllocationSize(arr[n])), BufferResize(n, size)
  PROVE  Good(mem', arr', want') /\ misuse' = misuse
<1> DEFINE b == arr[n].begin
           e == arr[n].end
           h == Held(mem, b, e)
           c == Placed(mem, size).begin
           d == AllocateMemory(mem, size)
           vs == Inits(size - (e - b))
           new == New(e - b, vs)
           m == UninitializedMove(d, b, e, c)
           f == Construct(m, c + (e - b), vs)
           w == h \o vs
           last == Placed(mem, size).end
<1>1. b \in Nat /\ e \in Nat /\ b <= e
  <2>1. b \in Nat /\ arr[n].last \in Nat /\ e \in Nat /\ b <= arr[n].last /\ arr[n].last <= e
    BY ArrayIs
  <2> QED
    BY <2>1
<1>2. b = Null => e = Null
  BY ArrayIs
<1>3. size \in 0 .. MaxCap /\ size \in Nat
  <2>1. MaxLen \in 0 .. MaxCap /\ MaxCap \in Nat
    BY RoomAssumption, MemoryAssumption
  <2> QED
    BY <2>1
<1>4. AllocationSize(arr[n]) = e - b /\ e - b < size
  <2>1. AllocationSize(arr[n]) = e - b
    BY DEF AllocationSize
  <2>2. ~ (size <= e - b)
    BY <2>1
  <2> HIDE DEF b, e
  <2> QED
    BY <1>1, <1>3, <2>1, <2>2
<1>5. /\ misuse' = misuse /\ mem' = ChunkExpand(mem, arr[n], size, <<Move(b, e, 0)>>, <<new>>)
      /\ arr' = [arr EXCEPT ![n] = OfChunk(Placed(mem, size), last)] /\ want' = [want EXCEPT ![n] = w]
  BY <1>4 DEF BufferResize, Becomes
<1>6. h \in Seq(Alive) /\ Len(h) = e - b /\ \A i \in 1 .. Len(h) : h[i] = mem.slot[b + i - 1]
  BY AllHeld
<1>7. \A x \in Span(b, e) : x \in Address /\ mem.slot[x] \in Alive
  <2>1. \A x \in Span(b, arr[n].last) : x \in Address /\ mem.slot[x] \in Alive
    BY ArrayIs
  <2>2. \A x \in Span(arr[n].last, e) : x \in Address /\ mem.slot[x] \in Alive
    BY ArrayIs
  <2>3. \A x \in Span(b, e) : x \in Span(b, arr[n].last) \/ x \in Span(arr[n].last, e)
    <3>1. arr[n].last \in Nat
      BY ArrayIs
    <3> QED
      BY <1>1, <3>1 DEF Span
  <2> QED
    BY <2>1, <2>2, <2>3
<1>8. Base(c) /\ Placed(mem, size).end = c + size /\ \A x \in Span(c, c + MaxCap) : mem.slot[x] = "free"
  BY <1>3, AllocatedIs
<1>9. Clean(d) /\ \A x \in Address : d.slot[x] = IF x \in Span(c, c + size) THEN "raw" ELSE mem.slot[x]
  <2>1. Clean(d) /\ \A x \in Address : d.slot[x] = IF x \in Span(c, Placed(mem, size).end) THEN "raw" ELSE mem.slot[x]
    BY <1>3, AllocatedIs
  <2> QED
    BY <1>8, <2>1
<1>10. vs \in Seq(Alive) /\ Len(vs) = size - (e - b)
  <2>1. size - (e - b) \in Nat
    BY <1>1, <1>3, <1>4
  <2> QED
    BY <2>1, InitsIs
<1>11. \A k : Worth(k, new) = vs /\ new.to = e - b
  BY WorthOfNew
<1> HIDE DEF b, e, h, vs, new, d, c
<1>12. c \in Nat /\ MaxCap \in Nat /\ \A x \in Int : c <= x /\ x <= c + MaxCap => x \in Address
  BY <1>8, BaseIs, MemoryAssumption
<1>13. ASSUME NEW x \in Span(c, c + size) PROVE x \in Address /\ mem.slot[x] = "free"
  <2>1. x \in Int /\ c <= x /\ x < c + size
    BY <1>3, <1>12 DEF Span
  <2>2. x \in Span(c, c + MaxCap) /\ x <= c + MaxCap
    BY <1>3, <1>12, <2>1 DEF Span
  <2> QED
    BY <1>8, <1>12, <2>1, <2>2
<1>14. ASSUME NEW x \in Span(b, e) PROVE mem.slot[x] = h[x - b + 1]
  <2>1. PICK i : i = x - b + 1
    OBVIOUS
  <2>2. i \in 1 .. Len(h) /\ b + i - 1 = x
    BY <1>1, <1>6, <2>1 DEF Span
  <2> QED
    BY <1>6, <2>1, <2>2
<1>15. Room(b, e, e, h, c, size)
  <2>1. \A x : x \notin Span(e, e)
    BY <1>1 DEF Span
  <2>2. Len(h) <= size
    BY <1>4, <1>6, <1>1, <1>3
  <2> QED
    BY <1>1, <1>3, <1>6, <1>7, <1>12, <1>13, <1>14, <2>1, <2>2 DEF Room
<1>16. Filled(m, b, e, c, size, h)
  BY <1>9, <1>15, MovedOut
<1> HIDE DEF m
<1>17. Filled(f, b, e, c, size, w) /\ Len(w) = size
  <2>1. Len(h) + Len(vs) <= size /\ Len(h) + Len(vs) = size
    BY <1>1, <1>3, <1>6, <1>10
  <2>2. vs \in Seq(Alive)
    BY <1>10
  <2>3. Filled(Construct(m, c + Len(h), vs), b, e, c, size, w)
    BY <1>15, <1>16, <2>1, <2>2, FilledMore
  <2>4. Len(w) = Len(h) + Len(vs)
    BY <1>6, <2>2, ConcatIs
  <2>5. c + Len(h) = c + (e - b)
    BY <1>6
  <2> QED
    BY <2>1, <2>3, <2>4, <2>5
<1> HIDE DEF w
<1>18. mem' = Deallocate(Destroy(f, b, e), arr[n])
  <2> HIDE DEF f
  <2>1. ConstructAll(m, c, <<new>>) = f
    BY <1>11, ConstructAllOne DEF f
  <2>2. Placed(mem, size).begin \in Nat
    BY <1>12 DEF c
  <2>3. ChunkExpand(mem, arr[n], size, <<Move(b, e, 0)>>, <<new>>) =
          Deallocate(Destroy(ConstructAll(UninitializedMove(AllocateMemory(mem, size), b, e, Placed(mem, size).begin),
                                          Placed(mem, size).begin, <<new>>), b, e), arr[n])
    BY <2>2, ExpandOneIs
  <2> QED
    BY <1>5, <2>1, <2>3 DEF m, d, c
<1> HIDE DEF f
<1>19. /\ Clean(Destroy(f, b, e))
       /\ \A x \in Address : Destroy(f, b, e).slot[x] = IF x \in Span(b, e) THEN "raw" ELSE f.slot[x]
  BY <1>15, <1>17, Vacated
<1>20. last = Placed(mem, size).begin + Len(w)
  BY <1>8, <1>17 DEF c
<1> DEFINE g == Destroy(f, b, e)
<1> HIDE DEF last, g
<1>21. Clean(g) /\ \A x \in Address : g.slot[x] = IF x \in Span(b, e) THEN "raw" ELSE f.slot[x]
  BY <1>19 DEF g
<1>22. Good(Deallocate(g, arr[n]), [arr EXCEPT ![n] = OfChunk(Placed(mem, size), last)], [want EXCEPT ![n] = w])
  BY <1>3, <1>15, <1>17, <1>20, <1>21, Relocated DEF b, e, c
<1> QED
  BY <1>5, <1>18, <1>22 DEF g

LEMMA BufferWriteKeeps ==
  ASSUME Good(mem, arr, want), NEW n \in Arrays, NEW i \in Nat, NEW v \in Alive, BufferWrite(n, i, v)
  PROVE  Good(mem', arr', want') /\ misuse' = misuse
<1> DEFINE b == arr[n].begin
           l == arr[n].last
           e == arr[n].end
           s == want[n]
           at == b + i
           w == [s EXCEPT ![i + 1] = v]
           k == Assign(mem, at, <<v>>)
<1>1. b \in Nat /\ l \in Nat /\ e \in Nat /\ b <= l /\ l <= e /\ s \in Seq(Alive) /\ Len(s) = l - b
  BY ArrayIs
<1>2. /\ \A x \in Span(b, l) : x \in Address /\ mem.slot[x] = s[x - b + 1] /\ mem.slot[x] \in Alive
      /\ \A x \in Span(l, e) : x \in Address /\ mem.slot[x] \in Spare
  BY ArrayIs
<1>3. /\ misuse' = misuse /\ mem' = k /\ arr' = [arr EXCEPT ![n] = arr[n]] /\ want' = [want EXCEPT ![n] = w]
  BY DEF BufferWrite, Becomes
<1>4. i < l - b
  BY DEF BufferWrite, Size
<1>5. arr[n] \in [begin : Nat, end : Nat, last : Nat] /\ Clean(mem) /\ arr[n].begin = b /\ arr[n].end = e /\ arr[n].last = l
  BY DEF Good
<1> HIDE DEF b, l, e, s
<1>6. at = b + i /\ at \in Nat /\ at \in Span(b, l) /\ i + 1 \in 1 .. Len(s)
  BY <1>1, <1>4 DEF Span
<1> HIDE DEF at
<1>7. Clean(k) /\ \A x \in Address : k.slot[x] = IF x = at THEN v ELSE mem.slot[x]
  <2> DEFINE vs == <<v>>
  <2>1. vs \in Seq(Slots) /\ vs[1] = v
    BY SlotsDiffer
  <2>2. Len(vs) = 1
    OBVIOUS
  <2> HIDE DEF vs
  <2>3. \A x : x \in Span(at, at + Len(vs)) <=> x = at
    BY <1>6, <2>2 DEF Span
  <2>4. \A x \in Span(at, at + Len(vs)) : x \in Address /\ mem.slot[x] \in Alive
    BY <1>2, <1>6, <2>3
  <2>5. /\ Clean(Assign(mem, at, vs))
        /\ \A x \in Address : Assign(mem, at, vs).slot[x] = IF x \in Span(at, at + Len(vs)) THEN vs[x - at + 1] ELSE mem.slot[x]
    BY <1>5, <1>6, <2>1, <2>4, AssignIs
  <2>6. at - at + 1 = 1
    BY <1>6
  <2> QED
    BY <2>1, <2>3, <2>5, <2>6 DEF vs
<1> HIDE DEF k
<1>8. w \in Seq(Alive) /\ Len(w) = Len(s) /\ \A j \in 1 .. Len(s) : w[j] = IF j = i + 1 THEN v ELSE s[j]
  BY <1>1, <1>6
<1> HIDE DEF w
<1>9. ASSUME NEW x \in Span(b, l) PROVE k.slot[x] = w[x - b + 1]
  <2>1. x - b + 1 \in 1 .. Len(s) /\ (x - b + 1 = i + 1 <=> x = at)
    BY <1>1, <1>6 DEF Span
  <2> QED
    BY <1>2, <1>7, <1>8, <2>1
<1>10. ASSUME NEW x \in Span(l, e) PROVE k.slot[x] \in Spare
  <2>1. x # at
    BY <1>1, <1>6 DEF Span
  <2> QED
    BY <1>2, <1>7, <2>1
<1>11. ASSUME NEW x \in Address, x \notin Span(b, e) PROVE k.slot[x] = mem.slot[x]
  <2>1. at \in Span(b, e)
    BY <1>1, <1>6 DEF Span
  <2> QED
    BY <1>7, <1>11, <2>1
<1>12. Stays(mem, arr[n], k, arr[n], w)
  BY <1>1, <1>5, <1>8, <1>9, <1>10, <1>11 DEF Stays
<1>13. Good(k, [arr EXCEPT ![n] = arr[n]], [want EXCEPT ![n] = w])
  BY <1>7, <1>12, InPlace
<1> QED
  BY <1>3, <1>13

LEMMA BufferMoveKeeps ==
  ASSUME Good(mem, arr, want), NEW n \in Arrays, NEW o \in Arrays, BufferMove(n, o)
  PROVE  Good(mem', arr', want') /\ misuse' = misuse
<1>1. /\ arr[n] = NullArray /\ mem' = mem /\ misuse' = misuse
      /\ arr' = [[arr EXCEPT ![n] = arr[o]] EXCEPT ![o] = arr[n]]
      /\ want' = [[want EXCEPT ![n] = want[o]] EXCEPT ![o] = <<>>]
  BY DEF BufferMove
<1>2. want[n] = <<>>
  <2>1. want[n] \in Seq(Alive) /\ Len(want[n]) = arr[n].last - arr[n].begin
    BY ArrayIs
  <2> QED
    BY <1>1, <2>1 DEF NullArray, Null
<1>3. Good(mem, [[arr EXCEPT ![n] = arr[o]] EXCEPT ![o] = arr[n]], [[want EXCEPT ![n] = want[o]] EXCEPT ![o] = want[n]])
  BY Exchanged
<1> QED
  BY <1>1, <1>2, <1>3

LEMMA BufferFailsCosts ==
  ASSUME Good(mem, arr, want), NEW n \in Arrays, NEW size \in Nat, BufferConstructFails(n, size),
         kind' = kind, kind \in Kinds
  PROVE  misuse' = {"failed malloc"} /\ ArraysTypeOK' /\ CostOfMisuse'
<1> DEFINE a == [begin |-> Null, end |-> Null + size, last |-> Null + size]
<1>1. /\ misuse' = {"failed malloc"} /\ mem' = mem /\ size > 0
      /\ arr' = [arr EXCEPT ![n] = a] /\ want' = [want EXCEPT ![n] = <<>>]
  BY DEF BufferConstructFails, Becomes
<1>2. a \in [begin : Nat, end : Nat, last : Nat] /\ a.begin = Null /\ Size(a) > 0
  <2>0. size > 0
    BY <1>1
  <2>1. Null \in Nat /\ Null + size = size /\ size - Null > 0
    BY <2>0 DEF Null
  <2>2. a = [begin |-> Null, end |-> size, last |-> size]
    BY <2>1
  <2> HIDE DEF a
  <2>3. a \in [begin : Nat, end : Nat, last : Nat] /\ a.begin = Null /\ a.last = size
    BY <2>1, <2>2
  <2> QED
    BY <2>1, <2>3 DEF Size
<1> HIDE DEF a
<1>3. arr \in [Arrays -> [begin : Nat, end : Nat, last : Nat]] /\ want \in [Arrays -> Seq(Alive)] /\ Clean(mem)
  BY DEF Good
<1>4. ArraysTypeOK'
  <2>1. {"failed malloc"} \subseteq Misuses /\ <<>> \in Seq(Alive)
    BY DEF Misuses
  <2>2. arr' \in [Arrays -> [begin : Nat, end : Nat, last : Nat]]
    BY <1>1, <1>2, <1>3
  <2>3. \A p \in Arrays : want'[p] \in Seq(Alive)
    BY <1>1, <1>3, <2>1
  <2> QED
    BY <1>1, <1>3, <2>1, <2>2, <2>3 DEF ArraysTypeOK, Clean, Slots
<1>5. CostOfMisuse'
  <2>1. arr'[n].begin = Null /\ Size(arr'[n]) > 0
    BY <1>1, <1>2, <1>3
  <2> QED
    BY <1>1, <2>1 DEF CostOfMisuse
<1> QED
  BY <1>1, <1>4, <1>5

-----------------------------------------------------------------------------
(* The invariant holds initially and every step keeps it *)

LEMMA ArraysInitInv == ArraysInit => ArraysInv
<1> SUFFICES ASSUME ArraysInit PROVE ArraysInv
  OBVIOUS
<1>1. /\ mem = EmptyMemory /\ arr = [n \in Arrays |-> NullArray] /\ want = [n \in Arrays |-> <<>>]
      /\ misuse = {} /\ kind \in Kinds
  BY DEF ArraysInit, Init
<1>2. Clean(mem) /\ \A x \in Address : mem.slot[x] = "free"
  BY <1>1, SlotsDiffer DEF EmptyMemory, Clean
<1>3. NullArray \in [begin : Nat, end : Nat, last : Nat] /\ \A x : x \notin Span(NullArray.begin, NullArray.end)
  BY DEF NullArray, Null, Span
<1>4. arr \in [Arrays -> [begin : Nat, end : Nat, last : Nat]] /\ want \in [Arrays -> Seq(Alive)]
  <2>1. <<>> \in Seq(Alive)
    OBVIOUS
  <2> QED
    BY <1>1, <1>3, <2>1
<1>5. ASSUME NEW n \in Arrays PROVE arr[n] = NullArray /\ want[n] = <<>> /\ Holds(mem, arr[n], want[n])
  <2>1. arr[n] = NullArray /\ want[n] = <<>>
    BY <1>1
  <2>2. Holds(mem, NullArray, <<>>)
    BY NullHolds
  <2> QED
    BY <2>1, <2>2
<1>6. \A n \in Arrays : \A x : ~ Owns(arr, n, x)
  BY <1>3, <1>5 DEF Owns
<1>7. Good(mem, arr, want)
  BY <1>2, <1>4, <1>5, <1>6 DEF Good
<1>8. ArraysTypeOK
  BY <1>1, <1>2, <1>4 DEF ArraysTypeOK, Clean, Slots
<1>9. CostOfMisuse
  BY <1>1 DEF CostOfMisuse
<1> QED
  BY <1>7, <1>8, <1>9 DEF ArraysInv

LEMMA Kept ==
  ASSUME Good(mem', arr', want'), misuse' = misuse, misuse = {}, kind' = kind, kind \in Kinds
  PROVE  ArraysInv'
<1>1. Good(mem, arr, want)'
  BY DEF Good, Holds, WellPlaced, Spare, Owns, Clean
<1>2. ArraysTypeOK'
  BY DEF Good, Clean, ArraysTypeOK, Slots
<1>3. CostOfMisuse'
  BY DEF CostOfMisuse
<1> QED
  BY <1>1, <1>2, <1>3 DEF ArraysInv

LEMMA Costs ==
  ASSUME NEW what, misuse' = {what}, ArraysTypeOK', CostOfMisuse'
  PROVE  ArraysInv'
BY DEF ArraysInv

LEMMA ListIs ==
  ASSUME NEW vs \in Lists
  PROVE  vs \in Seq(Alive) /\ Len(vs) <= MaxCap
<1>1. PICK k \in 1 .. 2 : vs \in [1 .. k -> Values]
  BY DEF Lists
<1>2. vs \in [1 .. k -> Alive] /\ k \in Nat
  BY <1>1 DEF Alive
<1>3. vs \in Seq(Alive) /\ Len(vs) = k
  BY <1>2
<1>4. 2 <= MaxCap /\ MaxCap \in Nat
  BY RoomAssumption, MemoryAssumption
<1> QED
  BY <1>3, <1>4

LEMMA PositionIs ==
  ASSUME Good(mem, arr, want), NEW n \in Arrays
  PROVE  Size(arr[n]) \in Nat /\ \A i \in 0 .. Size(arr[n]) : i \in Nat /\ i <= Size(arr[n])
<1>1. arr[n].begin \in Nat /\ arr[n].last \in Nat /\ arr[n].begin <= arr[n].last
  BY ArrayIs
<1>2. Size(arr[n]) \in Nat
  BY <1>1 DEF Size
<1> QED
  BY <1>2

LEMMA ErasePreserves ==
  ASSUME Good(mem, arr, want), NEW n \in Arrays, Spare = {"raw"}, misuse = {}, kind' = kind, kind \in Kinds,
         NEW i \in Nat, NEW j \in Nat, Erase(n, i, j)
  PROVE  ArraysInv'
<1>1. i <= j /\ j <= Size(arr[n]) /\ Size(arr[n]) \in Nat
  BY PositionIs DEF Erase
<1>2. CASE i < j \/ j = Size(arr[n])
  BY <1>2, EraseKeeps, Kept
<1>3. CASE ~ (i < j \/ j = Size(arr[n]))
  <2>1. i = j
    BY <1>1, <1>3
  <2>2. i < Size(arr[n])
    <3> DEFINE had == Size(arr[n])
    <3>1. had \in Nat /\ i <= had /\ i # had
      BY <1>1, <1>3, <2>1
    <3> HIDE DEF had
    <3>2. i < had
      BY <3>1
    <3> QED
      BY <3>2 DEF had
  <2>3. Erase(n, i, i)
    BY <2>1
  <2>4. misuse' = {"empty range"} /\ ArraysTypeOK' /\ CostOfMisuse'
    BY <2>2, <2>3, EmptyEraseCosts
  <2> QED
    BY <2>4, Costs
<1> QED
  BY <1>2, <1>3

LEMMA InsertAnyPreserves ==
  ASSUME Good(mem, arr, want), NEW n \in Arrays, Spare = {"raw"}, misuse = {}, kind' = kind, kind \in Kinds,
         NEW i \in Nat, NEW ins \in Nat, NEW pad \in Nat, Size(arr[n]) + ins + pad <= MaxLen, InsertAny(n, i, ins, pad)
  PROVE  ArraysInv'
<1>1. CASE ins = 0 /\ i < Size(arr[n]) /\ pad <= AllocationSize(arr[n]) - Size(arr[n])
  <2>1. InsertAny(n, i, 0, pad)
    BY <1>1
  <2>2. misuse' = {"empty range"} /\ ArraysTypeOK' /\ CostOfMisuse'
    BY <1>1, <2>1, EmptyInsertCosts
  <2> QED
    BY <2>2, Costs
<1>2. CASE ~ (ins = 0 /\ i < Size(arr[n]) /\ pad <= AllocationSize(arr[n]) - Size(arr[n]))
  <2>1. Good(mem', arr', want') /\ misuse' = misuse
    BY <1>2, InsertAnyKeeps
  <2> QED
    BY <2>1, Kept
<1> QED
  BY <1>1, <1>2

LEMMA PushBackOwnPreserves ==
  ASSUME Good(mem, arr, want), NEW n \in Arrays, Spare = {"raw"}, misuse = {}, kind' = kind, kind \in Kinds,
         NEW i \in Nat, Size(arr[n]) < MaxLen, PushBackOwn(n, i)
  PROVE  ArraysInv'
<1>1. CASE Full(n)
  BY <1>1, PushBackOwnCosts, Costs
<1>2. CASE ~ Full(n)
  BY <1>2, PushBackOwnKeeps, Kept
<1> QED
  BY <1>1, <1>2

LEMMA DynamicPreserves ==
  ASSUME Good(mem, arr, want), misuse = {}, kind' = kind, kind = "dynamic",
         NEW n \in Arrays, NEW o \in Arrays, DynamicStep(n, o)
  PROVE  ArraysInv'
<1>1. Spare = {"raw"} /\ kind # "limited" /\ kind \in Kinds
  BY DEF Spare, Kinds
<1>2. Size(arr[n]) \in Nat /\ \A i \in 0 .. Size(arr[n]) : i \in Nat
  BY PositionIs
<1>3. \A v \in Values : v \in Alive
  BY DEF Alive
<1>4. ASSUME NEW vs \in Lists, ConstructFrom(n, vs) PROVE ArraysInv'
  BY <1>1, <1>4, ListIs, ConstructFromKeeps, Kept
<1>5. ASSUME CopyConstruct(n, o) PROVE ArraysInv'
  BY <1>1, <1>5, CopyConstructKeeps, Kept
<1>6. ASSUME MoveConstruct(n, o) PROVE ArraysInv'
  BY <1>1, <1>6, MoveAssignKeeps, Kept DEF MoveConstruct
<1>7. ASSUME MoveAssignFrom(n, o) PROVE ArraysInv'
  BY <1>1, <1>7, MoveAssignKeeps, Kept
<1>8. ASSUME CopyAssign(n, o) PROVE ArraysInv'
  BY <1>1, <1>8, CopyAssignKeeps, Kept
<1>9. ASSUME CopyAssignFails(n, o) PROVE ArraysInv'
  BY <1>1, <1>9, CopyAssignFailsCosts, Costs
<1>10. ASSUME Swap(n, o) PROVE ArraysInv'
  BY <1>1, <1>10, SwapKeeps, Kept
<1>11. ASSUME Clear(n) PROVE ArraysInv'
  BY <1>1, <1>11, ArrayClearKeeps, Kept
<1>12. ASSUME ClearMemory(n) PROVE ArraysInv'
  BY <1>1, <1>12, ClearMemoryKeeps, Kept
<1>13. ASSUME PopBack(n) PROVE ArraysInv'
  BY <1>1, <1>13, PopBackKeeps, Kept
<1>14. ASSUME NEW size \in 0 .. MaxLen, Resize(n, size) PROVE ArraysInv'
  BY <1>1, <1>14, ArrayResizeKeeps, Kept
<1>15. ASSUME NEW size \in 0 .. MaxLen, Reserve(n, size) PROVE ArraysInv'
  BY <1>1, <1>15, ReserveKeeps, Kept
<1>16. ASSUME NEW i \in 0 .. Size(arr[n]), NEW j \in 0 .. Size(arr[n]), Erase(n, i, j) PROVE ArraysInv'
  BY <1>1, <1>2, <1>16, ErasePreserves
<1>17. ASSUME NEW i \in 0 .. Size(arr[n]), EraseAt(n, i) PROVE ArraysInv'
  BY <1>1, <1>2, <1>17, EraseAtKeeps, Kept
<1>18. ASSUME Size(arr[n]) < MaxLen, PushBackThrows(n) PROVE ArraysInv'
  BY <1>1, <1>18, ThrownCosts, Costs
<1>19. ASSUME Size(arr[n]) < MaxLen, NEW v \in Values, PushBack(n, v) PROVE ArraysInv'
  BY <1>1, <1>3, <1>19, ArrayPushBackKeeps, Kept
<1>20. ASSUME Size(arr[n]) < MaxLen, NEW v \in Values, NEW i \in 0 .. Size(arr[n]), Insert(n, i, v) PROVE ArraysInv'
  BY <1>1, <1>2, <1>3, <1>20, InsertKeeps, Kept
<1>21. ASSUME Size(arr[n]) < MaxLen, NEW i \in 0 .. Size(arr[n]), PushBackOwn(n, i) PROVE ArraysInv'
  BY <1>1, <1>2, <1>21, PushBackOwnPreserves
<1>22. ASSUME NEW i \in 0 .. Size(arr[n]), NEW ins \in 0 .. 2, NEW pad \in 0 .. 2,
              Size(arr[n]) + ins + pad <= MaxLen, InsertAny(n, i, ins, pad) PROVE ArraysInv'
  <2>1. ins \in Nat /\ pad \in Nat
    OBVIOUS
  <2> QED
    BY <1>1, <1>2, <1>22, <2>1, InsertAnyPreserves
<1> QED
  BY <1>4, <1>5, <1>6, <1>7, <1>8, <1>9, <1>10, <1>11, <1>12, <1>13, <1>14, <1>15, <1>16, <1>17, <1>18, <1>19, <1>20,
     <1>21, <1>22 DEF DynamicStep

LEMMA FixedPreserves ==
  ASSUME Good(mem, arr, want), misuse = {}, kind' = kind, kind = "fixed",
         NEW n \in Arrays, NEW o \in Arrays, FixedStep(n, o)
  PROVE  ArraysInv'
<1>1. Spare = {"raw"} /\ kind # "limited" /\ kind \in Kinds
  BY DEF Spare, Kinds
<1>2. ASSUME FixedConstruct(n) PROVE ArraysInv'
  <2>1. PICK vs \in Lists \cup {Inits(k) : k \in 1..MaxLen} : ConstructFrom(n, vs)
    BY <1>2 DEF FixedConstruct
  <2>2. vs \in Seq(Alive) /\ Len(vs) <= MaxCap
    <3>1. CASE vs \in Lists
      BY <3>1, ListIs
    <3>2. CASE vs \in {Inits(k) : k \in 1..MaxLen}
      <4>1. PICK k \in 1..MaxLen : vs = Inits(k)
        BY <3>2
      <4>2. MaxLen \in 0 .. MaxCap /\ MaxCap \in Nat
        BY RoomAssumption, MemoryAssumption
      <4>3. k \in Nat /\ k <= MaxCap
        BY <4>2
      <4>4. Inits(k) \in Seq(Alive) /\ Len(Inits(k)) = k
        BY <4>3, InitsIs
      <4> QED
        BY <4>1, <4>3, <4>4
    <3> QED
      BY <3>1, <3>2
  <2> QED
    BY <1>1, <2>1, <2>2, ConstructFromKeeps, Kept
<1>3. ASSUME CopyConstruct(n, o) PROVE ArraysInv'
  BY <1>1, <1>3, CopyConstructKeeps, Kept
<1>4. ASSUME MoveAssignFrom(n, o) PROVE ArraysInv'
  BY <1>1, <1>4, MoveAssignKeeps, Kept
<1>5. ASSUME CopyAssign(n, o) PROVE ArraysInv'
  BY <1>1, <1>5, CopyAssignKeeps, Kept
<1>6. ASSUME FixedCopyAssignFails(n, o) \/ ClearMemory(n) PROVE ArraysInv'
  BY <1>1, <1>6, ClearMemoryKeeps, Kept DEF FixedCopyAssignFails
<1>7. ASSUME Swap(n, o) PROVE ArraysInv'
  BY <1>1, <1>7, SwapKeeps, Kept
<1> QED
  BY <1>2, <1>3, <1>4, <1>5, <1>6, <1>7 DEF FixedStep

LEMMA FixedAllocPreserves ==
  ASSUME Good(mem, arr, want), misuse = {}, kind' = kind, kind = "fixed_alloc",
         NEW n \in Arrays, NEW o \in Arrays, FixedAllocStep(n, o)
  PROVE  ArraysInv'
<1>1. Spare = {"raw"} /\ kind # "limited" /\ kind \in Kinds
  BY DEF Spare, Kinds
<1>2. ASSUME NEW vs \in Lists, ConstructFrom(n, vs) PROVE ArraysInv'
  BY <1>1, <1>2, ListIs, ConstructFromKeeps, Kept
<1>3. ASSUME NEW k \in 0 .. MaxLen, CreateWithCapacity(n, k) PROVE ArraysInv'
  BY <1>1, <1>3, CreateKeeps, Kept
<1>4. ASSUME AllocCopyConstruct(n, o) PROVE ArraysInv'
  <2>1. CASE arr[o].last = arr[o].end
    BY <1>1, <1>4, <2>1, AllocCopyKeeps, Kept
  <2>2. CASE arr[o].last # arr[o].end
    BY <1>1, <1>4, <2>2, PartialCopyCosts, Costs
  <2> QED
    BY <2>1, <2>2
<1>5. ASSUME MoveConstruct(n, o) PROVE ArraysInv'
  BY <1>1, <1>5, MoveAssignKeeps, Kept DEF MoveConstruct
<1>6. ASSUME Swap(n, o) PROVE ArraysInv'
  BY <1>1, <1>6, SwapKeeps, Kept
<1>7. ASSUME ClearMemory(n) PROVE ArraysInv'
  BY <1>1, <1>7, ClearMemoryKeeps, Kept
<1>8. ASSUME AllocShrink(n) PROVE ArraysInv'
  BY <1>1, <1>8, PopBackKeeps, ArrayClearKeeps, Kept DEF AllocShrink
<1>9. ASSUME NEW v \in Values, AllocEmplaceBack(n, v) PROVE ArraysInv'
  <2>1. v \in Alive
    BY DEF Alive
  <2> QED
    BY <1>1, <1>9, <2>1, AllocEmplaceBackKeeps, Kept
<1> QED
  BY <1>2, <1>3, <1>4, <1>5, <1>6, <1>7, <1>8, <1>9 DEF FixedAllocStep

LEMMA LimitedPreserves ==
  ASSUME Good(mem, arr, want), misuse = {}, kind' = kind, kind = "limited",
         NEW n \in Arrays, NEW o \in Arrays, LimitedStep(n, o)
  PROVE  ArraysInv'
<1>1. Spare = Alive /\ kind \in Kinds
  BY DEF Spare, Kinds
<1>2. ASSUME NEW k \in 0 .. MaxLen, LimitedConstruct(n, k) PROVE ArraysInv'
  BY <1>1, <1>2, LimitedConstructKeeps, Kept
<1>3. ASSUME NEW k \in 0 .. MaxLen, LimitedShrink(n, k) PROVE ArraysInv'
  <2>1. k \in Nat
    OBVIOUS
  <2> QED
    BY <1>1, <1>3, <2>1, LimitedShrinkKeeps, Kept
<1>4. ASSUME NEW v \in Values, LimitedPushBack(n, v) PROVE ArraysInv'
  <2>1. v \in Alive
    BY DEF Alive
  <2> QED
    BY <1>1, <1>4, <2>1, LimitedPushBackKeeps, Kept
<1>5. ASSUME LimitedSwap(n, o) PROVE ArraysInv'
  BY <1>1, <1>5, LimitedSwapKeeps, Kept
<1> QED
  BY <1>2, <1>3, <1>4, <1>5 DEF LimitedStep

LEMMA BufferPreserves ==
  ASSUME Good(mem, arr, want), misuse = {}, kind' = kind, kind = "buffer",
         NEW n \in Arrays, NEW o \in Arrays, BufferStep(n, o)
  PROVE  ArraysInv'
<1>1. Spare = Alive /\ kind # "limited" /\ kind \in Kinds
  BY DEF Spare, Kinds
<1>2. ASSUME NEW k \in 0 .. MaxLen, BufferConstruct(n, k) PROVE ArraysInv'
  BY <1>1, <1>2, BufferConstructKeeps, Kept
<1>3. ASSUME NEW k \in 0 .. MaxLen, BufferConstructFails(n, k) PROVE ArraysInv'
  <2>1. k \in Nat
    OBVIOUS
  <2> QED
    BY <1>1, <1>3, <2>1, BufferFailsCosts, Costs
<1>4. ASSUME NEW k \in 0 .. MaxLen, BufferResize(n, k) PROVE ArraysInv'
  <2>1. CASE k <= AllocationSize(arr[n])
    <3>1. k \in Nat
      OBVIOUS
    <3> QED
      BY <1>1, <1>4, <2>1, <3>1, BufferResizeInPlaceKeeps, Kept
  <2>2. CASE ~ (k <= AllocationSize(arr[n]))
    BY <1>1, <1>4, <2>2, BufferResizeKeeps, Kept
  <2> QED
    BY <2>1, <2>2
<1>5. ASSUME NEW i \in 0 .. MaxLen - 1, NEW v \in Values, BufferWrite(n, i, v) PROVE ArraysInv'
  <2>1. v \in Alive /\ i \in Nat
    BY DEF Alive
  <2> QED
    BY <1>1, <1>5, <2>1, BufferWriteKeeps, Kept
<1>6. ASSUME BufferMove(n, o) PROVE ArraysInv'
  BY <1>1, <1>6, BufferMoveKeeps, Kept
<1> QED
  BY <1>2, <1>3, <1>4, <1>5, <1>6 DEF BufferStep

LEMMA ArraysNextInv == ArraysInv /\ [ArraysNext]_arrayVars => ArraysInv'
<1> SUFFICES ASSUME ArraysInv, [ArraysNext]_arrayVars PROVE ArraysInv'
  OBVIOUS
<1>1. CASE UNCHANGED arrayVars
  <2>1. mem' = mem /\ arr' = arr /\ want' = want /\ misuse' = misuse /\ kind' = kind
    BY <1>1 DEF arrayVars, vars
  <2>2. ArraysTypeOK /\ CostOfMisuse /\ (misuse = {} => Good(mem, arr, want))
    BY DEF ArraysInv
  <2>3. ArraysTypeOK'
    BY <2>1, <2>2 DEF ArraysTypeOK
  <2>4. CostOfMisuse'
    BY <2>1, <2>2 DEF CostOfMisuse
  <2>5. (misuse = {} => Good(mem, arr, want))'
    BY <2>1, <2>2 DEF Good, Holds, WellPlaced, Spare, Owns, Clean
  <2> QED
    BY <2>3, <2>4, <2>5 DEF ArraysInv
<1>2. CASE ArraysNext
  <2>1. misuse = {} /\ kind' = kind /\ Good(mem, arr, want)
    BY <1>2 DEF ArraysNext, ArraysInv
  <2>2. PICK n \in Arrays, o \in Arrays :
          \/ kind = "dynamic" /\ DynamicStep(n, o)
          \/ kind = "fixed" /\ FixedStep(n, o)
          \/ kind = "fixed_alloc" /\ FixedAllocStep(n, o)
          \/ kind = "limited" /\ LimitedStep(n, o)
          \/ kind = "buffer" /\ BufferStep(n, o)
    BY <1>2 DEF ArraysNext
  <2> QED
    BY <2>1, <2>2, DynamicPreserves, FixedPreserves, FixedAllocPreserves, LimitedPreserves, BufferPreserves
<1> QED
  BY <1>1, <1>2

LEMMA InvGivesLives == ArraysInv => ElementsLiveOnce
<1> SUFFICES ASSUME ArraysInv, misuse = {}
             PROVE  /\ mem.faults = {}
                    /\ \A a \in Address :
                         /\ mem.slot[a] \in Alive <=> \E n \in Arrays : a \in Elements(n)
                         /\ mem.slot[a] # "free" <=> \E n \in Arrays : a \in Span(arr[n].begin, arr[n].end)
                    /\ \A n, o \in Arrays : n # o => Elements(n) \cap Elements(o) = {}
  BY DEF ElementsLiveOnce
<1>1. Good(mem, arr, want) /\ mem.faults = {}
  BY DEF ArraysInv, Good, Clean
<1>2. ASSUME NEW n \in Arrays, NEW x \in Elements(n) PROVE x \in Address /\ mem.slot[x] \in Alive /\ Owns(arr, n, x)
  <2> DEFINE b == arr[n].begin
             l == arr[n].last
             e == arr[n].end
  <2>1. b \in Nat /\ l \in Nat /\ e \in Nat /\ b <= l /\ l <= e
    BY <1>1, ArrayIs
  <2>2. \A y \in Span(b, l) : y \in Address /\ mem.slot[y] \in Alive
    BY <1>1, ArrayIs
  <2>3. \A y \in Span(l, e) : y \in Address /\ mem.slot[y] \in Spare
    BY <1>1, ArrayIs
  <2>4. x \in Span(b, e) /\ (x \in Span(b, l) \/ (kind \in {"limited", "buffer"} /\ x \in Span(l, e)))
    <3>1. CASE kind \in {"limited", "buffer"}
      <4>1. x \in Span(b, e)
        BY <3>1 DEF Elements
      <4> HIDE DEF b, l, e
      <4>2. x \in Span(b, l) \/ x \in Span(l, e)
        BY <2>1, <4>1 DEF Span
      <4> QED
        BY <3>1, <4>1, <4>2
    <3>2. CASE kind \notin {"limited", "buffer"}
      <4>1. x \in Span(b, l)
        BY <3>2 DEF Elements
      <4> HIDE DEF b, l, e
      <4>2. x \in Span(b, e)
        BY <2>1, <4>1 DEF Span
      <4> QED
        BY <4>1, <4>2
    <3> QED
      BY <3>1, <3>2
  <2> QED
    BY <2>2, <2>3, <2>4 DEF Spare, Owns
<1>3. ASSUME NEW x \in Address, NEW n \in Arrays, Owns(arr, n, x), mem.slot[x] \in Alive PROVE x \in Elements(n)
  <2> DEFINE b == arr[n].begin
             l == arr[n].last
             e == arr[n].end
  <2>1. b \in Nat /\ l \in Nat /\ e \in Nat /\ b <= l /\ l <= e
    BY <1>1, ArrayIs
  <2>2. \A y \in Span(l, e) : mem.slot[y] \in Spare
    BY <1>1, ArrayIs
  <2>3. x \in Span(b, e)
    BY <1>3 DEF Owns
  <2>4. x \in Span(b, l) \/ x \in Span(l, e)
    <3> HIDE DEF b, l, e
    <3> QED
      BY <2>1, <2>3 DEF Span
  <2>5. CASE kind \in {"limited", "buffer"}
    BY <2>3, <2>5 DEF Elements
  <2>6. CASE kind \notin {"limited", "buffer"}
    BY <1>3, <2>2, <2>4, <2>6, SlotsDiffer DEF Elements, Spare
  <2> QED
    BY <2>5, <2>6
<1>4. ASSUME NEW x \in Address, mem.slot[x] # "free" PROVE \E n \in Arrays : Owns(arr, n, x)
  BY <1>1, <1>4 DEF Good
<1>5. ASSUME NEW x \in Address, NEW n \in Arrays, Owns(arr, n, x) PROVE mem.slot[x] # "free"
  BY <1>1, <1>5, OwnedIs
<1>6. ASSUME NEW n \in Arrays, NEW o \in Arrays, n # o PROVE Elements(n) \cap Elements(o) = {}
  <2> SUFFICES ASSUME NEW x \in Elements(n), x \in Elements(o) PROVE FALSE
    OBVIOUS
  <2>1. x \in Address /\ Owns(arr, n, x) /\ Owns(arr, o, x)
    BY <1>2
  <2> QED
    BY <1>1, <1>6, <2>1 DEF Good
<1>7. ASSUME NEW a \in Address
      PROVE  /\ mem.slot[a] \in Alive <=> \E n \in Arrays : a \in Elements(n)
             /\ mem.slot[a] # "free" <=> \E n \in Arrays : a \in Span(arr[n].begin, arr[n].end)
  <2>1. ASSUME mem.slot[a] \in Alive PROVE \E n \in Arrays : a \in Elements(n)
    <3>1. mem.slot[a] # "free"
      BY <2>1, SlotsDiffer
    <3> QED
      BY <1>3, <1>4, <2>1, <3>1
  <2>2. ASSUME NEW n \in Arrays, a \in Elements(n) PROVE mem.slot[a] \in Alive
    BY <1>2, <2>2
  <2>3. mem.slot[a] # "free" <=> \E n \in Arrays : Owns(arr, n, a)
    BY <1>4, <1>5
  <2> QED
    BY <2>1, <2>2, <2>3 DEF Owns
<1> QED
  BY <1>1, <1>6, <1>7

LEMMA InvGivesSequences == ArraysInv => HoldsItsSequence
<1> SUFFICES ASSUME ArraysInv, misuse = {}, NEW n \in Arrays PROVE Held(mem, arr[n].begin, arr[n].last) = want[n]
  BY DEF HoldsItsSequence
<1>1. Good(mem, arr, want)
  BY DEF ArraysInv
<1> QED
  BY <1>1, HeldIsOwned

-----------------------------------------------------------------------------
\* Whatever a program does with arrays of any kind: no element is constructed twice, used outside of
\* its life or left behind, and no allocation is lost or owned twice, as long as it does not misuse one.
THEOREM ElementsLive == ArraysSpec => []ElementsLiveOnce
<1>1. ArraysInv /\ [ArraysNext]_arrayVars => ArraysInv'
  BY ArraysNextInv
<1> QED
  BY ArraysInitInv, <1>1, InvGivesLives, PTL DEF ArraysSpec

-----------------------------------------------------------------------------
(* Counting up *)

LEMMA CountUp ==
  ASSUME NEW top \in Nat, NEW P, 0 \in P, \A m \in 0 .. top - 1 : m \in P => m + 1 \in P
  PROVE  \A m \in 0 .. top : m \in P
<1> DEFINE T == (0 .. top) \ P
<1> SUFFICES ASSUME T # {} PROVE FALSE
  OBVIOUS
<1>1. T \in SUBSET Nat
  OBVIOUS
<1>2. PICK m \in T : \A l \in T : m <= l
  BY <1>1, LeastElement
<1>3. m # 0 /\ m \in 0 .. top /\ m \notin P
  BY <1>2
<1>4. m - 1 \in 0 .. top - 1 /\ m - 1 \in 0 .. top /\ ~ (m <= m - 1) /\ (m - 1) + 1 = m
  BY <1>3
<1>5. m - 1 \in P
  <2>1. m - 1 \notin T
    BY <1>2, <1>4
  <2> QED
    BY <1>4, <2>1
<1> QED
  BY <1>3, <1>4, <1>5

-----------------------------------------------------------------------------
(* Blocks: where they lie *)

\* The operators on memory are those of arrays.
LEMMA SameTypes ==
  /\ Chunked!Address = Address /\ Chunked!Alive = Alive /\ Chunked!Faults = Faults /\ Chunked!Null = Null
  /\ Chunked!NullChunk = NullChunk /\ Chunked!EmptyMemory = EmptyMemory
  /\ \A n : Chunked!GrownSize(n) = GrownSize(n)
BY DEF Chunked!Address, Chunked!Stride, Address, Stride, Chunked!Alive, Alive, Chunked!Faults, Faults,
       Chunked!Null, Null, Chunked!NullChunk, NullChunk, Chunked!EmptyMemory, EmptyMemory,
       Chunked!GrownSize, GrownSize, Chunked!BitWidth, BitWidth

LEMMA SameOperators ==
  ASSUME NEW m
  PROVE  /\ \A lo, hi : Chunked!Span(lo, hi) = Span(lo, hi)
         /\ \A lo, hi : Chunked!Held(m, lo, hi) = Held(m, lo, hi)
         /\ \A lo, hi : Chunked!Destroy(m, lo, hi) = Destroy(m, lo, hi)
         /\ \A at, vs : Chunked!Construct(m, at, vs) = Construct(m, at, vs)
         /\ \A at, vs : Chunked!Assign(m, at, vs) = Assign(m, at, vs)
         /\ \A c : Chunked!Deallocate(m, c) = Deallocate(m, c)
         /\ \A n : Chunked!Placed(m, n) = Placed(m, n)
         /\ \A c, n, moves, news : Chunked!ChunkExpand(m, c, n, moves, news) = ChunkExpand(m, c, n, moves, news)
<1>1. /\ \A lo, hi : Chunked!Span(lo, hi) = Span(lo, hi)
      /\ Chunked!Address = Address /\ Chunked!Alive = Alive /\ Chunked!Null = Null /\ Chunked!Stride = Stride
  BY SameTypes DEF Chunked!Span, Span, Chunked!Stride, Stride
<1>2. \A r, f, before, fault : Chunked!Write(r, f, before, fault) = Write(r, f, before, fault)
  BY <1>1 DEF Chunked!Write, Write
<1>3. \A r, lo, hi : Chunked!Held(r, lo, hi) = Held(r, lo, hi)
  BY <1>1 DEF Chunked!Held, Held
<1>4. \A r, lo, hi : Chunked!Destroy(r, lo, hi) = Destroy(r, lo, hi)
  BY <1>1, <1>2 DEF Chunked!Destroy, Destroy
<1>5. \A r, at, vs : Chunked!Construct(r, at, vs) = Construct(r, at, vs)
  BY <1>1, <1>2 DEF Chunked!Construct, Construct
<1>6. \A at, vs : Chunked!Assign(m, at, vs) = Assign(m, at, vs)
  BY <1>1, <1>2 DEF Chunked!Assign, Assign
<1>7. \A r, c : Chunked!Deallocate(r, c) = Deallocate(r, c)
  BY <1>1, <1>2 DEF Chunked!Deallocate, Deallocate
<1>8. \A n : Chunked!Placed(m, n) = Placed(m, n)
  BY <1>1 DEF Chunked!Placed, Placed, Chunked!FreePlace, FreePlace
<1>9. \A n : Chunked!AllocateMemory(m, n) = AllocateMemory(m, n)
  BY <1>1, <1>2, <1>8 DEF Chunked!AllocateMemory, AllocateMemory
<1>10. \A r, begin, moves : Chunked!MoveAll(r, begin, moves) = MoveAll(r, begin, moves)
  BY DEF Chunked!MoveAll, MoveAll, Chunked!UninitializedMove, UninitializedMove, Chunked!Construct, Construct,
         Chunked!Taken, Taken, Chunked!Held, Held, Chunked!Write, Write, Chunked!Span, Span,
         Chunked!Address, Chunked!Stride, Address, Stride, Chunked!Alive, Alive
<1>11. \A r, moves : Chunked!DestroyAll(r, moves) = DestroyAll(r, moves)
  BY DEF Chunked!DestroyAll, DestroyAll, Chunked!Destroy, Destroy, Chunked!Write, Write, Chunked!Span, Span,
         Chunked!Address, Chunked!Stride, Address, Stride, Chunked!Alive, Alive
<1>12. \A r, begin, news : Chunked!ConstructAll(r, begin, news) = ConstructAll(r, begin, news)
  BY DEF Chunked!ConstructAll, ConstructAll, Chunked!Worth, Worth, Chunked!Construct, Construct,
         Chunked!Write, Write, Chunked!Span, Span, Chunked!Address, Chunked!Stride, Address, Stride
<1>13. \A c, n, moves, news : Chunked!ChunkExpand(m, c, n, moves, news) = ChunkExpand(m, c, n, moves, news)
  BY <1>7, <1>8, <1>9, <1>10, <1>11, <1>12 DEF Chunked!ChunkExpand, ChunkExpand
<1> QED
  BY <1>1, <1>3, <1>4, <1>5, <1>6, <1>7, <1>8, <1>13

\* The offset of a block in its allocation, and the capacity of the blocks before it.
Off(b) == (b - 1) * BlockSize

LEMMA OffIs ==
  /\ Off(1) = 0
  /\ \A b \in Nat \ {0} : Off(b) \in Nat /\ Off(b + 1) = Off(b) + BlockSize
  /\ \A b \in Nat \ {0}, c \in Nat \ {0} : b < c => Off(b) + BlockSize <= Off(c)
  /\ \A n \in Nat : n + 1 \in Nat \ {0} /\ Off(n + 1) = BlockSize * n /\ Off(n + 1) = n * BlockSize
<1>1. BlockSize \in Nat \ {0}
  BY ChunkedAssumption
<1>2. Off(1) = 0
  BY <1>1 DEF Off
<1>3. ASSUME NEW b \in Nat \ {0} PROVE Off(b) \in Nat /\ Off(b + 1) = Off(b) + BlockSize
  BY <1>1, SMT DEF Off
<1>4. ASSUME NEW b \in Nat \ {0}, NEW c \in Nat \ {0}, b < c PROVE Off(b) + BlockSize <= Off(c)
  <2>1. b - 1 \in Nat /\ c - 1 \in Nat /\ b - 1 < c - 1 /\ BlockSize \in Nat
    BY <1>1, <1>4
  <2> QED
    BY <2>1, ProductAbove DEF Off
<1>5. ASSUME NEW n \in Nat PROVE n + 1 \in Nat \ {0} /\ Off(n + 1) = BlockSize * n /\ Off(n + 1) = n * BlockSize
  <2>1. (n + 1) - 1 = n
    OBVIOUS
  <2> QED
    BY <1>1, <2>1, SMT DEF Off
<1> QED
  BY <1>2, <1>3, <1>4, <1>5

IsBlocks(bs) == bs \in Seq(Seq(Values)) /\ \A b \in 1 .. Len(bs) : Len(bs[b]) <= BlockSize

\* What block b holds, when those behind the last one hold nothing.
BlockOf(bs, b) == IF b \in 1 .. Len(bs) THEN bs[b] ELSE <<>>

LEMMA BlocksAre ==
  ASSUME NEW bs, IsBlocks(bs), NEW b \in Nat \ {0}
  PROVE  BlockOf(bs, b) \in Seq(Values) /\ BlockOf(bs, b) \in Seq(Alive) /\ Len(BlockOf(bs, b)) \in 0 .. BlockSize
<1>1. BlockSize \in Nat /\ Values \in SUBSET Alive
  BY ChunkedAssumption DEF Alive
<1>2. CASE b \in 1 .. Len(bs)
  <2>1. bs[b] \in Seq(Values) /\ Len(bs[b]) <= BlockSize
    BY <1>2 DEF IsBlocks
  <2> DEFINE t == bs[b]
  <2>2. BlockOf(bs, b) = t
    BY <1>2 DEF BlockOf
  <2>3. t \in Seq(Values) /\ Len(t) <= BlockSize
    BY <2>1
  <2> HIDE DEF t
  <2>4. t \in Seq(Alive) /\ Len(t) \in Nat
    BY <1>1, <2>3
  <2> QED
    BY <1>1, <2>2, <2>3, <2>4
<1>3. CASE b \notin 1 .. Len(bs)
  <2>1. BlockOf(bs, b) = <<>>
    BY <1>3 DEF BlockOf
  <2> QED
    BY <1>1, <2>1
<1> QED
  BY <1>2, <1>3

\* The slots of the block that begins at p, and that it begins with t and has nothing behind it.
InBlock(p, x) == p <= x /\ x < p + BlockSize
BlockIs(m, p, t) ==
  \A x \in Address : InBlock(p, x) => m.slot[x] = IF x < p + Len(t) THEN t[x - p + 1] ELSE "raw"

\* k is m with t in that block.
Changed(m, k, p, t) ==
  /\ Clean(k) /\ BlockIs(k, p, t)
  /\ \A x \in Address : ~ InBlock(p, x) => k.slot[x] = m.slot[x]

BlockFits(p) == p \in Nat /\ \A x \in Int : InBlock(p, x) => x \in Address

LEMMA ConstructedIn ==
  ASSUME NEW m, Clean(m), NEW p, BlockFits(p), NEW t \in Seq(Alive), BlockIs(m, p, t),
         NEW vs \in Seq(Alive), Len(t) + Len(vs) <= BlockSize
  PROVE  Changed(m, Construct(m, p + Len(t), vs), p, t \o vs)
<1> DEFINE at == p + Len(t)
           k == Construct(m, at, vs)
           z == t \o vs
<1>1. p \in Nat /\ Len(t) \in Nat /\ Len(vs) \in Nat /\ BlockSize \in Nat /\ at = p + Len(t) /\ at \in Nat
  BY ChunkedAssumption DEF BlockFits
<1>2. /\ z \in Seq(Alive) /\ Len(z) = Len(t) + Len(vs)
      /\ \A i \in 1 .. Len(t) : z[i] = t[i]
      /\ \A i \in Len(t) + 1 .. Len(t) + Len(vs) : z[i] = vs[i - Len(t)]
  BY ConcatIs
<1>3. Changed(m, k, p, t \o vs) <=> Changed(m, k, p, z)
  OBVIOUS
<1> HIDE DEF at, z
<1>4. ASSUME NEW x \in Span(at, at + Len(vs)) PROVE x \in Address /\ m.slot[x] = "raw" /\ InBlock(p, x)
  <2>1. x \in Int /\ at <= x /\ x < at + Len(vs)
    BY <1>1, <1>4 DEF Span
  <2>2. InBlock(p, x) /\ ~ (x < p + Len(t))
    BY <1>1, <2>1 DEF InBlock
  <2>3. x \in Address
    BY <2>1, <2>2 DEF BlockFits
  <2> QED
    BY <2>2, <2>3 DEF BlockIs
<1>5. Clean(k) /\ \A x \in Address : k.slot[x] = IF x \in Span(at, at + Len(vs)) THEN vs[x - at + 1] ELSE m.slot[x]
  <2>1. vs \in Seq(Slots) /\ at \in Int
    BY <1>1, SlotsDiffer
  <2> QED
    BY <1>4, <2>1, ConstructIs
<1> HIDE DEF k
<1>6. ASSUME NEW x \in Address, InBlock(p, x) PROVE k.slot[x] = IF x < p + Len(z) THEN z[x - p + 1] ELSE "raw"
  <2>1. x \in Int /\ p <= x /\ x < p + BlockSize
    BY <1>6, AddressType DEF InBlock
  <2>2. m.slot[x] = IF x < at THEN t[x - p + 1] ELSE "raw"
    BY <1>1, <1>6 DEF BlockIs
  <2>3. CASE x < at
    <3>1. x \notin Span(at, at + Len(vs)) /\ x < p + Len(z) /\ x - p + 1 \in 1 .. Len(t)
      BY <1>1, <1>2, <2>1, <2>3 DEF Span
    <3> QED
      BY <1>2, <1>5, <2>2, <2>3, <3>1
  <2>4. CASE at <= x /\ x < at + Len(vs)
    <3>1. x \in Span(at, at + Len(vs)) /\ x < p + Len(z)
      BY <1>1, <1>2, <2>1, <2>4 DEF Span
    <3>2. x - p + 1 \in Len(t) + 1 .. Len(t) + Len(vs) /\ (x - p + 1) - Len(t) = x - at + 1
      BY <1>1, <2>1, <2>4
    <3>3. z[x - p + 1] = vs[x - at + 1]
      BY <1>2, <3>2
    <3> QED
      BY <1>5, <3>1, <3>3
  <2>5. CASE at + Len(vs) <= x
    <3>1. x \notin Span(at, at + Len(vs)) /\ ~ (x < p + Len(z)) /\ ~ (x < at)
      BY <1>1, <1>2, <2>1, <2>5 DEF Span
    <3> QED
      BY <1>5, <2>2, <3>1
  <2> QED
    BY <1>1, <2>1, <2>3, <2>4, <2>5
<1>7. ASSUME NEW x \in Address, ~ InBlock(p, x) PROVE k.slot[x] = m.slot[x]
  BY <1>4, <1>5, <1>7
<1>8. Changed(m, k, p, z)
  BY <1>5, <1>6, <1>7 DEF Changed, BlockIs
<1> QED
  BY <1>3, <1>8 DEF at, k

\* A part of a block whose objects have been used, or replaced by others, and what is behind them.
LEMMA OverwrittenIn ==
  ASSUME NEW m, Clean(m), NEW p, BlockFits(p), NEW t, Len(t) \in 0 .. BlockSize, BlockIs(m, p, t),
         NEW i \in Nat, NEW n \in Nat, i <= n, n <= Len(t),
         NEW k, Clean(k), NEW z, Len(z) \in 0 .. Len(t),
         \A x \in Address : ~ (p + i <= x /\ x < p + n) => k.slot[x] = m.slot[x],
         \A j \in 1 .. Len(t) : ~ (i < j /\ j <= n) => j <= Len(z) /\ z[j] = t[j],
         \A x \in Address : p + i <= x /\ x < p + n =>
           k.slot[x] = IF x < p + Len(z) THEN z[x - p + 1] ELSE "raw"
  PROVE  Changed(m, k, p, z)
<1>1. p \in Nat /\ BlockSize \in Nat /\ Len(t) \in Nat /\ Len(z) \in Nat /\ Len(t) <= BlockSize /\ Len(z) <= Len(t)
  BY ChunkedAssumption DEF BlockFits
<1>2. ASSUME NEW x \in Address, InBlock(p, x) PROVE k.slot[x] = IF x < p + Len(z) THEN z[x - p + 1] ELSE "raw"
  <2>1. x \in Int /\ p <= x /\ x < p + BlockSize
    BY <1>2, AddressType DEF InBlock
  <2>2. CASE ~ (p + i <= x /\ x < p + n)
    <3>1. k.slot[x] = IF x < p + Len(t) THEN t[x - p + 1] ELSE "raw"
      BY <1>2, <2>2 DEF BlockIs
    <3>2. CASE x < p + Len(t)
      <4>1. x - p + 1 \in 1 .. Len(t) /\ ~ (i < x - p + 1 /\ x - p + 1 <= n)
        BY <1>1, <2>1, <2>2, <3>2
      <4>2. x - p + 1 <= Len(z) /\ z[x - p + 1] = t[x - p + 1]
        BY <4>1
      <4>3. x < p + Len(z)
        BY <1>1, <2>1, <4>2
      <4> QED
        BY <3>1, <3>2, <4>2, <4>3
    <3>3. CASE ~ (x < p + Len(t))
      BY <1>1, <2>1, <3>1, <3>3
    <3> QED
      BY <3>2, <3>3
  <2>3. CASE p + i <= x /\ x < p + n
    BY <2>3
  <2> QED
    BY <2>2, <2>3
<1>3. ASSUME NEW x \in Address, ~ InBlock(p, x) PROVE k.slot[x] = m.slot[x]
  <2>1. x \in Int
    BY AddressType
  <2>2. ~ (p + i <= x /\ x < p + n)
    BY <1>1, <1>3, <2>1 DEF InBlock
  <2> QED
    BY <2>2
<1> QED
  BY <1>2, <1>3 DEF Changed, BlockIs

\* What OverwrittenIn says of the slots of a part.
LEMMA PartOfBlock ==
  ASSUME NEW m, NEW p, BlockFits(p), NEW t \in Seq(Alive), Len(t) <= BlockSize, BlockIs(m, p, t),
         NEW i \in Nat, NEW n \in Nat, i <= n, n <= Len(t)
  PROVE  /\ \A x : x \in Span(p + i, p + n) <=> x \in Int /\ p + i <= x /\ x < p + n
         /\ \A x \in Span(p + i, p + n) : /\ x \in Address /\ m.slot[x] \in Alive
                                          /\ x - p + 1 \in 1 .. Len(t) /\ m.slot[x] = t[x - p + 1]
<1>1. p \in Nat /\ BlockSize \in Nat /\ Len(t) \in Nat
  BY ChunkedAssumption DEF BlockFits
<1>2. \A x : x \in Span(p + i, p + n) <=> x \in Int /\ p + i <= x /\ x < p + n
  BY <1>1 DEF Span
<1>3. ASSUME NEW x \in Span(p + i, p + n)
      PROVE  /\ x \in Address /\ m.slot[x] \in Alive
             /\ x - p + 1 \in 1 .. Len(t) /\ m.slot[x] = t[x - p + 1]
  <2>1. x \in Int /\ p + i <= x /\ x < p + n
    BY <1>2, <1>3
  <2>2. InBlock(p, x) /\ x < p + Len(t) /\ x - p + 1 \in 1 .. Len(t)
    BY <1>1, <2>1 DEF InBlock
  <2>3. x \in Address
    BY <2>1, <2>2 DEF BlockFits
  <2>4. m.slot[x] = t[x - p + 1]
    BY <2>2, <2>3 DEF BlockIs
  <2> QED
    BY <2>2, <2>3, <2>4
<1> QED
  BY <1>2, <1>3

MovedText(t) == [j \in 1 .. Len(t) |-> "moved"]

LEMMA MovedTextIs ==
  ASSUME NEW t \in Seq(Alive)
  PROVE  MovedText(t) \in Seq(Alive) /\ Len(MovedText(t)) = Len(t) /\ \A j \in 1 .. Len(t) : MovedText(t)[j] = "moved"
<1>1. Len(t) \in Nat /\ "moved" \in Alive
  BY SlotsDiffer
<1> QED
  BY <1>1 DEF MovedText

LEMMA TakenIn ==
  ASSUME NEW m, Clean(m), NEW p, BlockFits(p), NEW t \in Seq(Alive), Len(t) <= BlockSize, BlockIs(m, p, t)
  PROVE  Changed(m, Taken(m, p, p + Len(t)), p, MovedText(t))
<1> DEFINE k == Taken(m, p, p + Len(t))
           z == MovedText(t)
<1>1. p \in Nat /\ Len(t) \in Nat /\ BlockSize \in Nat /\ p + 0 = p
  BY ChunkedAssumption DEF BlockFits
<1>2. z \in Seq(Alive) /\ Len(z) = Len(t) /\ \A j \in 1 .. Len(t) : z[j] = "moved"
  BY MovedTextIs
<1>3. /\ \A x : x \in Span(p + 0, p + Len(t)) <=> x \in Int /\ p + 0 <= x /\ x < p + Len(t)
      /\ \A x \in Span(p + 0, p + Len(t)) : x \in Address /\ m.slot[x] \in Alive /\ x - p + 1 \in 1 .. Len(t)
  <2>1. 0 \in Nat /\ 0 <= Len(t) /\ Len(t) <= Len(t)
    BY <1>1
  <2> QED
    BY <1>1, <2>1, PartOfBlock
<1>4. Clean(k) /\ \A x \in Address : k.slot[x] = IF x \in Span(p, p + Len(t)) THEN "moved" ELSE m.slot[x]
  BY <1>1, <1>3, TakenIs
<1> HIDE DEF k, z
<1>5. \A x \in Address : ~ (p + 0 <= x /\ x < p + Len(t)) => k.slot[x] = m.slot[x]
  BY <1>1, <1>3, <1>4
<1>6. ASSUME NEW x \in Address, p + 0 <= x /\ x < p + Len(t)
      PROVE  k.slot[x] = IF x < p + Len(z) THEN z[x - p + 1] ELSE "raw"
  <2>1. x \in Span(p, p + Len(t)) /\ x - p + 1 \in 1 .. Len(t)
    BY <1>1, <1>3, <1>6, AddressType
  <2> QED
    BY <1>2, <1>4, <1>6, <2>1
<1>7. \A j \in 1 .. Len(t) : ~ (0 < j /\ j <= Len(t)) => j <= Len(z) /\ z[j] = t[j]
  OBVIOUS
<1>8. 0 \in Nat /\ 0 <= Len(t) /\ Len(t) <= Len(t) /\ Len(z) \in 0 .. Len(t) /\ Len(t) \in 0 .. BlockSize
  BY <1>1, <1>2
<1>9. Changed(m, k, p, z)
  BY <1>1, <1>4, <1>5, <1>6, <1>7, <1>8, OverwrittenIn
<1> QED
  BY <1>9 DEF k, z

LEMMA DestroyedIn ==
  ASSUME NEW m, Clean(m), NEW p, BlockFits(p), NEW t \in Seq(Alive), Len(t) <= BlockSize, BlockIs(m, p, t), NEW i \in 0 .. Len(t)
  PROVE  Changed(m, Destroy(m, p + i, p + Len(t)), p, SubSeq(t, 1, i))
<1> DEFINE k == Destroy(m, p + i, p + Len(t))
           z == SubSeq(t, 1, i)
<1>1. p \in Nat /\ Len(t) \in Nat /\ BlockSize \in Nat /\ i \in Nat /\ i <= Len(t)
  BY ChunkedAssumption DEF BlockFits
<1>2. z \in Seq(Alive) /\ Len(z) = i /\ \A j \in 1 .. i : z[j] = t[j]
  BY PrefixIs
<1>3. /\ \A x : x \in Span(p + i, p + Len(t)) <=> x \in Int /\ p + i <= x /\ x < p + Len(t)
      /\ \A x \in Span(p + i, p + Len(t)) : x \in Address /\ m.slot[x] \in Alive
  <2>1. Len(t) <= Len(t)
    BY <1>1
  <2> QED
    BY <1>1, <2>1, PartOfBlock
<1>4. Clean(k) /\ \A x \in Address : k.slot[x] = IF x \in Span(p + i, p + Len(t)) THEN "raw" ELSE m.slot[x]
  BY <1>1, <1>3, DestroyIs
<1> HIDE DEF k, z
<1>5. \A x \in Address : ~ (p + i <= x /\ x < p + Len(t)) => k.slot[x] = m.slot[x]
  BY <1>3, <1>4
<1>6. ASSUME NEW x \in Address, p + i <= x /\ x < p + Len(t)
      PROVE  k.slot[x] = IF x < p + Len(z) THEN z[x - p + 1] ELSE "raw"
  <2>1. x \in Int /\ x \in Span(p + i, p + Len(t))
    BY <1>3, <1>6, AddressType
  <2>2. ~ (x < p + Len(z))
    BY <1>1, <1>2, <1>6, <2>1
  <2> QED
    BY <1>4, <2>1, <2>2
<1>7. \A j \in 1 .. Len(t) : ~ (i < j /\ j <= Len(t)) => j <= Len(z) /\ z[j] = t[j]
  BY <1>1, <1>2
<1>8. Len(t) <= Len(t) /\ Len(z) \in 0 .. Len(t) /\ Len(t) \in 0 .. BlockSize
  BY <1>1, <1>2
<1>9. Changed(m, k, p, z)
  BY <1>1, <1>4, <1>5, <1>6, <1>7, <1>8, OverwrittenIn
<1> QED
  BY <1>9 DEF k, z

LEMMA AssignedIn ==
  ASSUME NEW m, Clean(m), NEW p, BlockFits(p), NEW t \in Seq(Alive), Len(t) <= BlockSize, BlockIs(m, p, t),
         NEW z \in Seq(Alive), Len(z) = Len(t)
  PROVE  Changed(m, Assign(m, p, z), p, z)
<1> DEFINE k == Assign(m, p, z)
<1>1. p \in Nat /\ Len(t) \in Nat /\ BlockSize \in Nat /\ p + 0 = p /\ Len(z) \in 0 .. Len(t)
  BY ChunkedAssumption DEF BlockFits
<1>3. /\ \A x : x \in Span(p + 0, p + Len(t)) <=> x \in Int /\ p + 0 <= x /\ x < p + Len(t)
      /\ \A x \in Span(p + 0, p + Len(t)) : x \in Address /\ m.slot[x] \in Alive
  <2>1. 0 \in Nat /\ 0 <= Len(t) /\ Len(t) <= Len(t)
    BY <1>1
  <2> QED
    BY <1>1, <2>1, PartOfBlock
<1>4. Clean(k) /\ \A x \in Address : k.slot[x] = IF x \in Span(p, p + Len(z)) THEN z[x - p + 1] ELSE m.slot[x]
  <2>1. z \in Seq(Slots) /\ p \in Int
    BY <1>1, SlotsDiffer
  <2>2. \A x \in Span(p, p + Len(z)) : x \in Address /\ m.slot[x] \in Alive
    BY <1>1, <1>3
  <2> QED
    BY <2>1, <2>2, AssignIs
<1> HIDE DEF k
<1>5. \A x \in Address : ~ (p + 0 <= x /\ x < p + Len(t)) => k.slot[x] = m.slot[x]
  BY <1>1, <1>3, <1>4
<1>6. ASSUME NEW x \in Address, p + 0 <= x /\ x < p + Len(t)
      PROVE  k.slot[x] = IF x < p + Len(z) THEN z[x - p + 1] ELSE "raw"
  <2>1. x \in Span(p, p + Len(z)) /\ x < p + Len(z)
    BY <1>1, <1>3, <1>6, AddressType
  <2> QED
    BY <1>4, <2>1
<1>7. \A j \in 1 .. Len(t) : ~ (0 < j /\ j <= Len(t)) => j <= Len(z) /\ z[j] = t[j]
  OBVIOUS
<1>8. 0 \in Nat /\ 0 <= Len(t) /\ Len(t) <= Len(t) /\ Len(z) \in 0 .. Len(t) /\ Len(t) \in 0 .. BlockSize
  BY <1>1
<1>9. Changed(m, k, p, z)
  BY <1>1, <1>4, <1>5, <1>6, <1>7, <1>8, OverwrittenIn
<1> QED
  BY <1>9 DEF k

LEMMA HeldIn ==
  ASSUME NEW m, Clean(m), NEW p, BlockFits(p), NEW t \in Seq(Alive), Len(t) <= BlockSize, BlockIs(m, p, t)
  PROVE  Held(m, p, p + Len(t)) = t
<1> DEFINE h == Held(m, p, p + Len(t))
<1>1. p \in Nat /\ Len(t) \in Nat /\ p + 0 = p /\ 0 \in Nat /\ 0 <= Len(t) /\ Len(t) <= Len(t) /\ (p + Len(t)) - p = Len(t)
  BY DEF BlockFits
<1>2. \A x \in Span(p + 0, p + Len(t)) : x \in Address /\ x - p + 1 \in 1 .. Len(t) /\ m.slot[x] = t[x - p + 1]
  BY <1>1, PartOfBlock
<1>3. h \in Seq(Slots) /\ Len(h) = Len(t) /\ \A j \in 1 .. Len(t) : h[j] = m.slot[p + j - 1]
  <2> DEFINE l == p + Len(t)
  <2>1. p \in Int /\ l \in Int /\ p <= l /\ l - p = Len(t) /\ h = Held(m, p, l)
    BY <1>1
  <2>2. \A x \in Span(p, l) : x \in Address
    BY <1>1, <1>2
  <2> HIDE DEF l, h
  <2>3. Held(m, p, l) \in Seq(Slots) /\ Len(Held(m, p, l)) = l - p
    BY <2>1, <2>2, HeldIs
  <2>4. \A j \in 1 .. l - p : Held(m, p, l)[j] = m.slot[p + j - 1]
    BY <2>1, <2>2, HeldIs
  <2> QED
    BY <2>1, <2>3, <2>4
<1> HIDE DEF h
<1>4. ASSUME NEW j \in 1 .. Len(t) PROVE h[j] = t[j]
  <2>1. p + j - 1 \in Span(p + 0, p + Len(t)) /\ (p + j - 1) - p + 1 = j
    BY <1>1 DEF Span
  <2> QED
    BY <1>2, <1>3, <2>1
<1>5. t \in Seq(Slots)
  BY SlotsDiffer
<1>6. h = t
  BY <1>3, <1>4, <1>5, SameSequence
<1> QED
  BY <1>6 DEF h

-----------------------------------------------------------------------------
(* Blocks: an allocation, and two of them while one is given up *)

\* An allocation of n blocks at e; without blocks there is none.
LiesAt(e, n) == n \in Nat /\ Off(n + 1) <= MaxCap /\ ((Base(e) /\ n # 0) \/ (e = Null /\ n = 0))

Inside(e, n, x) == e <= x /\ x < e + Off(n + 1)

LEMMA BlocksLie ==
  ASSUME NEW e, NEW n, LiesAt(e, n)
  PROVE  /\ e \in Nat /\ n \in Nat /\ Off(n + 1) \in Nat /\ BlockSize \in Nat
         /\ \A x \in Int : Inside(e, n, x) => x \in Address /\ Base(e) /\ x < e + MaxCap
         /\ \A b \in 1 .. n : /\ b \in Nat \ {0} /\ BlockFits(e + Off(b)) /\ Off(b) \in Nat /\ Off(b) + BlockSize <= Off(n + 1)
                              /\ \A x \in Int : InBlock(e + Off(b), x) => Inside(e, n, x)
<1>1. n \in Nat /\ n + 1 \in Nat \ {0} /\ Off(n + 1) <= MaxCap /\ BlockSize \in Nat /\ MaxCap \in Nat
  BY ChunkedAssumption, MemoryAssumption DEF LiesAt
<1>2. Off(n + 1) \in Nat /\ (n = 0 => Off(n + 1) = 0)
  <2>1. Off(n + 1) \in Nat /\ Off(1) = 0
    BY <1>1, OffIs
  <2>2. n = 0 => n + 1 = 1
    OBVIOUS
  <2> QED
    BY <2>1, <2>2
<1>3. e \in Nat /\ (Base(e) => \A x \in Int : e <= x /\ x <= e + MaxCap => x \in Address)
  <2>1. CASE Base(e)
    BY <2>1, BaseIs
  <2>2. CASE ~ Base(e)
    BY <2>2 DEF LiesAt, Null
  <2> QED
    BY <2>1, <2>2
<1>4. ASSUME NEW x \in Int, Inside(e, n, x) PROVE x \in Address /\ Base(e) /\ x < e + MaxCap
  <2> DEFINE o == Off(n + 1)
  <2>3. o \in Nat /\ o <= MaxCap /\ (n = 0 => o = 0) /\ e <= x /\ x < e + o
    BY <1>1, <1>2, <1>4 DEF Inside
  <2> HIDE DEF o
  <2>1. n # 0 /\ x < e + MaxCap /\ e <= x /\ x <= e + MaxCap
    BY <1>1, <1>3, <2>3
  <2>2. Base(e)
    BY <2>1 DEF LiesAt
  <2> QED
    BY <1>3, <2>1, <2>2
<1>5. ASSUME NEW b \in 1 .. n
      PROVE  /\ b \in Nat \ {0} /\ BlockFits(e + Off(b)) /\ Off(b) \in Nat /\ Off(b) + BlockSize <= Off(n + 1)
             /\ \A x \in Int : InBlock(e + Off(b), x) => Inside(e, n, x)
  <2>1. b \in Nat \ {0} /\ b < n + 1
    BY <1>1
  <2>2. Off(b) \in Nat /\ Off(b) + BlockSize <= Off(n + 1)
    BY <1>1, <2>1, OffIs
  <2>3. \A x \in Int : InBlock(e + Off(b), x) => Inside(e, n, x)
    BY <1>1, <1>2, <1>3, <2>2 DEF InBlock, Inside
  <2>4. BlockFits(e + Off(b))
    BY <1>3, <1>4, <2>2, <2>3 DEF BlockFits
  <2> QED
    BY <2>1, <2>2, <2>3, <2>4
<1> QED
  BY <1>1, <1>2, <1>3, <1>4, <1>5

LEMMA BlocksApart ==
  ASSUME NEW e \in Nat, NEW b \in Nat \ {0}, NEW c \in Nat \ {0}, NEW x \in Int,
         InBlock(e + Off(b), x), InBlock(e + Off(c), x)
  PROVE  b = c
<1>1. Off(b) \in Nat /\ Off(c) \in Nat /\ BlockSize \in Nat
  BY OffIs, ChunkedAssumption
<1>2. (b < c => Off(b) + BlockSize <= Off(c)) /\ (c < b => Off(c) + BlockSize <= Off(b))
  BY OffIs
<1> DEFINE p == Off(b)
           q == Off(c)
<1>3. e + p <= x /\ x < e + p + BlockSize /\ e + q <= x /\ x < e + q + BlockSize
  BY DEF InBlock
<1> HIDE DEF p, q
<1> QED
  BY <1>1, <1>2, <1>3 DEF p, q

LEMMA SomeBlock ==
  ASSUME NEW e \in Nat, NEW n \in Nat, NEW x \in Int, Inside(e, n, x)
  PROVE  \E b \in 1 .. n : InBlock(e + Off(b), x)
<1> DEFINE P == {k \in 0 .. n : Inside(e, k, x) => \E b \in 1 .. k : InBlock(e + Off(b), x)}
<1>1. 0 \in P
  <2>1. Off(1) = 0
    BY OffIs
  <2>2. ~ Inside(e, 0, x)
    BY <2>1 DEF Inside
  <2> QED
    BY <2>2
<1>2. ASSUME NEW k \in 0 .. n - 1, k \in P PROVE k + 1 \in P
  <2>1. k + 1 \in Nat \ {0} /\ k + 1 \in 1 .. k + 1 /\ k + 1 \in 0 .. n /\ \A b \in 1 .. k : b \in 1 .. k + 1
    OBVIOUS
  <2>2. Off(k + 1) \in Nat /\ Off((k + 1) + 1) = Off(k + 1) + BlockSize /\ BlockSize \in Nat
    BY <2>1, OffIs, ChunkedAssumption
  <2>3. CASE Inside(e, k, x)
    BY <1>2, <2>1, <2>3
  <2>4. CASE ~ Inside(e, k, x)
    <3>1. Inside(e, k + 1, x) => InBlock(e + Off(k + 1), x)
      BY <2>2, <2>4 DEF Inside, InBlock
    <3> QED
      BY <2>1, <3>1
  <2> QED
    BY <2>3, <2>4
<1> HIDE DEF P
<1>3. n \in P
  BY <1>1, <1>2, CountUp
<1> QED
  BY <1>3 DEF P

\* The allocation at e, which is that of n blocks, has the blocks bs, and there is no other one.
Laid(m, e, n, bs) ==
  /\ \A b \in 1 .. n : BlockIs(m, e + Off(b), BlockOf(bs, b))
  /\ \A x \in Address : ~ Inside(e, n, x) => m.slot[x] = "free"

LEMMA Rewritten ==
  ASSUME NEW e, NEW n, LiesAt(e, n), NEW m, NEW bs, Laid(m, e, n, bs),
         NEW b \in 1 .. n, NEW k, NEW t, Changed(m, k, e + Off(b), t),
         NEW cs, \A d \in 1 .. n : BlockOf(cs, d) = IF d = b THEN t ELSE BlockOf(bs, d)
  PROVE  Laid(k, e, n, cs)
<1>1. e \in Nat /\ b \in Nat \ {0} /\ \A x \in Int : InBlock(e + Off(b), x) => Inside(e, n, x)
  BY BlocksLie
<1>2. ASSUME NEW d \in 1 .. n PROVE BlockIs(k, e + Off(d), BlockOf(cs, d))
  <2>1. CASE d = b
    <3>1. BlockIs(k, e + Off(b), t) /\ BlockOf(cs, d) = t
      BY <2>1 DEF Changed
    <3> QED
      BY <2>1, <3>1
  <2>2. CASE d # b
    <3>1. BlockOf(cs, d) = BlockOf(bs, d) /\ BlockIs(m, e + Off(d), BlockOf(bs, d)) /\ d \in Nat \ {0}
      BY <2>2 DEF Laid
    <3> DEFINE p == e + Off(d)
               t1 == BlockOf(bs, d)
    <3>2. ASSUME NEW x \in Address, InBlock(p, x) PROVE k.slot[x] = m.slot[x]
      <4>1. x \in Int
        BY AddressType
      <4>2. ~ InBlock(e + Off(b), x)
        BY <1>1, <2>2, <3>1, <3>2, <4>1, BlocksApart
      <4> QED
        BY <4>2 DEF Changed
    <3>3. BlockIs(m, p, t1)
      BY <3>1
    <3> HIDE DEF p, t1
    <3>4. BlockIs(k, p, t1)
      BY <3>2, <3>3 DEF BlockIs
    <3> QED
      BY <3>1, <3>4 DEF p, t1
  <2> QED
    BY <2>1, <2>2
<1>3. ASSUME NEW x \in Address, ~ Inside(e, n, x) PROVE k.slot[x] = "free"
  <2>1. ~ InBlock(e + Off(b), x) /\ m.slot[x] = "free"
    BY <1>1, <1>3, AddressType DEF Laid
  <2> QED
    BY <2>1 DEF Changed
<1> QED
  BY <1>2, <1>3 DEF Laid

LEMMA SameLaid ==
  ASSUME NEW e, NEW n, NEW m, NEW bs, Laid(m, e, n, bs),
         NEW cs, \A d \in 1 .. n : BlockOf(cs, d) = BlockOf(bs, d)
  PROVE  Laid(m, e, n, cs)
BY DEF Laid

\* Two allocations, with the blocks w and v.
Apart2(e, n, c, s) == LiesAt(e, n) /\ LiesAt(c, s) /\ e # c

Two(m, e, n, w, c, s, v) ==
  /\ Clean(m)
  /\ \A b \in 1 .. n : BlockIs(m, e + Off(b), w[b])
  /\ \A b \in 1 .. s : BlockIs(m, c + Off(b), v[b])
  /\ \A x \in Address : ~ Inside(e, n, x) /\ ~ Inside(c, s, x) => m.slot[x] = "free"

LEMMA NotInBoth ==
  ASSUME NEW e, NEW n, NEW c, NEW s, Apart2(e, n, c, s), NEW x \in Int
  PROVE  ~ (Inside(e, n, x) /\ Inside(c, s, x))
<1> SUFFICES ASSUME Inside(e, n, x), Inside(c, s, x) PROVE FALSE
  OBVIOUS
<1>1. LiesAt(e, n) /\ LiesAt(c, s) /\ e # c
  BY DEF Apart2
<1>2. e \in Nat /\ Base(e) /\ x < e + MaxCap /\ e <= x
  BY <1>1, BlocksLie DEF Inside
<1>3. c \in Nat /\ Base(c) /\ x < c + MaxCap /\ c <= x
  BY <1>1, BlocksLie DEF Inside
<1>4. MaxCap \in Nat /\ (e + MaxCap < c \/ c + MaxCap < e)
  BY <1>1, <1>2, <1>3, BasesApart, MemoryAssumption
<1> QED
  BY <1>2, <1>3, <1>4

\* One of the blocks of the first, or of the second, changes.
LEMMA OldChanged ==
  ASSUME NEW e, NEW n, NEW c, NEW s, Apart2(e, n, c, s), NEW m, NEW w, NEW v, Two(m, e, n, w, c, s, v),
         NEW i \in 1 .. n, NEW k, NEW t, Changed(m, k, e + Off(i), t),
         NEW u, \A b \in 1 .. n : u[b] = IF b = i THEN t ELSE w[b]
  PROVE  Two(k, e, n, u, c, s, v)
<1>1. LiesAt(e, n) /\ LiesAt(c, s)
  BY DEF Apart2
<1>2. e \in Nat /\ i \in Nat \ {0} /\ \A x \in Int : InBlock(e + Off(i), x) => Inside(e, n, x)
  BY <1>1, BlocksLie
<1>3. ASSUME NEW d \in 1 .. n PROVE BlockIs(k, e + Off(d), u[d])
  <2>1. CASE d = i
    <3>1. BlockIs(k, e + Off(i), t) /\ u[d] = t
      BY <2>1 DEF Changed
    <3> QED
      BY <2>1, <3>1
  <2>2. CASE d # i
    <3>1. u[d] = w[d] /\ BlockIs(m, e + Off(d), w[d]) /\ d \in Nat \ {0}
      BY <2>2 DEF Two
    <3> DEFINE p == e + Off(d)
               t1 == w[d]
    <3>2. ASSUME NEW x \in Address, InBlock(p, x) PROVE k.slot[x] = m.slot[x]
      <4>1. x \in Int
        BY AddressType
      <4>2. ~ InBlock(e + Off(i), x)
        BY <1>2, <2>2, <3>1, <3>2, <4>1, BlocksApart
      <4> QED
        BY <4>2 DEF Changed
    <3>3. BlockIs(m, p, t1)
      BY <3>1
    <3> HIDE DEF p, t1
    <3>4. BlockIs(k, p, t1)
      BY <3>2, <3>3 DEF BlockIs
    <3> QED
      BY <3>1, <3>4 DEF p, t1
  <2> QED
    BY <2>1, <2>2
<1>4. ASSUME NEW d \in 1 .. s PROVE BlockIs(k, c + Off(d), v[d])
  <2>1. BlockIs(m, c + Off(d), v[d])
    BY DEF Two
  <2> DEFINE p == c + Off(d)
             t1 == v[d]
  <2>2. ASSUME NEW x \in Address, InBlock(p, x) PROVE k.slot[x] = m.slot[x]
    <3>1. x \in Int /\ Inside(c, s, x)
      BY <1>1, <2>2, AddressType, BlocksLie
    <3>2. ~ Inside(e, n, x)
      BY <3>1, NotInBoth
    <3>3. ~ InBlock(e + Off(i), x)
      BY <1>2, <3>1, <3>2
    <3> QED
      BY <3>3 DEF Changed
  <2>3. BlockIs(m, p, t1)
    BY <2>1
  <2> HIDE DEF p, t1
  <2>4. BlockIs(k, p, t1)
    BY <2>2, <2>3 DEF BlockIs
  <2> QED
    BY <2>4 DEF p, t1
<1>5. ASSUME NEW x \in Address, ~ Inside(e, n, x), ~ Inside(c, s, x) PROVE k.slot[x] = "free"
  <2>1. ~ InBlock(e + Off(i), x) /\ m.slot[x] = "free"
    BY <1>2, <1>5, AddressType DEF Two
  <2> QED
    BY <2>1 DEF Changed
<1>6. Clean(k)
  BY DEF Changed
<1> QED
  BY <1>3, <1>4, <1>5, <1>6 DEF Two

LEMMA Turned ==
  ASSUME NEW m, NEW e, NEW n, NEW w, NEW c, NEW s, NEW v
  PROVE  Two(m, e, n, w, c, s, v) <=> Two(m, c, s, v, e, n, w)
BY DEF Two

LEMMA NewChanged ==
  ASSUME NEW e, NEW n, NEW c, NEW s, Apart2(e, n, c, s), NEW m, NEW w, NEW v, Two(m, e, n, w, c, s, v),
         NEW i \in 1 .. s, NEW k, NEW t, Changed(m, k, c + Off(i), t),
         NEW u, \A b \in 1 .. s : u[b] = IF b = i THEN t ELSE v[b]
  PROVE  Two(k, e, n, w, c, s, u)
<1>1. Apart2(c, s, e, n) /\ Two(m, c, s, v, e, n, w)
  BY Turned DEF Apart2
<1>2. Two(k, c, s, u, e, n, w)
  BY <1>1, OldChanged
<1> QED
  BY <1>2, Turned

-----------------------------------------------------------------------------
(* Blocks: memory, whatever happens to it, and what is done again and again *)

\* Repeating G gives a sequence of results.
StepsIn(G, S, top) == \A s \in S, k \in 1 .. top : G[<<s, k>>] \in S

LEMMA Repetition ==
  ASSUME NEW S, NEW a \in S, NEW top \in Nat, NEW G, StepsIn(G, S, top)
  PROVE  \E f \in [0 .. top -> S] : f[0] = a /\ \A k \in 1 .. top : f[k] = G[<<f[k - 1], k>>]
<1> DEFINE P == {n \in 0 .. top : \E f \in [0 .. n -> S] : f[0] = a /\ \A k \in 1 .. n : f[k] = G[<<f[k - 1], k>>]}
<1>1. 0 \in P
  <2> DEFINE f == [n \in 0 .. 0 |-> a]
  <2>1. f \in [0 .. 0 -> S] /\ f[0] = a /\ \A k \in 1 .. 0 : f[k] = G[<<f[k - 1], k>>]
    OBVIOUS
  <2> HIDE DEF f
  <2> QED
    BY <2>1
<1>2. ASSUME NEW n \in 0 .. top - 1, n \in P PROVE n + 1 \in P
  <2>1. PICK g \in [0 .. n -> S] : g[0] = a /\ \A k \in 1 .. n : g[k] = G[<<g[k - 1], k>>]
    BY <1>2
  <2> DEFINE z == G[<<g[n], n + 1>>]
             f == [k \in 0 .. n + 1 |-> IF k = n + 1 THEN z ELSE g[k]]
  <2>2. n + 1 \in 1 .. top /\ n + 1 \in 0 .. top /\ g[n] \in S /\ n + 1 # 0
    BY <2>1
  <2>3. z \in S
    BY <2>2 DEF StepsIn
  <2>4. f \in [0 .. n + 1 -> S] /\ f[0] = a
    <3> HIDE DEF z
    <3> QED
      BY <2>1, <2>2, <2>3
  <2>5. ASSUME NEW k \in 1 .. n + 1 PROVE f[k] = G[<<f[k - 1], k>>]
    <3>1. CASE k = n + 1
      <4>1. k - 1 = n /\ f[n] = g[n] /\ f[k] = z
        BY <3>1
      <4> HIDE DEF f
      <4> QED
        BY <3>1, <4>1
    <3>2. CASE k # n + 1
      <4>1. k \in 1 .. n /\ f[k] = g[k] /\ f[k - 1] = g[k - 1]
        BY <3>2
      <4> HIDE DEF f
      <4> QED
        BY <2>1, <4>1
    <3> QED
      BY <3>1, <3>2
  <2> HIDE DEF f
  <2> QED
    BY <2>2, <2>4, <2>5
<1> HIDE DEF P
<1>3. top \in P
  BY <1>1, <1>2, CountUp
<1> QED
  BY <1>3 DEF P

MemoryType == [slot : [Address -> Slots], faults : SUBSET Faults]
IsMemory(m) == m.slot \in [Address -> Slots] /\ m.faults \in SUBSET Faults

LEMMA WriteType ==
  ASSUME NEW m, IsMemory(m), NEW f, \A x \in DOMAIN f : f[x] \in Slots, NEW before, NEW fault \in Faults
  PROVE  Write(m, f, before, fault) \in MemoryType
<1>1. [x \in Address |-> IF x \in DOMAIN f THEN f[x] ELSE m.slot[x]] \in [Address -> Slots]
  BY DEF IsMemory
<1>2. (IF \A x \in DOMAIN f : x \in Address /\ m.slot[x] \in before THEN m.faults ELSE m.faults \cup {fault}) \in SUBSET Faults
  BY DEF IsMemory
<1> QED
  BY <1>1, <1>2 DEF Write, MemoryType

LEMMA AlwaysMemory == \A m \in MemoryType : IsMemory(m)
BY DEF MemoryType, IsMemory

LEMMA CleanMemory == ASSUME NEW m, Clean(m) PROVE IsMemory(m)
BY DEF Clean, IsMemory

LEMMA ConstructType ==
  ASSUME NEW m, IsMemory(m), NEW at \in Int, NEW vs \in Seq(Slots)
  PROVE  Construct(m, at, vs) \in MemoryType
<1> DEFINE f == [x \in Span(at, at + Len(vs)) |-> vs[x - at + 1]]
<1>1. \A x \in Span(at, at + Len(vs)) : x - at + 1 \in 1 .. Len(vs)
  BY DEF Span
<1>2. \A x \in DOMAIN f : f[x] \in Slots
  BY <1>1
<1>3. Construct(m, at, vs) = Write(m, f, {"raw"}, "constructed over an object")
  BY DEF Construct
<1> HIDE DEF f
<1> QED
  BY <1>2, <1>3, WriteType DEF Faults

LEMMA TakenType ==
  ASSUME NEW m, IsMemory(m), NEW lo, NEW hi
  PROVE  Taken(m, lo, hi) \in MemoryType
<1> DEFINE f == [x \in Span(lo, hi) |-> "moved"]
<1>1. \A x \in DOMAIN f : f[x] \in Slots
  BY SlotsDiffer
<1>2. Taken(m, lo, hi) = Write(m, f, Alive, "used without an object")
  BY DEF Taken
<1> HIDE DEF f
<1> QED
  BY <1>1, <1>2, WriteType DEF Faults

LEMMA DestroyType ==
  ASSUME NEW m, IsMemory(m), NEW lo, NEW hi
  PROVE  Destroy(m, lo, hi) \in MemoryType
<1> DEFINE f == [x \in Span(lo, hi) |-> "raw"]
<1>1. \A x \in DOMAIN f : f[x] \in Slots
  BY SlotsDiffer
<1>2. Destroy(m, lo, hi) = Write(m, f, Alive, "used without an object")
  BY DEF Destroy
<1> HIDE DEF f
<1> QED
  BY <1>1, <1>2, WriteType DEF Faults

LEMMA HeldType ==
  ASSUME NEW m, IsMemory(m), NEW lo \in Int, NEW hi \in Int
  PROVE  Held(m, lo, hi) \in Seq(Slots)
<1> DEFINE n == hi - lo
<1>1. n \in Int
  OBVIOUS
<1>2. Held(m, lo, hi) = [i \in 1 .. n |-> IF lo + i - 1 \in Address THEN m.slot[lo + i - 1] ELSE "free"]
  BY DEF Held
<1>3. \A x : (IF x \in Address THEN m.slot[x] ELSE "free") \in Slots
  BY SlotsDiffer DEF IsMemory
<1> DEFINE h == [i \in 1 .. n |-> IF lo + i - 1 \in Address THEN m.slot[lo + i - 1] ELSE "free"]
<1>4. h \in [1 .. n -> Slots]
  BY <1>3
<1> HIDE DEF n, h
<1>5. h \in Seq(Slots)
  <2>1. CASE n \in Nat
    BY <1>4, <2>1
  <2>2. CASE n \notin Nat
    <3>1. 1 .. n = 1 .. 0
      BY <1>1, <2>2
    <3>2. h \in [1 .. 0 -> Slots]
      BY <1>4, <3>1, Zenon
    <3> QED
      BY <3>2
  <2> QED
    BY <2>1, <2>2
<1> QED
  BY <1>2, <1>5 DEF h

LEMMA UninitializedMoveType ==
  ASSUME NEW m, IsMemory(m), NEW lo \in Int, NEW hi \in Int, NEW to \in Int
  PROVE  UninitializedMove(m, lo, hi, to) \in MemoryType
<1>1. IsMemory(Taken(m, lo, hi)) /\ Held(m, lo, hi) \in Seq(Slots)
  BY TakenType, AlwaysMemory, HeldType
<1> QED
  BY <1>1, ConstructType DEF UninitializedMove

\* A list of moves, and moving and destroying what it says.
MovesOf(moves, n) ==
  n \in Nat /\ Len(moves) = n /\ \A k \in 1 .. n : moves[k].lo \in Int /\ moves[k].hi \in Int /\ moves[k].to \in Int

MoveSteps(f, m, begin, moves, n) ==
  /\ f[0] = m /\ MoveAll(m, begin, moves) = f[n]
  /\ \A k \in 1 .. n : f[k] = UninitializedMove(f[k - 1], moves[k].lo, moves[k].hi, begin + moves[k].to)

LEMMA MoveAllIs ==
  ASSUME NEW m, IsMemory(m), NEW begin \in Int, NEW moves, NEW n, MovesOf(moves, n)
  PROVE  \E f : MoveSteps(f, m, begin, moves, n)
<1> DEFINE Step(r, k) == UninitializedMove(r, moves[k].lo, moves[k].hi, begin + moves[k].to)
           S == MemoryType \cup {m}
           G == [p \in S \X (1 .. n) |-> Step(p[1], p[2])]
           Is(f) == f = [k \in 0 .. Len(moves) |-> IF k = 0 THEN m ELSE Step(f[k - 1], k)]
           after == CHOOSE f : Is(f)
<1>1. n \in Nat /\ Len(moves) = n
  BY DEF MovesOf
<1>2. ASSUME NEW s \in S, NEW k \in 1 .. n PROVE Step(s, k) \in S
  <2>1. moves[k].lo \in Int /\ moves[k].hi \in Int /\ begin + moves[k].to \in Int /\ IsMemory(s)
    BY AlwaysMemory DEF MovesOf
  <2> QED
    BY <2>1, UninitializedMoveType
<1>3. MoveAll(m, begin, moves) = after[Len(moves)]
  BY DEF MoveAll
<1>4. \A r, k : Step(r, k) = UninitializedMove(r, moves[k].lo, moves[k].hi, begin + moves[k].to)
  OBVIOUS
<1>13. m \in S
  OBVIOUS
<1> HIDE DEF Step, S
<1>5. \A s \in S, k \in 1 .. n : G[<<s, k>>] \in S /\ G[<<s, k>>] = Step(s, k)
  BY <1>2
<1> HIDE DEF G
<1>6. PICK f \in [0 .. n -> S] : f[0] = m /\ \A k \in 1 .. n : f[k] = G[<<f[k - 1], k>>]
  <2>1. StepsIn(G, S, n)
    BY <1>5 DEF StepsIn
  <2> QED
    BY <1>1, <1>13, <2>1, Repetition
<1>7. ASSUME NEW k \in 0 .. n PROVE f[k] = IF k = 0 THEN m ELSE Step(f[k - 1], k)
  <2>1. CASE k = 0
    BY <1>6, <2>1
  <2>2. CASE k # 0
    <3>1. k \in 1 .. n /\ k - 1 \in 0 .. n
      BY <1>1, <2>2
    <3>2. f[k - 1] \in S /\ f[k] = G[<<f[k - 1], k>>]
      BY <1>6, <3>1
    <3>3. G[<<f[k - 1], k>>] = Step(f[k - 1], k)
      BY <1>5, <3>1, <3>2
    <3> QED
      BY <2>2, <3>2, <3>3
  <2> QED
    BY <2>1, <2>2
<1>8. f = [k \in 0 .. n |-> f[k]]
  BY <1>6
<1>9. Is(f)
  BY <1>1, <1>7, <1>8
<1> HIDE DEF Is
<1>10. Is(after)
  BY <1>9
<1> HIDE DEF after
<1>12. after = [k \in 0 .. n |-> IF k = 0 THEN m ELSE Step(after[k - 1], k)]
  BY <1>1, <1>10 DEF Is
<1>11. after[0] = m /\ \A k \in 1 .. n : after[k] = Step(after[k - 1], k)
  <2>1. 0 \in 0 .. n
    BY <1>1
  <2>2. \A k \in 1 .. n : k \in 0 .. n /\ k # 0
    BY <1>1
  <2> QED
    BY <1>12, <2>1, <2>2
<1> QED
  BY <1>1, <1>3, <1>4, <1>11 DEF MoveSteps

LEMMA DestroyAllIs ==
  ASSUME NEW m, IsMemory(m), NEW moves, NEW n, MovesOf(moves, n)
  PROVE  \E f : /\ f[0] = m /\ DestroyAll(m, moves) = f[n]
                /\ \A k \in 1 .. n : f[k] = Destroy(f[k - 1], moves[k].lo, moves[k].hi)
<1> DEFINE Step(r, k) == Destroy(r, moves[k].lo, moves[k].hi)
           S == MemoryType \cup {m}
           G == [p \in S \X (1 .. n) |-> Step(p[1], p[2])]
           Is(f) == f = [k \in 0 .. Len(moves) |-> IF k = 0 THEN m ELSE Step(f[k - 1], k)]
           after == CHOOSE f : Is(f)
<1>1. n \in Nat /\ Len(moves) = n
  BY DEF MovesOf
<1>2. ASSUME NEW s \in S, NEW k \in 1 .. n PROVE Step(s, k) \in S
  <2>1. IsMemory(s)
    BY AlwaysMemory
  <2> QED
    BY <2>1, DestroyType
<1>3. DestroyAll(m, moves) = after[Len(moves)]
  BY DEF DestroyAll
<1>4. \A r, k : Step(r, k) = Destroy(r, moves[k].lo, moves[k].hi)
  OBVIOUS
<1>13. m \in S
  OBVIOUS
<1> HIDE DEF Step, S
<1>5. \A s \in S, k \in 1 .. n : G[<<s, k>>] \in S /\ G[<<s, k>>] = Step(s, k)
  BY <1>2
<1> HIDE DEF G
<1>6. PICK f \in [0 .. n -> S] : f[0] = m /\ \A k \in 1 .. n : f[k] = G[<<f[k - 1], k>>]
  <2>1. StepsIn(G, S, n)
    BY <1>5 DEF StepsIn
  <2> QED
    BY <1>1, <1>13, <2>1, Repetition
<1>7. ASSUME NEW k \in 0 .. n PROVE f[k] = IF k = 0 THEN m ELSE Step(f[k - 1], k)
  <2>1. CASE k = 0
    BY <1>6, <2>1
  <2>2. CASE k # 0
    <3>1. k \in 1 .. n /\ k - 1 \in 0 .. n
      BY <1>1, <2>2
    <3>2. f[k - 1] \in S /\ f[k] = G[<<f[k - 1], k>>]
      BY <1>6, <3>1
    <3>3. G[<<f[k - 1], k>>] = Step(f[k - 1], k)
      BY <1>5, <3>1, <3>2
    <3> QED
      BY <2>2, <3>2, <3>3
  <2> QED
    BY <2>1, <2>2
<1>8. f = [k \in 0 .. n |-> f[k]]
  BY <1>6
<1>9. Is(f)
  BY <1>1, <1>7, <1>8
<1> HIDE DEF Is
<1>10. Is(after)
  BY <1>9
<1> HIDE DEF after
<1>12. after = [k \in 0 .. n |-> IF k = 0 THEN m ELSE Step(after[k - 1], k)]
  BY <1>1, <1>10 DEF Is
<1>11. after[0] = m /\ \A k \in 1 .. n : after[k] = Step(after[k - 1], k)
  <2>1. 0 \in 0 .. n
    BY <1>1
  <2>2. \A k \in 1 .. n : k \in 0 .. n /\ k # 0
    BY <1>1
  <2> QED
    BY <1>12, <2>1, <2>2
<1> QED
  BY <1>1, <1>3, <1>4, <1>11

-----------------------------------------------------------------------------
(* Blocks: growth *)

\* What the old and the new allocation hold when i blocks have moved.
OldAfter(bs, n, i) == [b \in 1 .. n |-> IF b <= i THEN MovedText(BlockOf(bs, b)) ELSE BlockOf(bs, b)]
NewAfter(bs, s, i) == [b \in 1 .. s |-> IF b <= i THEN BlockOf(bs, b) ELSE <<>>]

LEMMA EmptyText == <<>> \in Seq(Alive) /\ Len(<<>>) = 0 /\ \A t \in Seq(Alive) : <<>> \o t = t
OBVIOUS

LEMMA OneMoved ==
  ASSUME NEW e, NEW n, NEW c, NEW s, Apart2(e, n, c, s), NEW bs, IsBlocks(bs), Len(bs) <= n, Len(bs) <= s,
         NEW i \in 1 .. Len(bs), NEW m, Two(m, e, n, OldAfter(bs, n, i - 1), c, s, NewAfter(bs, s, i - 1))
  PROVE  Two(UninitializedMove(m, e + Off(i), e + Off(i) + Len(bs[i]), c + Off(i)),
             e, n, OldAfter(bs, n, i), c, s, NewAfter(bs, s, i))
<1> DEFINE p == e + Off(i)
           q == c + Off(i)
           t == bs[i]
           w == OldAfter(bs, n, i - 1)
           v == NewAfter(bs, s, i - 1)
           k == Taken(m, p, p + Len(t))
           r == Construct(k, q, t)
<1>1. LiesAt(e, n) /\ LiesAt(c, s)
  BY DEF Apart2
<1>2. Len(bs) \in Nat /\ n \in Nat /\ s \in Nat
  BY <1>1, BlocksLie DEF IsBlocks
<1>3. i \in 1 .. n /\ i \in 1 .. s /\ i \in Nat \ {0} /\ i \in Int
  BY <1>2
<1>4. BlockFits(p) /\ BlockFits(q)
  BY <1>1, <1>3, BlocksLie
<1>5. t = BlockOf(bs, i)
  BY DEF BlockOf
<1>6. t \in Seq(Alive) /\ Len(t) \in 0 .. BlockSize
  BY <1>3, <1>5, BlocksAre
<1>7. w[i] = t /\ v[i] = <<>>
  BY <1>3, <1>5 DEF OldAfter, NewAfter
<1>8. \A b \in 1 .. n : OldAfter(bs, n, i)[b] = IF b = i THEN MovedText(t) ELSE w[b]
  <2> TAKE b \in 1 .. n
  <2>1. OldAfter(bs, n, i)[b] = IF b <= i THEN MovedText(BlockOf(bs, b)) ELSE BlockOf(bs, b)
    BY DEF OldAfter
  <2>2. w[b] = IF b <= i - 1 THEN MovedText(BlockOf(bs, b)) ELSE BlockOf(bs, b)
    BY DEF OldAfter
  <2>3. b = i \/ (b # i /\ (b <= i <=> b <= i - 1))
    BY <1>3
  <2> QED
    BY <1>3, <1>5, <2>1, <2>2, <2>3
<1>9. \A b \in 1 .. s : NewAfter(bs, s, i)[b] = IF b = i THEN t ELSE v[b]
  <2> TAKE b \in 1 .. s
  <2>1. NewAfter(bs, s, i)[b] = IF b <= i THEN BlockOf(bs, b) ELSE <<>>
    BY DEF NewAfter
  <2>2. v[b] = IF b <= i - 1 THEN BlockOf(bs, b) ELSE <<>>
    BY DEF NewAfter
  <2>3. b = i \/ (b # i /\ (b <= i <=> b <= i - 1))
    BY <1>3
  <2> QED
    BY <1>3, <1>5, <2>1, <2>2, <2>3
<1>10. UninitializedMove(m, p, p + Len(t), q) = Construct(k, q, Held(m, p, p + Len(t)))
  BY DEF UninitializedMove
<1>11. Two(m, e, n, w, c, s, v)
  OBVIOUS
<1> DEFINE u == OldAfter(bs, n, i)
           y == NewAfter(bs, s, i)
<1>12. SUFFICES Two(UninitializedMove(m, p, p + Len(t), q), e, n, u, c, s, y)
  OBVIOUS
<1> HIDE DEF t, w, v, u, y
<1>13. BlockIs(m, p, t) /\ Clean(m)
  <2>1. BlockIs(m, e + Off(i), w[i]) /\ Clean(m)
    BY <1>3, <1>11 DEF Two
  <2> QED
    BY <1>7, <2>1
<1> HIDE DEF p, q
<1>14. Held(m, p, p + Len(t)) = t
  BY <1>4, <1>6, <1>13, HeldIn
<1>15. Changed(m, k, p, MovedText(t))
  BY <1>4, <1>6, <1>13, TakenIn
<1> HIDE DEF k
<1>16. Two(k, e, n, u, c, s, v)
  <2>1. Changed(m, k, e + Off(i), MovedText(t))
    BY <1>15 DEF p
  <2>2. \A b \in 1 .. n : u[b] = IF b = i THEN MovedText(t) ELSE w[b]
    BY <1>8 DEF u
  <2> QED
    BY <1>3, <1>11, <2>1, <2>2, OldChanged
<1>17. BlockIs(k, q, <<>>) /\ Clean(k)
  <2>1. BlockIs(k, c + Off(i), v[i]) /\ Clean(k)
    BY <1>3, <1>16 DEF Two
  <2> QED
    BY <1>7, <2>1 DEF q
<1>18. Changed(k, r, q, t)
  <2>1. q + Len(<<>>) = q /\ <<>> \in Seq(Alive) /\ Len(<<>>) + Len(t) <= BlockSize /\ <<>> \o t = t
    BY <1>4, <1>6, EmptyText DEF BlockFits
  <2> HIDE DEF r
  <2>2. Changed(k, Construct(k, q + Len(<<>>), t), q, <<>> \o t)
    BY <1>4, <1>6, <1>17, <2>1, ConstructedIn
  <2> QED
    BY <2>1, <2>2 DEF r
<1> HIDE DEF r
<1>19. Two(r, e, n, u, c, s, y)
  <2>1. Changed(k, r, c + Off(i), t)
    BY <1>18 DEF q
  <2>2. \A b \in 1 .. s : y[b] = IF b = i THEN t ELSE v[b]
    BY <1>9 DEF y
  <2> QED
    BY <1>3, <1>16, <2>1, <2>2, NewChanged
<1> QED
  BY <1>10, <1>14, <1>19 DEF r

MovesFor(moves, e, bs) ==
  /\ Len(moves) = Len(bs)
  /\ \A b \in 1 .. Len(bs) : moves[b].lo = e + Off(b) /\ moves[b].hi = e + Off(b) + Len(bs[b]) /\ moves[b].to = Off(b)

LEMMA MovesForAre ==
  ASSUME NEW e \in Nat, NEW bs, IsBlocks(bs), NEW moves, MovesFor(moves, e, bs)
  PROVE  MovesOf(moves, Len(bs))
<1>1. Len(bs) \in Nat
  BY DEF IsBlocks
<1>2. ASSUME NEW b \in 1 .. Len(bs) PROVE moves[b].lo \in Int /\ moves[b].hi \in Int /\ moves[b].to \in Int
  <2>1. b \in Nat \ {0} /\ BlockOf(bs, b) = bs[b]
    BY <1>1 DEF BlockOf
  <2>2. Off(b) \in Nat
    BY <2>1, OffIs
  <2>3. Len(BlockOf(bs, b)) \in Int
    BY <2>1, BlocksAre
  <2>4. Len(bs[b]) \in Int
    BY <2>1, <2>3
  <2> QED
    BY <2>2, <2>4 DEF MovesFor
<1> QED
  BY <1>1, <1>2 DEF MovesOf, MovesFor

LEMMA AllMoved ==
  ASSUME NEW e, NEW n, NEW c, NEW s, Apart2(e, n, c, s), NEW bs, IsBlocks(bs), Len(bs) <= n, Len(bs) <= s,
         NEW m, Two(m, e, n, OldAfter(bs, n, 0), c, s, NewAfter(bs, s, 0)),
         NEW moves, MovesFor(moves, e, bs)
  PROVE  Two(MoveAll(m, c, moves), e, n, OldAfter(bs, n, Len(bs)), c, s, NewAfter(bs, s, Len(bs)))
<1>1. e \in Nat /\ c \in Nat /\ Len(bs) \in Nat /\ c \in Int
  BY BlocksLie DEF Apart2, IsBlocks
<1>2. PICK f : MoveSteps(f, m, c, moves, Len(bs))
  <2>1. MovesOf(moves, Len(bs))
    BY <1>1, MovesForAre
  <2>2. IsMemory(m)
    BY CleanMemory DEF Two
  <2> QED
    BY <1>1, <2>1, <2>2, MoveAllIs
<1> DEFINE Is(k) == Two(f[k], e, n, OldAfter(bs, n, k), c, s, NewAfter(bs, s, k))
           P == {k \in 0 .. Len(bs) : Is(k)}
<1>3. 0 \in P
  BY <1>1, <1>2 DEF MoveSteps
<1>4. \A k \in 0 .. Len(bs) - 1 : k \in P => k + 1 \in P
  <2> SUFFICES ASSUME NEW k \in 0 .. Len(bs) - 1, k \in P PROVE k + 1 \in P
    OBVIOUS
  <2> DEFINE i == k + 1
  <2>1. i \in 1 .. Len(bs) /\ i - 1 = k /\ i \in 0 .. Len(bs)
    BY <1>1
  <2>2. Is(k)
    OBVIOUS
  <2> HIDE DEF i
  <2>3. f[i] = UninitializedMove(f[k], e + Off(i), e + Off(i) + Len(bs[i]), c + Off(i))
    BY <1>2, <2>1 DEF MovesFor, MoveSteps
  <2>4. Two(f[k], e, n, OldAfter(bs, n, i - 1), c, s, NewAfter(bs, s, i - 1))
    BY <2>1, <2>2
  <2>5. Is(i)
    BY <2>1, <2>3, <2>4, OneMoved
  <2> HIDE DEF Is
  <2> QED
    BY <2>1, <2>5 DEF i
<1> HIDE DEF P
<1>5. Len(bs) \in P
  <2>1. Len(bs) \in 0 .. Len(bs)
    BY <1>1
  <2> QED
    BY <1>1, <1>3, <1>4, <2>1, CountUp
<1> QED
  BY <1>2, <1>5 DEF P, MoveSteps

\* What is left of the old blocks when i of them have been destroyed.
LeftAfter(w, n, i) == [b \in 1 .. n |-> IF b <= i THEN <<>> ELSE w[b]]

LEMMA OneDestroyed ==
  ASSUME NEW e, NEW n, NEW c, NEW s, Apart2(e, n, c, s), NEW w, NEW v, NEW i \in 1 .. n,
         w[i] \in Seq(Alive), Len(w[i]) <= BlockSize,
         NEW m, Two(m, e, n, LeftAfter(w, n, i - 1), c, s, v)
  PROVE  Two(Destroy(m, e + Off(i), e + Off(i) + Len(w[i])), e, n, LeftAfter(w, n, i), c, s, v)
<1> DEFINE p == e + Off(i)
           t == w[i]
           x == LeftAfter(w, n, i - 1)
           u == LeftAfter(w, n, i)
           k == Destroy(m, p, p + Len(t))
<1>1. LiesAt(e, n)
  BY DEF Apart2
<1>2. n \in Nat /\ i \in Nat \ {0} /\ BlockFits(p) /\ p + 0 = p /\ 0 \in 0 .. Len(t)
  BY <1>1, BlocksLie DEF BlockFits
<1>3. x[i] = t /\ \A b \in 1 .. n : u[b] = IF b = i THEN <<>> ELSE x[b]
  BY <1>2 DEF LeftAfter
<1>4. Two(m, e, n, x, c, s, v)
  OBVIOUS
<1>5. SUFFICES Two(k, e, n, u, c, s, v)
  OBVIOUS
<1>6. t \in Seq(Alive) /\ Len(t) <= BlockSize
  OBVIOUS
<1> HIDE DEF t, x, u
<1>7. BlockIs(m, p, t) /\ Clean(m)
  <2>1. BlockIs(m, e + Off(i), x[i]) /\ Clean(m)
    BY <1>4 DEF Two
  <2> QED
    BY <1>3, <2>1
<1> HIDE DEF p
<1>8. Changed(m, Destroy(m, p + 0, p + Len(t)), p, SubSeq(t, 1, 0))
  BY <1>2, <1>6, <1>7, DestroyedIn
<1>9. SubSeq(t, 1, 0) = <<>>
  BY <1>6
<1>10. Changed(m, k, p, <<>>)
  BY <1>2, <1>8, <1>9
<1> HIDE DEF k
<1>11. Changed(m, k, e + Off(i), <<>>)
  BY <1>10 DEF p
<1> QED
  BY <1>3, <1>4, <1>11, OldChanged

LEMMA AllDestroyed ==
  ASSUME NEW e, NEW n, NEW c, NEW s, Apart2(e, n, c, s), NEW bs, IsBlocks(bs), Len(bs) <= n,
         NEW w, \A b \in 1 .. Len(bs) : w[b] \in Seq(Alive) /\ Len(w[b]) = Len(bs[b]),
         NEW v, NEW m, Two(m, e, n, LeftAfter(w, n, 0), c, s, v),
         NEW moves, MovesFor(moves, e, bs)
  PROVE  Two(DestroyAll(m, moves), e, n, LeftAfter(w, n, Len(bs)), c, s, v)
<1>1. e \in Nat /\ Len(bs) \in Nat /\ n \in Nat
  BY BlocksLie DEF Apart2, IsBlocks
<1>2. PICK f : /\ f[0] = m /\ DestroyAll(m, moves) = f[Len(bs)]
               /\ \A k \in 1 .. Len(bs) : f[k] = Destroy(f[k - 1], moves[k].lo, moves[k].hi)
  <2>1. MovesOf(moves, Len(bs))
    BY <1>1, MovesForAre
  <2>2. IsMemory(m)
    BY CleanMemory DEF Two
  <2> QED
    BY <1>1, <2>1, <2>2, DestroyAllIs
<1> DEFINE Is(k) == Two(f[k], e, n, LeftAfter(w, n, k), c, s, v)
           P == {k \in 0 .. Len(bs) : Is(k)}
<1>3. 0 \in P
  BY <1>1, <1>2
<1>4. \A k \in 0 .. Len(bs) - 1 : k \in P => k + 1 \in P
  <2> SUFFICES ASSUME NEW k \in 0 .. Len(bs) - 1, k \in P PROVE k + 1 \in P
    OBVIOUS
  <2> DEFINE i == k + 1
  <2>1. i \in 1 .. Len(bs) /\ i - 1 = k /\ i \in 0 .. Len(bs) /\ i \in 1 .. n
    BY <1>1
  <2>2. Is(k)
    OBVIOUS
  <2> HIDE DEF i
  <2>3. f[i] = Destroy(f[k], e + Off(i), e + Off(i) + Len(w[i]))
    BY <1>2, <2>1 DEF MovesFor
  <2>4. Two(f[k], e, n, LeftAfter(w, n, i - 1), c, s, v)
    BY <2>1, <2>2
  <2>5. w[i] \in Seq(Alive) /\ Len(w[i]) <= BlockSize
    <3>1. bs[i] = BlockOf(bs, i) /\ i \in Nat \ {0}
      BY <1>1, <2>1 DEF BlockOf
    <3>2. Len(bs[i]) <= BlockSize
      BY <3>1, BlocksAre
    <3> QED
      BY <2>1, <3>2
  <2>6. Is(i)
    BY <2>1, <2>3, <2>4, <2>5, OneDestroyed
  <2> HIDE DEF Is
  <2> QED
    BY <2>1, <2>6 DEF i
<1> HIDE DEF P
<1>5. Len(bs) \in P
  <2>1. Len(bs) \in 0 .. Len(bs)
    BY <1>1
  <2> QED
    BY <1>1, <1>3, <1>4, <2>1, CountUp
<1> QED
  BY <1>2, <1>5 DEF P

LEMMA AnotherPlace ==
  ASSUME NEW m, NEW e, NEW n, LiesAt(e, n), NEW bs, Laid(m, e, n, bs)
  PROVE  /\ FreePlace(m) \in 1 .. Places
         /\ \A x \in Span(FreePlace(m) * Stride, FreePlace(m) * Stride + MaxCap) : m.slot[x] = "free"
<1>1. e \in Nat /\ MaxCap \in Nat \ {0} /\ Stride \in Nat \ {0} /\ Places \in Nat /\ 2 <= Places
  BY BlocksLie, MemoryAssumption, ChunkedAssumption DEF Stride
<1>2. PICK p \in 1 .. Places : p * Stride # e
  <2>1. 1 \in 1 .. Places /\ 2 \in 1 .. Places /\ 1 * Stride # 2 * Stride
    BY <1>1
  <2> QED
    BY <2>1
<1> DEFINE b == p * Stride
<1>3. Base(b) /\ b # e
  BY <1>2 DEF Base
<1>4. \A x \in Span(b, b + MaxCap) : m.slot[x] = "free"
  <2> HIDE DEF b
  <2>1. b \in Nat /\ \A x \in Int : b <= x /\ x <= b + MaxCap => x \in Address
    BY <1>3, BaseIs
  <2> SUFFICES ASSUME NEW x \in Span(b, b + MaxCap) PROVE m.slot[x] = "free"
    OBVIOUS
  <2>2. x \in Int /\ b <= x /\ x < b + MaxCap /\ x \in Address
    BY <1>1, <2>1 DEF Span
  <2>3. ~ Inside(e, n, x)
    <3> SUFFICES ASSUME Inside(e, n, x) PROVE FALSE
      OBVIOUS
    <3>1. Base(e) /\ x < e + MaxCap /\ e <= x
      BY <2>2, BlocksLie DEF Inside
    <3>2. b + MaxCap < e \/ e + MaxCap < b
      BY <1>3, <3>1, BasesApart
    <3> QED
      BY <1>1, <2>1, <2>2, <3>1, <3>2
  <2> QED
    BY <2>2, <2>3 DEF Laid
<1> QED
  BY <1>4, FirstFreePlace

LEMMA AllocatedApart ==
  ASSUME NEW m, Clean(m), NEW e, NEW n, LiesAt(e, n), NEW bs, IsBlocks(bs), Laid(m, e, n, bs),
         NEW s \in Nat \ {0}, Off(s + 1) <= MaxCap, NEW extent, extent = Off(s + 1), NEW c, c = Placed(m, extent).begin
  PROVE  /\ Apart2(e, n, c, s) /\ Base(c) /\ Placed(m, extent).end = c + extent
         /\ Two(AllocateMemory(m, extent), e, n, OldAfter(bs, n, 0), c, s, NewAfter(bs, s, 0))
<1> DEFINE k == AllocateMemory(m, extent)
<1>1. extent \in 0 .. MaxCap /\ s + 1 \in Nat \ {0} /\ MaxCap \in Nat \ {0} /\ BlockSize \in Nat
  BY OffIs, MemoryAssumption, ChunkedAssumption
<1>2. /\ Base(c) /\ Placed(m, extent).end = c + extent
      /\ \A x \in Span(c, c + MaxCap) : m.slot[x] = "free"
      /\ Clean(k) /\ \A x \in Address : k.slot[x] = IF x \in Span(c, c + extent) THEN "raw" ELSE m.slot[x]
  <2>1. /\ FreePlace(m) \in 1 .. Places
        /\ \A x \in Span(FreePlace(m) * Stride, FreePlace(m) * Stride + MaxCap) : m.slot[x] = "free"
    BY AnotherPlace
  <2>2. /\ Base(Placed(m, extent).begin) /\ Placed(m, extent).end = Placed(m, extent).begin + extent
        /\ \A x \in Span(Placed(m, extent).begin, Placed(m, extent).begin + MaxCap) : m.slot[x] = "free"
        /\ Clean(AllocateMemory(m, extent))
        /\ \A x \in Address : AllocateMemory(m, extent).slot[x] =
             IF x \in Span(Placed(m, extent).begin, Placed(m, extent).end) THEN "raw" ELSE m.slot[x]
    BY <1>1, <2>1, AllocatedThere
  <2> QED
    BY <2>2
<1> HIDE DEF k
<1>3. c \in Nat \ {0} /\ LiesAt(c, s)
  BY <1>2, BaseIs DEF LiesAt
<1>4. c # e
  <2> SUFFICES ASSUME c = e PROVE FALSE
    OBVIOUS
  <2>1. n # 0 /\ n \in Nat /\ Base(e)
    BY <1>3 DEF LiesAt, Null
  <2>2. 1 \in 1 .. n /\ Off(1) = 0 /\ e + 0 = e /\ e \in Address
    <3>1. e \in Nat /\ MaxCap \in Nat /\ e <= e /\ e <= e + MaxCap
      BY <1>1, <1>3
    <3>2. e \in Address
      BY <2>1, <3>1, BaseIs
    <3> QED
      BY <2>1, <3>1, <3>2, OffIs
  <2> DEFINE t == BlockOf(bs, 1)
  <2>3. t \in Seq(Alive) /\ Len(t) \in Nat
    BY BlocksAre, <1>1
  <2>4. BlockIs(m, e, t)
    <3>1. BlockIs(m, e + Off(1), t)
      BY <2>2 DEF Laid
    <3> QED
      BY <2>2, <3>1
  <2> HIDE DEF t
  <2>5. InBlock(e, e)
    BY <1>3, ChunkedAssumption DEF InBlock
  <2>6. m.slot[e] = IF e < e + Len(t) THEN t[e - e + 1] ELSE "raw"
    BY <2>2, <2>4, <2>5 DEF BlockIs
  <2>7. e < e + Len(t) => t[e - e + 1] \in Alive
    BY <1>3, <2>3
  <2>8. m.slot[e] = "free"
    BY <1>1, <1>2, <1>3 DEF Span
  <2> QED
    BY <2>6, <2>7, <2>8, SlotsDiffer
<1>5. Apart2(e, n, c, s)
  BY <1>3, <1>4 DEF Apart2
<1>6. \A x : x \in Span(c, c + extent) <=> x \in Int /\ Inside(c, s, x)
  BY <1>1, <1>3 DEF Span, Inside
<1>7. ASSUME NEW b \in 1 .. n PROVE BlockIs(k, e + Off(b), OldAfter(bs, n, 0)[b])
  <2> DEFINE p == e + Off(b)
             t == BlockOf(bs, b)
  <2>1. n \in Nat /\ \A x \in Int : InBlock(p, x) => Inside(e, n, x)
    BY BlocksLie
  <2>2. OldAfter(bs, n, 0)[b] = t
    BY <2>1 DEF OldAfter
  <2>3. BlockIs(m, p, t)
    BY DEF Laid
  <2> HIDE DEF p, t
  <2>4. ASSUME NEW x \in Address, InBlock(p, x) PROVE k.slot[x] = m.slot[x]
    <3>1. x \in Int /\ Inside(e, n, x)
      BY <2>1, <2>4, AddressType
    <3>2. x \notin Span(c, c + extent)
      BY <1>5, <1>6, <3>1, NotInBoth
    <3> QED
      BY <1>2, <3>2
  <2>5. BlockIs(k, p, t)
    BY <2>3, <2>4 DEF BlockIs
  <2> QED
    BY <2>2, <2>5 DEF p
<1>8. ASSUME NEW b \in 1 .. s PROVE BlockIs(k, c + Off(b), NewAfter(bs, s, 0)[b])
  <2> DEFINE p == c + Off(b)
  <2>1. BlockFits(p) /\ \A x \in Int : InBlock(p, x) => Inside(c, s, x)
    BY <1>3, BlocksLie
  <2>2. NewAfter(bs, s, 0)[b] = <<>>
    BY DEF NewAfter
  <2> HIDE DEF p
  <2>4. ASSUME NEW x \in Address, InBlock(p, x) PROVE k.slot[x] = "raw" /\ ~ (x < p + 0)
    <3>1. x \in Int /\ x \in Span(c, c + extent)
      BY <1>6, <2>1, <2>4, AddressType
    <3> QED
      BY <1>2, <2>1, <2>4, <3>1 DEF InBlock, BlockFits
  <2>5. BlockIs(k, p, <<>>)
    BY <2>4, EmptyText DEF BlockIs
  <2> QED
    BY <2>2, <2>5 DEF p
<1>9. ASSUME NEW x \in Address, ~ Inside(e, n, x), ~ Inside(c, s, x) PROVE k.slot[x] = "free"
  <2>1. m.slot[x] = "free" /\ x \notin Span(c, c + extent)
    BY <1>6, <1>9 DEF Laid
  <2> QED
    BY <1>2, <2>1
<1>10. Two(k, e, n, OldAfter(bs, n, 0), c, s, NewAfter(bs, s, 0))
  BY <1>2, <1>7, <1>8, <1>9 DEF Two
<1> QED
  BY <1>2, <1>5, <1>10 DEF k

Bare(w, n) == \A b \in 1 .. n : w[b] = <<>>
Filling(v, s, bs) == \A b \in 1 .. s : v[b] = BlockOf(bs, b)
ChunkAt(els, e, n) == els.begin = e /\ els.end = e + Off(n + 1)

LEMMA AllGone ==
  ASSUME NEW e, NEW n, NEW c, NEW s, Apart2(e, n, c, s), NEW w, Bare(w, n), NEW v, NEW bs, Filling(v, s, bs),
         NEW m, Two(m, e, n, w, c, s, v), NEW els, ChunkAt(els, e, n)
  PROVE  Clean(Deallocate(m, els)) /\ Laid(Deallocate(m, els), c, s, bs)
<1> DEFINE k == Deallocate(m, els)
<1>9. els.begin = e /\ els.end = e + Off(n + 1)
  BY DEF ChunkAt
<1>1. LiesAt(e, n) /\ LiesAt(c, s)
  BY DEF Apart2
<1>2. e \in Nat /\ n \in Nat /\ Off(n + 1) \in Nat /\ \A x \in Int : Inside(e, n, x) => x \in Address
  BY <1>1, BlocksLie
<1>3. e = Null => e + Off(n + 1) = Null
  <2> SUFFICES ASSUME e = Null PROVE e + Off(n + 1) = Null
    OBVIOUS
  <2>1. n = 0
    BY <1>1, BaseIs DEF LiesAt, Null
  <2>2. n + 1 = 1 /\ Off(1) = 0
    BY <2>1, OffIs
  <2> QED
    BY <2>2 DEF Null
<1>4. \A x : x \in Span(els.begin, els.end) <=> x \in Int /\ Inside(e, n, x)
  BY <1>2, <1>9 DEF Span, Inside
<1>5. ASSUME NEW x \in Int, Inside(e, n, x) PROVE x \in Address /\ m.slot[x] = "raw"
  <2>1. PICK b \in 1 .. n : InBlock(e + Off(b), x)
    BY <1>2, <1>5, SomeBlock
  <2> DEFINE p == e + Off(b)
  <2>2. BlockIs(m, p, w[b]) /\ w[b] = <<>> /\ BlockFits(p)
    BY <1>1, BlocksLie DEF Two, Bare
  <2>3. InBlock(p, x) /\ x \in Address
    BY <1>2, <1>5, <2>1
  <2> HIDE DEF p
  <2>4. BlockIs(m, p, <<>>)
    BY <2>2
  <2>5. ~ (x < p + 0)
    BY <2>2, <2>3 DEF InBlock, BlockFits
  <2> QED
    BY <2>3, <2>4, <2>5, EmptyText DEF BlockIs
<1>6. Clean(k) /\ \A x \in Address : k.slot[x] = IF x \in Span(els.begin, els.end) THEN "free" ELSE m.slot[x]
  <2>1. Clean(m) /\ els.begin \in Int /\ els.end \in Int /\ (els.begin = Null => els.end = Null)
    BY <1>2, <1>3, <1>9 DEF Two
  <2>2. \A x \in Span(els.begin, els.end) : x \in Address /\ m.slot[x] = "raw"
    BY <1>4, <1>5
  <2> QED
    BY <2>1, <2>2, DeallocateIs
<1> HIDE DEF k
<1>7. ASSUME NEW b \in 1 .. s PROVE BlockIs(k, c + Off(b), BlockOf(bs, b))
  <2> DEFINE p == c + Off(b)
             t == BlockOf(bs, b)
  <2>1. \A x \in Int : InBlock(p, x) => Inside(c, s, x)
    BY <1>1, BlocksLie
  <2>2. BlockIs(m, p, t)
    <3>1. BlockIs(m, p, v[b])
      BY DEF Two
    <3> QED
      BY <3>1 DEF Filling
  <2> HIDE DEF p, t
  <2>3. ASSUME NEW x \in Address, InBlock(p, x) PROVE k.slot[x] = m.slot[x]
    <3>1. x \in Int /\ Inside(c, s, x)
      BY <2>1, <2>3, AddressType
    <3>2. x \notin Span(els.begin, els.end)
      BY <1>4, <3>1, NotInBoth
    <3> QED
      BY <1>6, <3>2
  <2>4. BlockIs(k, p, t)
    BY <2>2, <2>3 DEF BlockIs
  <2> QED
    BY <2>4 DEF p, t
<1>8. ASSUME NEW x \in Address, ~ Inside(c, s, x) PROVE k.slot[x] = "free"
  <2>1. x \in Int
    BY AddressType
  <2>2. CASE Inside(e, n, x)
    BY <1>4, <1>6, <2>1, <2>2
  <2>3. CASE ~ Inside(e, n, x)
    BY <1>4, <1>6, <1>8, <2>3 DEF Two
  <2> QED
    BY <2>2, <2>3
<1> QED
  BY <1>6, <1>7, <1>8 DEF Laid, k

LEMMA BlocksExpanded ==
  ASSUME NEW m, Clean(m), NEW els, NEW n, LiesAt(els.begin, n), els.end = els.begin + Off(n + 1),
         NEW bs, IsBlocks(bs), Laid(m, els.begin, n, bs), Len(bs) <= n,
         NEW s \in Nat \ {0}, Len(bs) <= s, Off(s + 1) <= MaxCap, NEW extent, extent = Off(s + 1),
         NEW moves, MovesFor(moves, els.begin, bs)
  PROVE  /\ Base(Placed(m, extent).begin) /\ Placed(m, extent).end = Placed(m, extent).begin + extent
         /\ Clean(ChunkExpand(m, els, extent, moves, <<>>))
         /\ Laid(ChunkExpand(m, els, extent, moves, <<>>), Placed(m, extent).begin, s, bs)
<1> DEFINE e == els.begin
           c == Placed(m, extent).begin
           k0 == AllocateMemory(m, extent)
           k1 == MoveAll(k0, c, moves)
           k2 == DestroyAll(k1, moves)
           w == OldAfter(bs, n, Len(bs))
           v == NewAfter(bs, s, Len(bs))
<1>1. /\ Apart2(e, n, c, s) /\ Base(c) /\ Placed(m, extent).end = c + extent
      /\ Two(k0, e, n, OldAfter(bs, n, 0), c, s, NewAfter(bs, s, 0))
  BY AllocatedApart
<1>2. ChunkExpand(m, els, extent, moves, <<>>) = Deallocate(k2, els)
  BY ConstructAllNone DEF ChunkExpand
<1>3. MovesFor(moves, e, bs) /\ els.begin = e /\ els.end = e + Off(n + 1)
  OBVIOUS
<1> HIDE DEF e, c, k0
<1>4. Two(k1, e, n, w, c, s, v)
  BY <1>1, <1>3, AllMoved
<1> HIDE DEF k1
<1>5. Len(bs) \in Nat /\ n \in Nat
  BY <1>1, BlocksLie DEF Apart2, IsBlocks
<1>6. \A b \in 1 .. Len(bs) : w[b] \in Seq(Alive) /\ Len(w[b]) = Len(bs[b])
  <2> SUFFICES ASSUME NEW b \in 1 .. Len(bs) PROVE w[b] \in Seq(Alive) /\ Len(w[b]) = Len(bs[b])
    OBVIOUS
  <2>1. b \in 1 .. n /\ b <= Len(bs) /\ b \in Nat \ {0}
    BY <1>5
  <2>2. BlockOf(bs, b) = bs[b] /\ BlockOf(bs, b) \in Seq(Alive)
    BY <2>1, BlocksAre DEF BlockOf
  <2>3. w[b] = MovedText(BlockOf(bs, b))
    BY <2>1 DEF OldAfter
  <2> QED
    BY <2>2, <2>3, MovedTextIs
<1>7. Two(k1, e, n, LeftAfter(w, n, 0), c, s, v)
  <2>1. \A b \in 1 .. n : LeftAfter(w, n, 0)[b] = w[b]
    BY <1>5 DEF LeftAfter
  <2> HIDE DEF w, v
  <2> QED
    BY <1>4, <2>1 DEF Two
<1>8. \A b \in 1 .. n : LeftAfter(w, n, Len(bs))[b] = <<>>
  <2> SUFFICES ASSUME NEW b \in 1 .. n PROVE LeftAfter(w, n, Len(bs))[b] = <<>>
    OBVIOUS
  <2>1. CASE b <= Len(bs)
    BY <2>1 DEF LeftAfter
  <2>2. CASE ~ (b <= Len(bs))
    <3>1. LeftAfter(w, n, Len(bs))[b] = w[b] /\ w[b] = BlockOf(bs, b)
      BY <2>2 DEF LeftAfter, OldAfter
    <3>2. b \notin 1 .. Len(bs)
      BY <2>2
    <3> QED
      BY <3>1, <3>2 DEF BlockOf
  <2> QED
    BY <2>1, <2>2
<1>9. \A b \in 1 .. s : v[b] = BlockOf(bs, b)
  <2> SUFFICES ASSUME NEW b \in 1 .. s PROVE v[b] = BlockOf(bs, b)
    OBVIOUS
  <2>1. v[b] = IF b <= Len(bs) THEN BlockOf(bs, b) ELSE <<>>
    BY DEF NewAfter
  <2>2. ~ (b <= Len(bs)) => BlockOf(bs, b) = <<>>
    BY DEF BlockOf
  <2> QED
    BY <2>1, <2>2
<1> HIDE DEF w, v
<1>10. Two(k2, e, n, LeftAfter(w, n, Len(bs)), c, s, v)
  BY <1>1, <1>3, <1>6, <1>7, AllDestroyed
<1> HIDE DEF k2
<1>11. Clean(Deallocate(k2, els)) /\ Laid(Deallocate(k2, els), c, s, bs)
  <2> DEFINE u == LeftAfter(w, n, Len(bs))
  <2>1. Two(k2, e, n, u, c, s, v) /\ Bare(u, n)
    BY <1>8, <1>10 DEF Bare
  <2>2. Filling(v, s, bs) /\ ChunkAt(els, e, n)
    BY <1>3, <1>9 DEF Filling, ChunkAt
  <2> HIDE DEF u
  <2> QED
    BY <1>1, <2>1, <2>2, AllGone
<1> QED
  BY <1>1, <1>2, <1>11 DEF c

-----------------------------------------------------------------------------
(* Blocks: removal *)

\* The state of a removal from a block of len elements, and what a step from a to r, at j, does to it.
Removals(len) == [s : [1 .. len -> Alive], next : Nat]
Crit(a, what) == IF "ref" \in DOMAIN what THEN a.s[what.ref] ELSE what.value
Visited(a, r, j, what) ==
  \/ a.s[j] = Crit(a, what) /\ r = a
  \/ a.s[j] # Crit(a, what) /\ a.next = j /\ r = [a EXCEPT !.next = j + 1]
  \/ /\ a.s[j] # Crit(a, what) /\ a.next # j
     /\ r = [s |-> [a.s EXCEPT ![a.next] = a.s[j], ![j] = "moved"], next |-> a.next + 1]

RemovalSteps(f, s, what) ==
  /\ f[0] = [s |-> s, next |-> 1] /\ Chunked!Removed(s, what) = f[Len(s)]
  /\ \A k \in 0 .. Len(s) : f[k] \in Removals(Len(s))
  /\ \A k \in 1 .. Len(s) : Visited(f[k - 1], f[k], k, what)

LEMMA RemovalIs ==
  ASSUME NEW s \in Seq(Alive), NEW what
  PROVE  \E f : RemovalSteps(f, s, what)
<1> DEFINE n == Len(s)
           S == Removals(n)
           Differs(acc, j) == acc.s[j] # IF "ref" \in DOMAIN what THEN acc.s[what.ref] ELSE what.value
           Step(acc, j) ==
             CASE ~ Differs(acc, j) -> acc
               [] Differs(acc, j) /\ acc.next = j -> [acc EXCEPT !.next = j + 1]
               [] OTHER -> [s |-> [acc.s EXCEPT ![acc.next] = acc.s[j], ![j] = "moved"], next |-> acc.next + 1]
           m == [s |-> s, next |-> 1]
           G == [p \in S \X (1 .. n) |-> Step(p[1], p[2])]
           Is(f) == f = [k \in 0 .. Len(s) |-> IF k = 0 THEN m ELSE Step(f[k - 1], k)]
           after == CHOOSE f : Is(f)
<1>1. n \in Nat /\ Len(s) = n /\ m \in S
  <2>1. s \in [1 .. n -> Alive]
    OBVIOUS
  <2> QED
    BY <2>1 DEF Removals
<1>2. ASSUME NEW a \in S, NEW k \in 1 .. n PROVE Step(a, k) \in S /\ Visited(a, Step(a, k), k, what)
  <2>1. a.s \in [1 .. n -> Alive] /\ a.next \in Nat /\ a.s[k] \in Alive /\ "moved" \in Alive
    BY SlotsDiffer DEF Removals
  <2>2. CASE ~ Differs(a, k)
    <3>1. Step(a, k) = a /\ a.s[k] = Crit(a, what)
      BY <2>2 DEF Crit
    <3> QED
      BY <3>1 DEF Visited
  <2>3. CASE Differs(a, k) /\ a.next = k
    <3> DEFINE r == [a EXCEPT !.next = k + 1]
    <3>1. Step(a, k) = r /\ a.s[k] # Crit(a, what)
      BY <2>3 DEF Crit
    <3>2. r \in S
      BY <1>1, <2>1 DEF Removals
    <3> QED
      BY <2>3, <3>1, <3>2 DEF Visited
  <2>4. CASE Differs(a, k) /\ a.next # k
    <3> DEFINE z == [a.s EXCEPT ![a.next] = a.s[k], ![k] = "moved"]
               r == [s |-> z, next |-> a.next + 1]
    <3>1. Step(a, k) = r /\ a.s[k] # Crit(a, what)
      BY <2>4 DEF Crit
    <3>2. z \in [1 .. n -> Alive]
      BY <2>1
    <3>3. r \in S
      <4> HIDE DEF z, n
      <4> QED
        BY <2>1, <3>2 DEF Removals
    <3> QED
      BY <2>4, <3>1, <3>3 DEF Visited
  <2> QED
    BY <2>2, <2>3, <2>4
<1>3. Chunked!Removed(s, what) = after[Len(s)]
  BY DEF Chunked!Removed
<1> HIDE DEF Step, S, m, n
<1>5. \A a \in S, k \in 1 .. n : G[<<a, k>>] \in S /\ G[<<a, k>>] = Step(a, k)
  BY <1>2
<1> HIDE DEF G
<1>6. PICK f \in [0 .. n -> S] : f[0] = m /\ \A k \in 1 .. n : f[k] = G[<<f[k - 1], k>>]
  <2>1. StepsIn(G, S, n)
    BY <1>5 DEF StepsIn
  <2> QED
    BY <1>1, <2>1, Repetition
<1>7. ASSUME NEW k \in 0 .. n PROVE f[k] = IF k = 0 THEN m ELSE Step(f[k - 1], k)
  <2>1. CASE k = 0
    BY <1>6, <2>1
  <2>2. CASE k # 0
    <3>1. k \in 1 .. n /\ k - 1 \in 0 .. n
      BY <1>1, <2>2
    <3>2. f[k - 1] \in S /\ f[k] = G[<<f[k - 1], k>>]
      BY <1>6, <3>1
    <3>3. G[<<f[k - 1], k>>] = Step(f[k - 1], k)
      BY <1>5, <3>1, <3>2
    <3> QED
      BY <2>2, <3>2, <3>3
  <2> QED
    BY <2>1, <2>2
<1>8. f = [k \in 0 .. n |-> f[k]]
  BY <1>6
<1>9. Is(f)
  BY <1>1, <1>7, <1>8
<1> HIDE DEF Is
<1>10. Is(after)
  BY <1>9
<1> HIDE DEF after
<1>11. after = [k \in 0 .. n |-> IF k = 0 THEN m ELSE Step(after[k - 1], k)]
  BY <1>1, <1>10 DEF Is
<1>12. after[0] = m /\ \A k \in 1 .. n : after[k] = Step(after[k - 1], k)
  <2>1. 0 \in 0 .. n
    BY <1>1
  <2>2. \A k \in 1 .. n : k \in 0 .. n /\ k # 0
    BY <1>1
  <2> QED
    BY <1>11, <2>1, <2>2
<1>13. \A k \in 0 .. n : after[k] \in S
  <2> DEFINE P == {k \in 0 .. n : after[k] \in S}
  <2>1. 0 \in P
    BY <1>1, <1>12
  <2>2. \A k \in 0 .. n - 1 : k \in P => k + 1 \in P
    <3> SUFFICES ASSUME NEW k \in 0 .. n - 1, k \in P PROVE k + 1 \in P
      OBVIOUS
    <3>1. k + 1 \in 1 .. n /\ (k + 1) - 1 = k /\ k + 1 \in 0 .. n /\ after[k] \in S
      BY <1>1
    <3>2. after[k + 1] = Step(after[k], k + 1)
      BY <1>12, <3>1
    <3> QED
      BY <1>2, <3>1, <3>2
  <2>3. \A k \in 0 .. n : k \in P
    <3> HIDE DEF P
    <3> QED
      BY <1>1, <2>1, <2>2, CountUp
  <2> QED
    BY <2>3
<1>14. \A k \in 1 .. n : Visited(after[k - 1], after[k], k, what)
  <2> SUFFICES ASSUME NEW k \in 1 .. n PROVE Visited(after[k - 1], after[k], k, what)
    OBVIOUS
  <2>1. after[k - 1] \in S /\ after[k] = Step(after[k - 1], k)
    BY <1>1, <1>12, <1>13
  <2> QED
    BY <1>2, <2>1
<1> QED
  BY <1>1, <1>3, <1>12, <1>13, <1>14 DEF RemovalSteps, S, m, n

\* What the removal has kept lies in the block, in the order it had, and what it has not reached is there.
KeptSome(r, s, j) ==
  /\ r.next \in 1 .. j + 1
  /\ \A k \in j + 1 .. Len(s) : r.s[k] = s[k]
  /\ \E h \in [1 .. r.next - 1 -> 1 .. j] :
       /\ \A k \in 1 .. r.next - 1 : r.s[k] = s[h[k]]
       /\ \A k, l \in 1 .. r.next - 1 : h[k] = h[l] => k = l

LEMMA VisitKeeps ==
  ASSUME NEW s \in Seq(Alive), NEW j \in 1 .. Len(s), NEW what,
         NEW a \in Removals(Len(s)), NEW r, Visited(a, r, j, what), KeptSome(a, s, j - 1)
  PROVE  KeptSome(r, s, j)
<1>1. a.next \in 1 .. j /\ a.s \in [1 .. Len(s) -> Alive] /\ \A k \in j .. Len(s) : a.s[k] = s[k]
  BY DEF KeptSome, Removals
<1>2. PICK h \in [1 .. a.next - 1 -> 1 .. j - 1] :
        /\ \A k \in 1 .. a.next - 1 : a.s[k] = s[h[k]]
        /\ \A k, l \in 1 .. a.next - 1 : h[k] = h[l] => k = l
  BY DEF KeptSome
<1>3. CASE r = a
  <2>1. h \in [1 .. r.next - 1 -> 1 .. j]
    BY <1>1, <1>2, <1>3
  <2> QED
    BY <1>1, <1>2, <1>3, <2>1 DEF KeptSome
<1>4. CASE r # a
  <2> DEFINE n == a.next
             g == [k \in 1 .. n |-> IF k = n THEN j ELSE h[k]]
  <2>1. n \in 1 .. j
    BY <1>1
  <2>2. /\ r.next = n + 1 /\ r.s[n] = s[j]
        /\ \A k \in 1 .. n - 1 : r.s[k] = a.s[k]
        /\ \A k \in j + 1 .. Len(s) : r.s[k] = a.s[k]
    <3>1. a.s[j] = s[j] /\ n \in 1 .. Len(s)
      BY <1>1
    <3>2. CASE n = j
      <4>1. r = [a EXCEPT !.next = j + 1]
        BY <1>4, <3>2 DEF Visited
      <4>2. r.next = j + 1 /\ r.s = a.s
        BY <4>1 DEF Removals
      <4> QED
        BY <3>1, <3>2, <4>2
    <3>3. CASE n # j
      <4>1. r = [s |-> [a.s EXCEPT ![a.next] = a.s[j], ![j] = "moved"], next |-> a.next + 1]
        BY <1>4, <3>3 DEF Visited
      <4>2. r.next = n + 1 /\ r.s = [a.s EXCEPT ![n] = a.s[j], ![j] = "moved"]
        BY <4>1
      <4>3. r.s[n] = a.s[j] /\ \A k \in 1 .. Len(s) : k # n /\ k # j => r.s[k] = a.s[k]
        BY <1>1, <3>1, <3>3, <4>2
      <4>4. /\ \A k \in 1 .. n - 1 : k # n /\ k # j /\ k \in 1 .. Len(s)
            /\ \A k \in j + 1 .. Len(s) : k # n /\ k # j /\ k \in 1 .. Len(s)
        BY <2>1
      <4> QED
        BY <3>1, <4>2, <4>3, <4>4
    <3> QED
      BY <3>2, <3>3
  <2> HIDE DEF n
  <2>3. \A k \in 1 .. n - 1 : a.s[k] = s[h[k]] /\ h[k] \in 1 .. j - 1
    BY <1>2 DEF n
  <2>4. \A k, l \in 1 .. n - 1 : h[k] = h[l] => k = l
    BY <1>2 DEF n
  <2>5. g[n] = j /\ \A k \in 1 .. n - 1 : g[k] = h[k]
    BY <2>1
  <2>6. g \in [1 .. n -> 1 .. j]
    BY <2>1, <2>3
  <2> HIDE DEF g
  <2>7. \A k \in 1 .. n : k = n \/ k \in 1 .. n - 1
    BY <2>1
  <2>8. \A k \in 1 .. n : r.s[k] = s[g[k]]
    BY <2>2, <2>3, <2>5, <2>7
  <2>9. \A k, l \in 1 .. n : g[k] = g[l] => k = l
    <3> SUFFICES ASSUME NEW k \in 1 .. n, NEW l \in 1 .. n, g[k] = g[l] PROVE k = l
      OBVIOUS
    <3>1. \A i \in 1 .. n - 1 : g[i] # j
      BY <2>3, <2>5
    <3>2. CASE k = n \/ l = n
      BY <2>5, <2>7, <3>1, <3>2
    <3>3. CASE k # n /\ l # n
      BY <2>4, <2>5, <2>7, <3>3
    <3> QED
      BY <3>2, <3>3
  <2>10. r.next - 1 = n /\ r.next \in 1 .. j + 1
    BY <2>1, <2>2
  <2>11. \A k \in j + 1 .. Len(s) : r.s[k] = s[k]
    BY <1>1, <2>2
  <2> QED
    BY <2>6, <2>8, <2>9, <2>10, <2>11 DEF KeptSome
<1> QED
  BY <1>3, <1>4

LEMMA RemovalKeeps ==
  ASSUME NEW s \in Seq(Alive), NEW what
  PROVE  Chunked!Removed(s, what) \in Removals(Len(s)) /\ KeptSome(Chunked!Removed(s, what), s, Len(s))
<1>1. PICK f : RemovalSteps(f, s, what)
  BY RemovalIs
<1> DEFINE P == {k \in 0 .. Len(s) : KeptSome(f[k], s, k)}
<1>2. 0 \in P
  <2>1. f[0].next = 1 /\ f[0].s = s
    BY <1>1 DEF RemovalSteps
  <2> DEFINE h == [k \in 1 .. 0 |-> 0]
  <2>2. h \in [1 .. 0 -> 1 .. 0]
    OBVIOUS
  <2> HIDE DEF h
  <2>4. 1 \in 1 .. 0 + 1 /\ 0 \in 0 .. Len(s)
    OBVIOUS
  <2>5. KeptSome(f[0], s, 0)
    <3> DEFINE a == f[0]
    <3>1. a.next = 1 /\ a.s = s
      BY <2>1
    <3> HIDE DEF a
    <3>2. a.next \in 1 .. 0 + 1 /\ \A k \in 0 + 1 .. Len(s) : a.s[k] = s[k]
      BY <2>4, <3>1
    <3>3. \E g \in [1 .. a.next - 1 -> 1 .. 0] :
            /\ \A k \in 1 .. a.next - 1 : a.s[k] = s[g[k]]
            /\ \A k, l \in 1 .. a.next - 1 : g[k] = g[l] => k = l
      <4> DEFINE D == 1 .. a.next - 1
      <4>1. D = 1 .. 0
        BY <3>1
      <4>2. \A k \in D : FALSE
        BY <4>1
      <4> HIDE DEF D
      <4>3. h \in [D -> 1 .. 0]
        BY <2>2, <4>1, Zenon
      <4>4. \E g \in [D -> 1 .. 0] : (\A k \in D : a.s[k] = s[g[k]]) /\ (\A k, l \in D : g[k] = g[l] => k = l)
        BY <4>2, <4>3, Zenon
      <4> QED
        BY <4>4 DEF D
    <3>4. KeptSome(a, s, 0)
      BY <3>2, <3>3 DEF KeptSome
    <3> QED
      BY <3>4 DEF a
  <2> QED
    BY <2>4, <2>5
<1>3. \A k \in 0 .. Len(s) - 1 : k \in P => k + 1 \in P
  <2> SUFFICES ASSUME NEW k \in 0 .. Len(s) - 1, k \in P PROVE k + 1 \in P
    OBVIOUS
  <2> DEFINE i == k + 1
  <2>1. i \in 1 .. Len(s) /\ i - 1 = k /\ i \in 0 .. Len(s) /\ k \in 0 .. Len(s)
    OBVIOUS
  <2>2. KeptSome(f[k], s, k)
    OBVIOUS
  <2> HIDE DEF i
  <2>3. Visited(f[k], f[i], i, what) /\ f[k] \in Removals(Len(s))
    <3>1. Visited(f[i - 1], f[i], i, what)
      BY <1>1, <2>1 DEF RemovalSteps
    <3> QED
      BY <1>1, <2>1, <3>1 DEF RemovalSteps
  <2>4. KeptSome(f[k], s, i - 1)
    BY <2>1, <2>2
  <2>5. KeptSome(f[i], s, i)
    BY <2>1, <2>3, <2>4, VisitKeeps
  <2> QED
    BY <2>1, <2>5 DEF i
<1> HIDE DEF P
<1>4. Len(s) \in P
  <2>1. Len(s) \in Nat /\ Len(s) \in 0 .. Len(s)
    OBVIOUS
  <2> QED
    BY <1>2, <1>3, <2>1, CountUp
<1>5. KeptSome(f[Len(s)], s, Len(s)) /\ f[Len(s)] \in Removals(Len(s)) /\ Chunked!Removed(s, what) = f[Len(s)]
  BY <1>1, <1>4 DEF P, RemovalSteps
<1> QED
  BY <1>5

WithoutSteps(f, s, v) ==
  /\ f[0] = <<>> /\ Chunked!Without(s, v) = f[Len(s)]
  /\ \A k \in 0 .. Len(s) : f[k] \in Seq(Values)
  /\ \A k \in 1 .. Len(s) : f[k] = IF s[k] = v THEN f[k - 1] ELSE Append(f[k - 1], s[k])

LEMMA WithoutIs ==
  ASSUME NEW s \in Seq(Values), NEW v
  PROVE  \E f : WithoutSteps(f, s, v)
<1> DEFINE n == Len(s)
           S == Seq(Values)
           m == <<>>
           Step(l, j) == IF s[j] = v THEN l ELSE Append(l, s[j])
           G == [p \in S \X (1 .. n) |-> Step(p[1], p[2])]
           Is(f) == f = [k \in 0 .. Len(s) |-> IF k = 0 THEN m ELSE Step(f[k - 1], k)]
           after == CHOOSE f : Is(f)
<1>1. n \in Nat /\ Len(s) = n /\ m \in S
  OBVIOUS
<1>2. ASSUME NEW l \in S, NEW k \in 1 .. n PROVE Step(l, k) \in S
  OBVIOUS
<1>3. Chunked!Without(s, v) = after[Len(s)]
  <2>1. \A f : Is(f) <=> f = [j \in 0 .. Len(s) |->
                              IF j = 0 THEN <<>> ELSE IF s[j] = v THEN f[j - 1] ELSE Append(f[j - 1], s[j])]
    OBVIOUS
  <2> QED
    BY DEF Chunked!Without
<1>4. \A l, k : Step(l, k) = IF s[k] = v THEN l ELSE Append(l, s[k])
  OBVIOUS
<1> HIDE DEF Step, S, m, n
<1>5. \A l \in S, k \in 1 .. n : G[<<l, k>>] \in S /\ G[<<l, k>>] = Step(l, k)
  BY <1>2
<1> HIDE DEF G
<1>6. PICK f \in [0 .. n -> S] : f[0] = m /\ \A k \in 1 .. n : f[k] = G[<<f[k - 1], k>>]
  <2>1. StepsIn(G, S, n)
    BY <1>5 DEF StepsIn
  <2> QED
    BY <1>1, <2>1, Repetition
<1>7. ASSUME NEW k \in 0 .. n PROVE f[k] = IF k = 0 THEN m ELSE Step(f[k - 1], k)
  <2>1. CASE k = 0
    BY <1>6, <2>1
  <2>2. CASE k # 0
    <3>1. k \in 1 .. n /\ k - 1 \in 0 .. n
      BY <1>1, <2>2
    <3>2. f[k - 1] \in S /\ f[k] = G[<<f[k - 1], k>>]
      BY <1>6, <3>1
    <3>3. G[<<f[k - 1], k>>] = Step(f[k - 1], k)
      BY <1>5, <3>1, <3>2
    <3> QED
      BY <2>2, <3>2, <3>3
  <2> QED
    BY <2>1, <2>2
<1>8. f = [k \in 0 .. n |-> f[k]]
  BY <1>6
<1>9. Is(f)
  BY <1>1, <1>7, <1>8
<1> HIDE DEF Is
<1>10. Is(after)
  BY <1>9
<1> HIDE DEF after
<1>11. after = [k \in 0 .. n |-> IF k = 0 THEN m ELSE Step(after[k - 1], k)]
  BY <1>1, <1>10 DEF Is
<1>12. after[0] = m /\ \A k \in 1 .. n : after[k] = Step(after[k - 1], k)
  <2>1. 0 \in 0 .. n
    BY <1>1
  <2>2. \A k \in 1 .. n : k \in 0 .. n /\ k # 0
    BY <1>1
  <2> QED
    BY <1>11, <2>1, <2>2
<1>13. \A k \in 0 .. n : after[k] \in S
  <2> DEFINE P == {k \in 0 .. n : after[k] \in S}
  <2>1. 0 \in P
    BY <1>1, <1>12
  <2>2. \A k \in 0 .. n - 1 : k \in P => k + 1 \in P
    <3> SUFFICES ASSUME NEW k \in 0 .. n - 1, k \in P PROVE k + 1 \in P
      OBVIOUS
    <3>1. k + 1 \in 1 .. n /\ (k + 1) - 1 = k /\ k + 1 \in 0 .. n /\ after[k] \in S
      BY <1>1
    <3>2. after[k + 1] = Step(after[k], k + 1)
      BY <1>12, <3>1
    <3> QED
      BY <1>2, <3>1, <3>2
  <2>3. \A k \in 0 .. n : k \in P
    <3> HIDE DEF P
    <3> QED
      BY <1>1, <2>1, <2>2, CountUp
  <2> QED
    BY <2>3
<1>14. after[0] = <<>> /\ after[Len(s)] = Chunked!Without(s, v) /\ Len(s) = n
  BY <1>1, <1>3, <1>12 DEF m
<1>15. \A k \in 1 .. n : after[k] = IF s[k] = v THEN after[k - 1] ELSE Append(after[k - 1], s[k])
  BY <1>4, <1>12
<1>16. \A k \in 0 .. n : after[k] \in Seq(Values)
  BY <1>13 DEF S
<1> QED
  BY <1>14, <1>15, <1>16 DEF WithoutSteps

\* The removal of v, at j, has kept l.
Matches(r, l, s, j) ==
  /\ l \in Seq(Values) /\ Len(l) <= j /\ r.next = Len(l) + 1
  /\ \A k \in 1 .. Len(l) : r.s[k] = l[k]
  /\ \A k \in j + 1 .. Len(s) : r.s[k] = s[k]

LEMMA VisitMatches ==
  ASSUME NEW s \in Seq(Values), NEW j \in 1 .. Len(s), NEW v,
         NEW a \in Removals(Len(s)), NEW r, Visited(a, r, j, Chunked!Value(v)), NEW l, Matches(a, l, s, j - 1)
  PROVE  Matches(r, IF s[j] = v THEN l ELSE Append(l, s[j]), s, j)
<1>1. /\ l \in Seq(Values) /\ Len(l) \in Nat /\ Len(l) <= j - 1 /\ a.next = Len(l) + 1
      /\ \A k \in 1 .. Len(l) : a.s[k] = l[k]
      /\ \A k \in j .. Len(s) : a.s[k] = s[k]
  BY DEF Matches
<1>2. a.s \in [1 .. Len(s) -> Alive] /\ a.s[j] = s[j]
  BY <1>1 DEF Removals
<1>3. Crit(a, Chunked!Value(v)) = v
  BY DEF Crit, Chunked!Value
<1>4. CASE s[j] = v
  <2>1. r = a
    BY <1>2, <1>3, <1>4 DEF Visited
  <2>2. Matches(a, l, s, j)
    BY <1>1 DEF Matches
  <2> QED
    BY <1>4, <2>1, <2>2
<1>5. CASE s[j] # v
  <2> DEFINE n == a.next
             z == Append(l, s[j])
  <2>1. n \in 1 .. j /\ n = Len(l) + 1
    BY <1>1
  <2>2. /\ r.next = n + 1 /\ r.s[n] = s[j]
        /\ \A k \in 1 .. n - 1 : r.s[k] = a.s[k]
        /\ \A k \in j + 1 .. Len(s) : r.s[k] = a.s[k]
    <3>1. n \in 1 .. Len(s)
      BY <2>1
    <3>2. CASE n = j
      <4>1. r = [a EXCEPT !.next = j + 1]
        BY <1>2, <1>3, <1>5, <3>2 DEF Visited
      <4>2. r.next = j + 1 /\ r.s = a.s
        BY <4>1 DEF Removals
      <4> QED
        BY <1>2, <3>1, <3>2, <4>2
    <3>3. CASE n # j
      <4>1. r = [s |-> [a.s EXCEPT ![a.next] = a.s[j], ![j] = "moved"], next |-> a.next + 1]
        BY <1>2, <1>3, <1>5, <3>3 DEF Visited
      <4>2. r.next = n + 1 /\ r.s = [a.s EXCEPT ![n] = a.s[j], ![j] = "moved"]
        BY <4>1
      <4>3. r.s[n] = a.s[j] /\ \A k \in 1 .. Len(s) : k # n /\ k # j => r.s[k] = a.s[k]
        BY <1>2, <3>1, <3>3, <4>2
      <4>4. /\ \A k \in 1 .. n - 1 : k # n /\ k # j /\ k \in 1 .. Len(s)
            /\ \A k \in j + 1 .. Len(s) : k # n /\ k # j /\ k \in 1 .. Len(s)
        BY <2>1
      <4> QED
        BY <1>2, <4>2, <4>3, <4>4
    <3> QED
      BY <3>2, <3>3
  <2> HIDE DEF n
  <2>3. z \in Seq(Values) /\ Len(z) = n /\ z[n] = s[j] /\ \A k \in 1 .. Len(l) : z[k] = l[k]
    <3>1. s[j] \in Values
      OBVIOUS
    <3> QED
      BY <1>1, <2>1, <3>1
  <2> HIDE DEF z
  <2>4. \A k \in 1 .. n : k = n \/ (k \in 1 .. n - 1 /\ k \in 1 .. Len(l))
    BY <1>1, <2>1
  <2>5. \A k \in 1 .. n : r.s[k] = z[k]
    BY <1>1, <2>2, <2>3, <2>4
  <2>6. \A k \in j + 1 .. Len(s) : r.s[k] = s[k]
    BY <1>1, <2>2
  <2>7. Matches(r, z, s, j)
    BY <2>1, <2>2, <2>3, <2>5, <2>6 DEF Matches
  <2> QED
    BY <1>5, <2>7 DEF z
<1> QED
  BY <1>4, <1>5

LEMMA RemovalMatches ==
  ASSUME NEW s \in Seq(Values), NEW v
  PROVE  Matches(Chunked!Removed(s, Chunked!Value(v)), Chunked!Without(s, v), s, Len(s))
<1> DEFINE what == Chunked!Value(v)
<1>1. s \in Seq(Alive) /\ Len(s) \in Nat
  BY DEF Alive
<1>2. PICK f : RemovalSteps(f, s, what)
  BY <1>1, RemovalIs
<1>3. PICK g : WithoutSteps(g, s, v)
  BY WithoutIs
<1> DEFINE P == {k \in 0 .. Len(s) : Matches(f[k], g[k], s, k)}
<1>4. 0 \in P
  <2>1. f[0].next = 1 /\ f[0].s = s /\ g[0] = <<>>
    BY <1>2, <1>3 DEF RemovalSteps, WithoutSteps
  <2>2. <<>> \in Seq(Values) /\ Len(<<>>) = 0 /\ 0 \in 0 .. Len(s)
    BY <1>1
  <2>3. Matches(f[0], <<>>, s, 0)
    BY <2>1, <2>2 DEF Matches
  <2> QED
    BY <2>1, <2>2, <2>3
<1>5. \A k \in 0 .. Len(s) - 1 : k \in P => k + 1 \in P
  <2> SUFFICES ASSUME NEW k \in 0 .. Len(s) - 1, k \in P PROVE k + 1 \in P
    OBVIOUS
  <2> DEFINE i == k + 1
  <2>1. i \in 1 .. Len(s) /\ i - 1 = k /\ i \in 0 .. Len(s) /\ k \in 0 .. Len(s)
    BY <1>1
  <2>2. Matches(f[k], g[k], s, k)
    OBVIOUS
  <2> HIDE DEF i, what
  <2>3. Visited(f[k], f[i], i, what) /\ f[k] \in Removals(Len(s))
    <3>1. Visited(f[i - 1], f[i], i, what)
      BY <1>2, <2>1 DEF RemovalSteps
    <3> QED
      BY <1>2, <2>1, <3>1 DEF RemovalSteps
  <2>4. g[i] = IF s[i] = v THEN g[k] ELSE Append(g[k], s[i])
    BY <1>3, <2>1 DEF WithoutSteps
  <2>5. Matches(f[k], g[k], s, i - 1)
    BY <2>1, <2>2
  <2>6. Matches(f[i], IF s[i] = v THEN g[k] ELSE Append(g[k], s[i]), s, i)
    BY <2>1, <2>3, <2>5, VisitMatches DEF what
  <2>7. Matches(f[i], g[i], s, i)
    BY <2>4, <2>6
  <2> QED
    BY <2>1, <2>7 DEF i
<1> HIDE DEF P
<1>6. Len(s) \in P
  <2>1. Len(s) \in 0 .. Len(s)
    BY <1>1
  <2> QED
    BY <1>1, <1>4, <1>5, <2>1, CountUp
<1>7. Matches(f[Len(s)], g[Len(s)], s, Len(s))
  BY <1>6 DEF P
<1> QED
  BY <1>2, <1>3, <1>7 DEF RemovalSteps, WithoutSteps

\* What the removal leaves in memory.
LEMMA ErasedIn ==
  ASSUME NEW m, Clean(m), NEW p, BlockFits(p), NEW t \in Seq(Alive), Len(t) <= BlockSize, BlockIs(m, p, t),
         NEW r \in Removals(Len(t)), r.next \in 1 .. Len(t) + 1
  PROVE  /\ Changed(m, Destroy(Assign(m, p, r.s), p + r.next - 1, p + Len(t)), p, SubSeq(r.s, 1, r.next - 1))
         /\ r.s \in Seq(Alive) /\ Len(r.s) = Len(t)
<1> DEFINE z == r.s
           i == r.next - 1
           k == Assign(m, p, z)
           d == Destroy(k, p + i, p + Len(z))
<1>1. z \in Seq(Alive) /\ Len(z) = Len(t) /\ Len(t) \in Nat
  <2>1. z \in [1 .. Len(t) -> Alive] /\ Len(t) \in Nat
    BY DEF Removals
  <2> QED
    BY <2>1
<1>2. i \in 0 .. Len(z) /\ p + r.next - 1 = p + i
  BY <1>1 DEF BlockFits
<1> HIDE DEF z, i
<1>3. Changed(m, k, p, z)
  BY <1>1, AssignedIn
<1>4. Changed(k, d, p, SubSeq(z, 1, i))
  <2>1. Clean(k) /\ BlockIs(k, p, z) /\ Len(z) <= BlockSize
    BY <1>1, <1>3 DEF Changed
  <2> HIDE DEF k
  <2> QED
    BY <1>1, <1>2, <2>1, DestroyedIn
<1>5. Changed(m, d, p, SubSeq(z, 1, i))
  <2> HIDE DEF k, d
  <2> QED
    BY <1>3, <1>4 DEF Changed
<1>6. d = Destroy(Assign(m, p, r.s), p + r.next - 1, p + Len(t))
  BY <1>1, <1>2 DEF z
<1> HIDE DEF d
<1> QED
  BY <1>1, <1>5, <1>6 DEF z, i

LEMMA FewerPositions ==
  ASSUME NEW s \in Seq(Alive), NEW r \in Removals(Len(s)), KeptSome(r, s, Len(s)), NEW x
  PROVE  Cardinality(Chunked!Positions(SubSeq(r.s, 1, r.next - 1), x)) <= Cardinality(Chunked!Positions(s, x))
<1> DEFINE n == r.next - 1
           z == SubSeq(r.s, 1, n)
           A == Chunked!Positions(z, x)
           B == Chunked!Positions(s, x)
<1>1. n \in 0 .. Len(s) /\ Len(s) \in Nat
  BY DEF KeptSome
<1>2. PICK h \in [1 .. n -> 1 .. Len(s)] :
        /\ \A k \in 1 .. n : r.s[k] = s[h[k]]
        /\ \A k, l \in 1 .. n : h[k] = h[l] => k = l
  BY DEF KeptSome
<1>3. r.s \in Seq(Alive) /\ Len(r.s) = Len(s)
  <2> DEFINE q == r.s
             l == Len(s)
  <2>1. q \in [1 .. l -> Alive] /\ l \in Nat
    BY <1>1 DEF Removals
  <2> HIDE DEF q, l
  <2>2. q \in Seq(Alive) /\ Len(q) = l
    BY <2>1
  <2> QED
    BY <2>2 DEF q, l
<1>4. Len(z) = n /\ \A k \in 1 .. n : z[k] = r.s[k]
  BY <1>1, <1>3, PrefixIs
<1> HIDE DEF n, z
<1>5. A = {k \in 1 .. n : z[k] = x} /\ B = {k \in 1 .. Len(s) : s[k] = x}
  BY <1>4 DEF Chunked!Positions
<1> HIDE DEF A, B
<1>6. \A k \in A : k \in 1 .. n /\ h[k] \in B
  BY <1>2, <1>4, <1>5
<1> DEFINE f == [k \in A |-> h[k]]
<1>7. f \in [A -> B] /\ \A k, l \in A : f[k] = f[l] => k = l
  BY <1>2, <1>6
<1>8. f \in Injection(A, B)
  <2> HIDE DEF f
  <2> QED
    BY <1>7 DEF Injection, IsInjective
<1>9. IsFiniteSet(B)
  <2>1. IsFiniteSet(1 .. Len(s))
    BY <1>1, FS_Interval
  <2>2. B \in SUBSET (1 .. Len(s))
    BY <1>5
  <2> QED
    BY <2>1, <2>2, FS_Subset
<1>10. Cardinality(A) <= Cardinality(B)
  <2> HIDE DEF f
  <2> QED
    BY <1>8, <1>9, FS_Injection
<1> QED
  BY <1>10 DEF A, B, z, n

-----------------------------------------------------------------------------
(* Blocks: the invariant and what follows from it *)

GoodBlocks(m, els, szs, num, bs) ==
  /\ Clean(m) /\ IsBlocks(bs) /\ Len(bs) = num /\ num <= MaxBlocks
  /\ szs \in Seq(Nat \cup {"raw"}) /\ num <= Len(szs) /\ \A b \in 1 .. num : szs[b] = Len(bs[b])
  /\ LiesAt(els.begin, Len(szs)) /\ ChunkAt(els, els.begin, Len(szs))
  /\ Laid(m, els.begin, Len(szs), bs)

\* A handle points to a block of an allocation, which may be gone.
HandleOK(h) ==
  \/ h = Chunked!NoHandle
  \/ /\ h = [block |-> h.block, begin |-> h.begin, end |-> h.end]
     /\ h.block \in 1 .. MaxBlocks /\ Off(h.block) + BlockSize <= MaxCap
     /\ \E e : Base(e) /\ h.begin = e + Off(h.block)
     /\ h.end \in h.begin .. h.begin + BlockSize

ChunkedInv ==
  /\ misuse = {} => GoodBlocks(mem, elements, sizes, blockNum, blocks) /\ HandleOK(handle)
  /\ misuse # {} => Chunked!ChunkedTypeOK /\ Chunked!CostOfChunkedMisuse

LEMMA GoodBlockIs ==
  ASSUME NEW m, NEW els, NEW szs, NEW num, NEW bs, GoodBlocks(m, els, szs, num, bs), NEW b \in 1 .. num
  PROVE  /\ num \in Nat /\ Len(szs) \in Nat /\ num <= Len(szs)
         /\ b \in 1 .. Len(bs) /\ b \in 1 .. Len(szs) /\ b \in Nat \ {0} /\ BlockOf(bs, b) = bs[b]
         /\ BlockFits(els.begin + Off(b)) /\ els.begin \in Nat /\ Off(b) \in Nat
         /\ bs[b] \in Seq(Values) /\ bs[b] \in Seq(Alive) /\ Len(bs[b]) \in 0 .. BlockSize /\ szs[b] = Len(bs[b])
         /\ BlockIs(m, els.begin + Off(b), bs[b])
<1>1. IsBlocks(bs) /\ Len(bs) = num /\ num <= Len(szs) /\ szs \in Seq(Nat \cup {"raw"}) /\ LiesAt(els.begin, Len(szs))
  BY DEF GoodBlocks
<1>2. num \in Nat /\ Len(szs) \in Nat
  BY <1>1 DEF IsBlocks
<1>3. b \in 1 .. Len(bs) /\ b \in 1 .. Len(szs) /\ b \in Nat \ {0}
  BY <1>1, <1>2
<1>4. BlockOf(bs, b) = bs[b]
  BY <1>3 DEF BlockOf
<1>5. BlockOf(bs, b) \in Seq(Values) /\ BlockOf(bs, b) \in Seq(Alive) /\ Len(BlockOf(bs, b)) \in 0 .. BlockSize
  BY <1>1, <1>3, BlocksAre
<1>6. BlockFits(els.begin + Off(b)) /\ els.begin \in Nat /\ Off(b) \in Nat
  BY <1>1, <1>3, BlocksLie
<1>7. BlockIs(m, els.begin + Off(b), BlockOf(bs, b))
  BY <1>3 DEF GoodBlocks, Laid
<1>8. szs[b] = Len(bs[b])
  BY DEF GoodBlocks
<1> QED
  BY <1>1, <1>2, <1>3, <1>4, <1>5, <1>6, <1>7, <1>8

\* The elements of a block, as the accessors find them.
Found(m, els, szs, b) == Held(m, els.begin + BlockSize * (b - 1), els.begin + BlockSize * (b - 1) + szs[(b - 1) + 1])

LEMMA FoundBlock ==
  ASSUME NEW m, Clean(m), NEW els, NEW b \in Nat \ {0}, BlockFits(els.begin + Off(b)),
         NEW t \in Seq(Alive), Len(t) <= BlockSize, BlockIs(m, els.begin + Off(b), t), NEW szs, szs[b] = Len(t)
  PROVE  Found(m, els, szs, b) = t
<1>1. Held(m, els.begin + Off(b), els.begin + Off(b) + Len(t)) = t
  BY HeldIn
<1>2. b - 1 \in Nat /\ (b - 1) + 1 = b
  OBVIOUS
<1>3. BlockSize * (b - 1) = Off(b)
  BY <1>2, OffIs
<1> QED
  BY <1>1, <1>2, <1>3 DEF Found

LEMMA ContentsFound ==
  /\ Chunked!Contents = [b \in 1 .. blockNum |-> Found(mem, elements, sizes, b)]
  /\ Chunked!Contents' = [b \in 1 .. blockNum' |-> Found(mem', elements', sizes', b)]
<1>1. \A m, lo, hi : Chunked!Held(m, lo, hi) = Held(m, lo, hi)
  BY SameOperators
<1> QED
  BY <1>1 DEF Chunked!Contents, Chunked!BlockValue, Found

LEMMA AllFound ==
  ASSUME NEW m, Clean(m), NEW bs, IsBlocks(bs), NEW els, NEW n, LiesAt(els.begin, n), Laid(m, els.begin, n, bs), Len(bs) <= n,
         NEW szs, \A b \in 1 .. Len(bs) : szs[b] = Len(bs[b])
  PROVE  [b \in 1 .. Len(bs) |-> Found(m, els, szs, b)] = bs
<1> SUFFICES ASSUME NEW b \in 1 .. Len(bs) PROVE Found(m, els, szs, b) = bs[b]
  <2> DEFINE f == [b \in 1 .. Len(bs) |-> Found(m, els, szs, b)]
  <2>1. bs \in Seq(Seq(Values))
    BY DEF IsBlocks
  <2>2. bs = [b \in 1 .. Len(bs) |-> bs[b]]
    BY <2>1
  <2> QED
    BY <2>2, Zenon
<1>1. Len(bs) \in Nat /\ n \in Nat
  BY BlocksLie DEF IsBlocks
<1>2. b \in 1 .. n /\ b \in Nat \ {0}
  BY <1>1
<1>3. BlockOf(bs, b) = bs[b]
  BY DEF BlockOf
<1>4. BlockOf(bs, b) \in Seq(Alive) /\ Len(BlockOf(bs, b)) <= BlockSize
  BY <1>2, BlocksAre, ChunkedAssumption
<1>5. BlockIs(m, els.begin + Off(b), BlockOf(bs, b)) /\ BlockFits(els.begin + Off(b))
  BY <1>2, BlocksLie DEF Laid
<1> QED
  BY <1>2, <1>3, <1>4, <1>5, FoundBlock

\* The slots of the elements of the first b blocks.
Living(e, bs, b) == {x \in Address : \E c \in 1 .. b : e + Off(c) <= x /\ x < e + Off(c) + Len(bs[c])}

LEMMA AliveIsLiving ==
  ASSUME NEW m, NEW e, NEW n, LiesAt(e, n), NEW bs, IsBlocks(bs), Len(bs) <= n, Laid(m, e, n, bs)
  PROVE  \A x \in Address : m.slot[x] \in Alive <=> x \in Living(e, bs, Len(bs))
<1>1. e \in Nat /\ n \in Nat /\ Len(bs) \in Nat /\ BlockSize \in Nat
  BY BlocksLie DEF IsBlocks
<1> SUFFICES ASSUME NEW x \in Address PROVE m.slot[x] \in Alive <=> x \in Living(e, bs, Len(bs))
  OBVIOUS
<1>2. x \in Int
  BY AddressType
<1>3. ASSUME m.slot[x] \in Alive PROVE x \in Living(e, bs, Len(bs))
  <2>1. m.slot[x] # "free" /\ m.slot[x] # "raw"
    BY <1>3, SlotsDiffer
  <2>2. Inside(e, n, x)
    BY <2>1 DEF Laid
  <2>3. PICK c \in 1 .. n : InBlock(e + Off(c), x)
    BY <1>1, <1>2, <2>2, SomeBlock
  <2> DEFINE p == e + Off(c)
             t == BlockOf(bs, c)
  <2>4. BlockIs(m, p, t) /\ InBlock(p, x) /\ BlockFits(p)
    BY <2>3, BlocksLie DEF Laid
  <2>5. t \in Seq(Values) /\ Len(t) \in Nat
    BY BlocksAre, <1>1
  <2>6. p <= x /\ x < p + Len(t)
    <3> HIDE DEF p, t
    <3> QED
      BY <2>1, <2>4 DEF BlockIs, InBlock
  <2>7. c \in 1 .. Len(bs)
    <3>1. CASE c \notin 1 .. Len(bs)
      <4>1. t = <<>> /\ Len(<<>>) = 0 /\ p \in Nat
        BY <2>4, <3>1 DEF BlockOf, BlockFits
      <4> HIDE DEF p, t
      <4> QED
        BY <1>2, <2>6, <4>1
    <3> QED
      BY <3>1
  <2>8. t = bs[c]
    BY <2>7 DEF BlockOf
  <2> QED
    BY <2>6, <2>7, <2>8 DEF Living
<1>4. ASSUME x \in Living(e, bs, Len(bs)) PROVE m.slot[x] \in Alive
  <2>1. PICK c \in 1 .. Len(bs) : e + Off(c) <= x /\ x < e + Off(c) + Len(bs[c])
    BY <1>4 DEF Living
  <2> DEFINE p == e + Off(c)
             t == bs[c]
  <2>2. c \in 1 .. n /\ c \in Nat \ {0} /\ BlockOf(bs, c) = t
    BY <1>1 DEF BlockOf
  <2>3. BlockOf(bs, c) \in Seq(Alive) /\ Len(BlockOf(bs, c)) \in 0 .. BlockSize
    BY <2>2, BlocksAre
  <2>4. BlockIs(m, p, BlockOf(bs, c)) /\ BlockFits(p)
    BY <2>2, BlocksLie DEF Laid
  <2>5. t \in Seq(Alive) /\ Len(t) \in 0 .. BlockSize /\ BlockIs(m, p, t)
    BY <2>2, <2>3, <2>4
  <2> HIDE DEF p, t
  <2>6. p <= x /\ x < p + Len(t) /\ p \in Nat
    BY <2>1, <2>4 DEF p, t, BlockFits
  <2>7. InBlock(p, x) /\ x - p + 1 \in 1 .. Len(t)
    BY <1>1, <1>2, <2>5, <2>6 DEF InBlock
  <2>8. m.slot[x] = t[x - p + 1]
    BY <2>5, <2>6, <2>7 DEF BlockIs
  <2> QED
    BY <2>5, <2>7, <2>8
<1> QED
  BY <1>3, <1>4

LEMMA LivingCounts ==
  ASSUME NEW e, NEW n, LiesAt(e, n), NEW bs, IsBlocks(bs), Len(bs) <= n
  PROVE  /\ Cardinality(Living(e, bs, 0)) = 0
         /\ \A b \in 1 .. Len(bs) : Cardinality(Living(e, bs, b)) = Cardinality(Living(e, bs, b - 1)) + Len(bs[b])
<1>1. e \in Nat /\ n \in Nat /\ Len(bs) \in Nat /\ BlockSize \in Nat
  BY BlocksLie DEF IsBlocks
<1>2. Cardinality(Living(e, bs, 0)) = 0
  <2>1. Living(e, bs, 0) = {}
    BY DEF Living
  <2> QED
    BY <2>1, FS_EmptySet
<1>3. IsFiniteSet(Address)
  <2>1. Address = Stride .. Stride * (Places + 1) - 1 /\ Stride \in Int /\ Stride * (Places + 1) - 1 \in Int
    BY MemoryAssumption, SMT DEF Address, Stride
  <2> QED
    BY <2>1, FS_Interval
<1>4. \A b \in Nat : IsFiniteSet(Living(e, bs, b)) /\ Cardinality(Living(e, bs, b)) \in Nat
  <2> SUFFICES ASSUME NEW b \in Nat PROVE IsFiniteSet(Living(e, bs, b)) /\ Cardinality(Living(e, bs, b)) \in Nat
    OBVIOUS
  <2>1. Living(e, bs, b) \in SUBSET Address
    BY DEF Living
  <2>2. IsFiniteSet(Living(e, bs, b))
    BY <1>3, <2>1, FS_Subset
  <2> QED
    BY <2>2, FS_CardinalityType
<1>5. ASSUME NEW b \in 1 .. Len(bs)
      PROVE  Cardinality(Living(e, bs, b)) = Cardinality(Living(e, bs, b - 1)) + Len(bs[b])
  <2> DEFINE p == e + Off(b)
             l == Len(bs[b])
             A == Living(e, bs, b - 1)
             I == p .. p + l - 1
  <2>1. b \in 1 .. n /\ b \in Nat \ {0} /\ b - 1 \in Nat /\ BlockOf(bs, b) = bs[b]
    BY <1>1 DEF BlockOf
  <2>2. Len(BlockOf(bs, b)) \in 0 .. BlockSize
    BY <2>1, BlocksAre
  <2>3. l \in 0 .. BlockSize /\ BlockFits(p)
    BY <2>1, <2>2, BlocksLie
  <2>4. \A x : x \in I <=> x \in Int /\ p <= x /\ x < p + l
    <3> HIDE DEF p, l
    <3> QED
      BY <2>3 DEF BlockFits
  <2>5. \A x \in I : x \in Address /\ InBlock(p, x)
    <3> HIDE DEF p, l, I
    <3> QED
      BY <1>1, <2>3, <2>4 DEF BlockFits, InBlock
  <2>6. Living(e, bs, b) = A \cup I
    <3>1. ASSUME NEW x \in Address PROVE x \in Living(e, bs, b) <=> x \in A \/ x \in I
      <4>1. \A c : c \in 1 .. b <=> c \in 1 .. b - 1 \/ c = b
        BY <2>1
      <4>2. x \in I <=> p <= x /\ x < p + l
        BY <2>4, AddressType
      <4> QED
        BY <4>1, <4>2 DEF Living
    <3>2. \A x : x \in Living(e, bs, b) \/ x \in A => x \in Address
      BY DEF Living
    <3> HIDE DEF A, I
    <3> QED
      BY <2>5, <3>1, <3>2
  <2>7. A \cap I = {}
    <3> SUFFICES ASSUME NEW x \in A, x \in I PROVE FALSE
      OBVIOUS
    <3>1. PICK c \in 1 .. b - 1 : e + Off(c) <= x /\ x < e + Off(c) + Len(bs[c])
      BY DEF Living
    <3>2. c \in Nat \ {0} /\ c \in 1 .. Len(bs) /\ c # b
      BY <1>1, <2>1
    <3>3. BlockOf(bs, c) = bs[c] /\ Len(BlockOf(bs, c)) \in 0 .. BlockSize
      BY <3>2, BlocksAre DEF BlockOf
    <3>4. x \in Int /\ Len(bs[c]) \in 0 .. BlockSize /\ e + Off(c) \in Nat
      <4>1. Off(c) \in Nat
        BY <3>2, OffIs
      <4> QED
        BY <1>1, <2>4, <3>3, <4>1
    <3> DEFINE q == e + Off(c)
               d == Len(bs[c])
    <3>5. InBlock(q, x)
      <4>1. q <= x /\ x < q + d /\ q \in Nat /\ d \in 0 .. BlockSize
        BY <3>1, <3>4
      <4> HIDE DEF q, d
      <4> QED
        BY <1>1, <3>4, <4>1 DEF InBlock
    <3> QED
      BY <1>1, <2>1, <2>5, <3>2, <3>4, <3>5, BlocksApart
  <2>8. IsFiniteSet(I) /\ Cardinality(I) = l
    <3>1. p \in Int /\ p + l - 1 \in Int /\ l \in Nat
      BY <1>1, <2>3 DEF BlockFits
    <3> HIDE DEF p, l
    <3>2. IsFiniteSet(I) /\ Cardinality(I) = IF p > p + l - 1 THEN 0 ELSE (p + l - 1) - p + 1
      BY <3>1, FS_Interval
    <3> QED
      BY <3>1, <3>2
  <2>9. IsFiniteSet(A) /\ Cardinality(A) \in Nat
    BY <1>4, <2>1
  <2> HIDE DEF A, I, l
  <2>10. Cardinality(A \cup I) = Cardinality(A) + Cardinality(I) - Cardinality(A \cap I)
    BY <2>8, <2>9, FS_Union
  <2>11. Cardinality(A \cap I) = 0
    BY <2>7, FS_EmptySet
  <2>12. l \in Nat
    BY <1>1, <2>3
  <2> QED
    BY <2>6, <2>8, <2>9, <2>10, <2>11, <2>12 DEF A, l
<1> QED
  BY <1>2, <1>5

LEMMA ValueNumIs ==
  ASSUME GoodBlocks(mem, elements, sizes, blockNum, blocks)
  PROVE  Chunked!ValueNum = Cardinality(Living(elements.begin, blocks, blockNum))
<1> DEFINE e == elements.begin
           Is(f) == f = [b \in 0 .. blockNum |-> IF b = 0 THEN 0 ELSE f[b - 1] + sizes[b]]
           num == CHOOSE f : Is(f)
           g == [b \in 0 .. blockNum |-> Cardinality(Living(e, blocks, b))]
<1>1. Chunked!ValueNum = num[blockNum]
  BY DEF Chunked!ValueNum
<1>2. /\ Cardinality(Living(e, blocks, 0)) = 0 /\ blockNum \in Nat
      /\ \A b \in 1 .. blockNum : Cardinality(Living(e, blocks, b)) = Cardinality(Living(e, blocks, b - 1)) + Len(blocks[b])
  <2>1. IsBlocks(blocks) /\ LiesAt(e, Len(sizes)) /\ Len(blocks) <= Len(sizes) /\ Len(blocks) = blockNum
    BY DEF GoodBlocks
  <2>2. blockNum \in Nat
    BY <2>1 DEF IsBlocks
  <2> HIDE DEF e
  <2> QED
    BY <2>1, <2>2, LivingCounts
<1>3. \A b \in 1 .. blockNum : sizes[b] = Len(blocks[b])
  BY DEF GoodBlocks
<1> HIDE DEF e
<1>4. \A b \in 0 .. blockNum : g[b] = IF b = 0 THEN 0 ELSE g[b - 1] + sizes[b]
  <2> SUFFICES ASSUME NEW b \in 0 .. blockNum PROVE g[b] = IF b = 0 THEN 0 ELSE g[b - 1] + sizes[b]
    OBVIOUS
  <2>1. CASE b = 0
    BY <1>2, <2>1
  <2>2. CASE b # 0
    <3>1. b \in 1 .. blockNum /\ b - 1 \in 0 .. blockNum
      BY <1>2, <2>2
    <3> QED
      BY <1>2, <1>3, <2>2, <3>1
  <2> QED
    BY <2>1, <2>2
<1>5. g = [b \in 0 .. blockNum |-> g[b]]
  OBVIOUS
<1>6. g[blockNum] = Cardinality(Living(e, blocks, blockNum))
  BY <1>2
<1> HIDE DEF g
<1>7. Is(g)
  BY <1>4, <1>5
<1> HIDE DEF Is
<1>8. Is(num)
  BY <1>7
<1> HIDE DEF num
<1>9. num = [b \in 0 .. blockNum |-> IF b = 0 THEN 0 ELSE num[b - 1] + sizes[b]]
  BY <1>8 DEF Is
<1>10. \A b \in 0 .. blockNum : num[b] = IF b = 0 THEN 0 ELSE num[b - 1] + sizes[b]
  BY <1>9
<1> DEFINE P == {b \in 0 .. blockNum : num[b] = g[b]}
<1>11. 0 \in P
  BY <1>2, <1>4, <1>10
<1>12. \A b \in 0 .. blockNum - 1 : b \in P => b + 1 \in P
  <2> SUFFICES ASSUME NEW b \in 0 .. blockNum - 1, b \in P PROVE b + 1 \in P
    OBVIOUS
  <2>1. b + 1 \in 0 .. blockNum /\ b + 1 # 0 /\ (b + 1) - 1 = b /\ num[b] = g[b]
    BY <1>2
  <2>2. num[b + 1] = num[b] + sizes[b + 1] /\ g[b + 1] = g[b] + sizes[b + 1]
    BY <1>4, <1>10, <2>1
  <2> QED
    BY <2>1, <2>2
<1> HIDE DEF P
<1>13. blockNum \in P
  <2>1. blockNum \in 0 .. blockNum
    BY <1>2
  <2> QED
    BY <1>2, <1>11, <1>12, <2>1, CountUp
<1> QED
  BY <1>1, <1>6, <1>13 DEF P, e


LEMMA ChunkedCardinality == \A S : Chunked!Cardinality(S) = Cardinality(S)
BY DEF Chunked!Cardinality, Cardinality

LEMMA BlocksRight ==
  ASSUME GoodBlocks(mem, elements, sizes, blockNum, blocks)
  PROVE  Chunked!BlocksAreRight
<1> DEFINE e == elements.begin
<1>1. /\ Clean(mem) /\ IsBlocks(blocks) /\ Len(blocks) = blockNum /\ Len(blocks) <= Len(sizes)
      /\ LiesAt(e, Len(sizes)) /\ ChunkAt(elements, e, Len(sizes)) /\ Laid(mem, e, Len(sizes), blocks)
      /\ \A b \in 1 .. Len(blocks) : sizes[b] = Len(blocks[b])
  BY DEF GoodBlocks
<1>2. Chunked!Contents = blocks
  <2>1. [b \in 1 .. Len(blocks) |-> Found(mem, elements, sizes, b)] = blocks
    BY <1>1, AllFound
  <2> QED
    BY <1>1, <2>1, ContentsFound
<1>3. \A x \in Address : mem.slot[x] \in Alive <=> x \in Living(e, blocks, blockNum)
  <2> HIDE DEF e
  <2> QED
    BY <1>1, AliveIsLiving
<1>4. Chunked!ValueNum = Cardinality({a \in Address : mem.slot[a] \in Alive})
  <2>1. \A x \in Living(e, blocks, blockNum) : x \in Address
    BY DEF Living
  <2>2. {a \in Address : mem.slot[a] \in Alive} = Living(e, blocks, blockNum)
    <3> HIDE DEF e
    <3> QED
      BY <1>3, <2>1
  <2> QED
    BY <2>2, ValueNumIs
<1>5. ASSUME NEW a \in Address
      PROVE  mem.slot[a] \in Alive <=> \E b \in 1 .. blockNum : a \in Span(Chunked!Block(b).begin, Chunked!Block(b).end)
  <2>1. \A b \in 1 .. blockNum : Chunked!Block(b).begin = e + Off(b) /\ Chunked!Block(b).end = e + Off(b) + Len(blocks[b])
    BY <1>1 DEF Chunked!Block, Off
  <2>2. ASSUME NEW b \in 1 .. blockNum
        PROVE  a \in Span(Chunked!Block(b).begin, Chunked!Block(b).end) <=> e + Off(b) <= a /\ a < e + Off(b) + Len(blocks[b])
    <3>1. b \in 1 .. Len(blocks) /\ b \in Nat \ {0} /\ BlockOf(blocks, b) = blocks[b]
      BY <1>1 DEF BlockOf, IsBlocks
    <3>2. e \in Nat /\ Off(b) \in Nat
      BY <1>1, <3>1, BlocksLie, OffIs
    <3>3. Len(BlockOf(blocks, b)) \in 0 .. BlockSize
      BY <1>1, <3>1, BlocksAre
    <3> DEFINE p == e + Off(b)
               l == Len(blocks[b])
    <3>4. p \in Nat /\ l \in Int
      BY <3>1, <3>2, <3>3, ChunkedAssumption
    <3>5. Span(Chunked!Block(b).begin, Chunked!Block(b).end) = Span(p, p + l)
      BY <2>1
    <3>6. a \in Int
      BY AddressType
    <3> HIDE DEF p, l
    <3>7. a \in Span(p, p + l) <=> p <= a /\ a < p + l
      BY <3>4, <3>6 DEF Span
    <3> QED
      BY <3>5, <3>7 DEF p, l
  <2>3. a \in Living(e, blocks, blockNum) <=> \E b \in 1 .. blockNum : e + Off(b) <= a /\ a < e + Off(b) + Len(blocks[b])
    BY DEF Living
  <2> QED
    BY <1>3, <2>2, <2>3
<1>6. elements.end - elements.begin = BlockSize * Len(sizes)
  <2>1. e \in Nat /\ Len(sizes) \in Nat
    BY <1>1, BlocksLie
  <2>2. elements.end = e + Off(Len(sizes) + 1) /\ Off(Len(sizes) + 1) = BlockSize * Len(sizes) /\ Off(Len(sizes) + 1) \in Nat
    BY <1>1, <2>1, OffIs, BlocksLie DEF ChunkAt
  <2> QED
    BY <2>1, <2>2
<1>7. mem.faults = {}
  BY <1>1 DEF Clean
<1>8. \A lo, hi : Chunked!Span(lo, hi) = Span(lo, hi)
  BY SameOperators
<1>9. Chunked!Address = Address /\ Chunked!Alive = Alive
  BY SameTypes
<1> HIDE DEF e
<1> QED
  BY <1>2, <1>4, <1>5, <1>6, <1>7, <1>8, <1>9, ChunkedCardinality DEF Chunked!BlocksAreRight

\* What the types say, of a memory and of a number of blocks.
LEMMA ChunkedTypeIs ==
  /\ Chunked!ChunkedTypeOK <=>
       /\ IsMemory(mem) /\ blockNum \in 0 .. MaxBlocks
       /\ misuse = {} => blockNum <= Len(sizes) /\ \A b \in 1 .. blockNum : sizes[b] \in 0 .. BlockSize
  /\ Chunked!ChunkedTypeOK' <=>
       /\ IsMemory(mem') /\ blockNum' \in 0 .. MaxBlocks
       /\ misuse' = {} => blockNum' <= Len(sizes') /\ \A b \in 1 .. blockNum' : sizes'[b] \in 0 .. BlockSize
<1>1. Chunked!Address = Address /\ {"free", "raw"} \cup Chunked!Alive = Slots /\ Chunked!Faults = Faults
  BY SameTypes DEF Slots
<1> QED
  BY <1>1 DEF Chunked!ChunkedTypeOK, IsMemory

LEMMA ChunkedInvRight ==
  ASSUME ChunkedInv
  PROVE  Chunked!ChunkedTypeOK /\ Chunked!RightUnlessMisused /\ Chunked!CostOfChunkedMisuse
<1>1. CASE misuse # {}
  BY <1>1 DEF ChunkedInv, Chunked!RightUnlessMisused
<1>2. CASE misuse = {}
  <2>1. GoodBlocks(mem, elements, sizes, blockNum, blocks)
    BY <1>2 DEF ChunkedInv
  <2>2. Chunked!RightUnlessMisused
    BY <2>1, BlocksRight DEF Chunked!RightUnlessMisused
  <2>3. Chunked!CostOfChunkedMisuse
    BY <1>2 DEF Chunked!CostOfChunkedMisuse
  <2>4. IsMemory(mem) /\ blockNum \in 0 .. MaxBlocks /\ blockNum <= Len(sizes)
    <3>1. Clean(mem) /\ Len(blocks) = blockNum /\ IsBlocks(blocks) /\ blockNum <= MaxBlocks /\ blockNum <= Len(sizes)
      BY <2>1 DEF GoodBlocks
    <3>2. blockNum \in Nat
      BY <3>1 DEF IsBlocks
    <3> QED
      BY <3>1, <3>2, CleanMemory, ChunkedAssumption
  <2>5. \A b \in 1 .. blockNum : sizes[b] \in 0 .. BlockSize
    BY <2>1, GoodBlockIs
  <2> QED
    BY <2>2, <2>3, <2>4, <2>5, ChunkedTypeIs
<1> QED
  BY <1>1, <1>2

LEMMA ChunkedInitInv == Chunked!ChunkedInit => ChunkedInv
<1> SUFFICES ASSUME Chunked!ChunkedInit PROVE ChunkedInv
  OBVIOUS
<1>1. /\ mem = EmptyMemory /\ elements = NullChunk /\ sizes = <<>> /\ blockNum = 0
      /\ handle = Chunked!NoHandle /\ blocks = <<>> /\ misuse = {}
  BY SameTypes DEF Chunked!ChunkedInit
<1>2. Clean(mem) /\ \A x \in Address : mem.slot[x] = "free"
  BY <1>1 DEF EmptyMemory, Clean, Slots
<1>3. elements.begin = Null /\ elements.end = Null /\ Len(sizes) = 0 /\ Off(1) = 0
  BY <1>1, OffIs DEF NullChunk
<1>4. LiesAt(Null, 0) /\ ChunkAt(elements, Null, 0)
  BY <1>3, MemoryAssumption DEF LiesAt, ChunkAt, Null
<1>5. Laid(mem, Null, 0, blocks)
  BY <1>2 DEF Laid
<1>6. IsBlocks(blocks) /\ Len(blocks) = 0 /\ sizes \in Seq(Nat \cup {"raw"}) /\ 0 <= MaxBlocks
  BY <1>1, ChunkedAssumption DEF IsBlocks
<1>7. GoodBlocks(mem, elements, sizes, blockNum, blocks)
  BY <1>1, <1>2, <1>3, <1>4, <1>5, <1>6 DEF GoodBlocks
<1> QED
  BY <1>1, <1>7 DEF ChunkedInv, HandleOK

-----------------------------------------------------------------------------
(* Blocks: the operations *)

LEMMA OneBlockChanged ==
  ASSUME NEW m, NEW els, NEW szs, NEW num, NEW bs, GoodBlocks(m, els, szs, num, bs), NEW b \in 1 .. num,
         NEW k, NEW t \in Seq(Values), Len(t) <= BlockSize, Changed(m, k, els.begin + Off(b), t)
  PROVE  GoodBlocks(k, els, [szs EXCEPT ![b] = Len(t)], num, [bs EXCEPT ![b] = t])
<1> DEFINE cs == [bs EXCEPT ![b] = t]
           zs == [szs EXCEPT ![b] = Len(t)]
           n == Len(szs)
<1>1. /\ IsBlocks(bs) /\ Len(bs) = num /\ num <= MaxBlocks /\ szs \in Seq(Nat \cup {"raw"}) /\ num <= n
      /\ \A d \in 1 .. num : szs[d] = Len(bs[d])
      /\ LiesAt(els.begin, n) /\ ChunkAt(els, els.begin, n) /\ Laid(m, els.begin, n, bs)
  BY DEF GoodBlocks
<1>2. num \in Nat /\ n \in Nat /\ b \in 1 .. Len(bs) /\ b \in 1 .. n /\ Len(t) \in Nat
  BY GoodBlockIs
<1>3. cs \in Seq(Seq(Values)) /\ Len(cs) = num /\ \A d \in 1 .. num : cs[d] = IF d = b THEN t ELSE bs[d]
  BY <1>1, <1>2 DEF IsBlocks
<1>4. zs \in Seq(Nat \cup {"raw"}) /\ Len(zs) = n /\ \A d \in 1 .. n : zs[d] = IF d = b THEN Len(t) ELSE szs[d]
  BY <1>1, <1>2
<1>5. IsBlocks(cs)
  BY <1>1, <1>3 DEF IsBlocks
<1>6. \A d \in 1 .. n : BlockOf(cs, d) = IF d = b THEN t ELSE BlockOf(bs, d)
  BY <1>1, <1>2, <1>3 DEF BlockOf
<1> HIDE DEF cs, zs, n
<1>7. Laid(k, els.begin, n, cs)
  BY <1>1, <1>2, <1>6, Rewritten
<1>8. ASSUME NEW d \in 1 .. num PROVE zs[d] = Len(cs[d])
  <2>1. d \in 1 .. n
    BY <1>1, <1>2
  <2>2. szs[d] = Len(bs[d]) /\ cs[d] = (IF d = b THEN t ELSE bs[d]) /\ zs[d] = IF d = b THEN Len(t) ELSE szs[d]
    BY <1>1, <1>3, <1>4, <2>1
  <2> QED
    BY <2>2
<1>9. Clean(k)
  BY DEF Changed
<1>10. GoodBlocks(k, els, zs, num, cs)
  BY <1>1, <1>3, <1>4, <1>5, <1>7, <1>8, <1>9 DEF GoodBlocks
<1> QED
  BY <1>10 DEF cs, zs

LEMMA BlockHandle ==
  ASSUME NEW b
  PROVE  Chunked!Block(b) = [block |-> b, begin |-> elements.begin + Off(b), end |-> elements.begin + Off(b) + sizes[b]]
BY DEF Chunked!Block, Off

LEMMA EmplaceInBlock ==
  ASSUME GoodBlocks(mem, elements, sizes, blockNum, blocks), NEW b \in 1 .. blockNum, NEW v \in Values,
         Chunked!Emplace(Chunked!Block(b), v), blocks' = [blocks EXCEPT ![b] = Append(@, v)]
  PROVE  GoodBlocks(mem', elements', sizes', blockNum', blocks')
<1> DEFINE p == elements.begin + Off(b)
           t == blocks[b]
           z == t \o <<v>>
<1>1. /\ blockNum \in Nat /\ BlockFits(p) /\ t \in Seq(Values) /\ t \in Seq(Alive) /\ Len(t) \in 0 .. BlockSize
      /\ sizes[b] = Len(t) /\ BlockIs(mem, p, t) /\ b \in 1 .. Len(sizes) /\ b \in 1 .. Len(blocks)
  BY GoodBlockIs
<1>2. Chunked!Block(b).block = b /\ Chunked!Block(b).begin = p /\ Chunked!Block(b).end = p + Len(t) /\ b <= blockNum
  BY <1>1, BlockHandle
<1>3. p + Len(t) # p + BlockSize /\ mem' = Chunked!Construct(mem, p + Len(t), <<v>>)
  BY <1>2 DEF Chunked!Emplace
<1>4. sizes' = [sizes EXCEPT ![b] = sizes[b] + 1] /\ elements' = elements /\ blockNum' = blockNum
  <2> DEFINE h == Chunked!Block(b)
  <2>1. Chunked!Emplace(h, v) /\ h.block = b /\ b <= blockNum
    BY <1>2
  <2> HIDE DEF h
  <2> QED
    BY <2>1 DEF Chunked!Emplace
<1>5. blocks' = [blocks EXCEPT ![b] = Append(t, v)]
  OBVIOUS
<1>6. Clean(mem) /\ p \in Nat /\ BlockSize \in Nat
  BY <1>1, ChunkedAssumption DEF GoodBlocks, BlockFits
<1>7. mem' = Construct(mem, p + Len(t), <<v>>)
  BY <1>3, SameOperators
<1> HIDE DEF p, t
<1>8. v \in Alive /\ <<v>> \in Seq(Alive) /\ Len(<<v>>) = 1
  BY DEF Alive
<1>9. Len(t) + 1 <= BlockSize
  <2> DEFINE l == Len(t)
  <2>1. l \in 0 .. BlockSize /\ p + l # p + BlockSize /\ p \in Nat /\ BlockSize \in Nat
    BY <1>1, <1>3, <1>6
  <2> HIDE DEF l
  <2>2. l + 1 <= BlockSize
    BY <2>1
  <2> QED
    BY <2>2 DEF l
<1>10. Changed(mem, mem', p, z)
  BY <1>1, <1>6, <1>7, <1>8, <1>9, ConstructedIn
<1>11. z = Append(t, v) /\ z \in Seq(Values) /\ Len(z) = Len(t) + 1
  BY <1>1
<1> HIDE DEF z
<1>12. GoodBlocks(mem', elements, [sizes EXCEPT ![b] = Len(z)], blockNum, [blocks EXCEPT ![b] = z])
  <2>1. Changed(mem, mem', elements.begin + Off(b), z) /\ Len(z) <= BlockSize /\ z \in Seq(Values)
    BY <1>9, <1>10, <1>11 DEF p
  <2> QED
    BY <2>1, OneBlockChanged
<1> QED
  BY <1>1, <1>4, <1>5, <1>11, <1>12

LEMMA BlockPushBackKeeps ==
  ASSUME GoodBlocks(mem, elements, sizes, blockNum, blocks), HandleOK(handle), NEW b \in 1 .. MaxBlocks, NEW v \in Values,
         Chunked!PushBack(b, v)
  PROVE  GoodBlocks(mem', elements', sizes', blockNum', blocks') /\ HandleOK(handle') /\ misuse' = misuse
<1>1. b <= blockNum /\ Chunked!Emplace(Chunked!Block(b), v) /\ handle' = handle /\ misuse' = misuse
  BY DEF Chunked!PushBack
<1>2. blocks' = [blocks EXCEPT ![b] = Append(@, v)]
  BY <1>1 DEF Chunked!PushBack, Chunked!Append1
<1>3. b \in 1 .. blockNum
  BY <1>1 DEF GoodBlocks, IsBlocks
<1> QED
  BY <1>1, <1>2, <1>3, EmplaceInBlock

LEMMA KeepKeeps ==
  ASSUME GoodBlocks(mem, elements, sizes, blockNum, blocks), NEW b \in 1 .. MaxBlocks, Chunked!Keep(b)
  PROVE  GoodBlocks(mem', elements', sizes', blockNum', blocks') /\ HandleOK(handle') /\ misuse' = misuse
<1>1. b <= blockNum /\ handle' = Chunked!Block(b) /\ misuse' = misuse
  BY DEF Chunked!Keep
<1>2. GoodBlocks(mem', elements', sizes', blockNum', blocks')
  BY DEF Chunked!Keep
<1>3. b \in 1 .. blockNum
  BY <1>1 DEF GoodBlocks, IsBlocks
<1> DEFINE e == elements.begin
           h == Chunked!Block(b)
<1>4. /\ Len(sizes) \in Nat /\ b \in 1 .. Len(sizes) /\ sizes[b] \in 0 .. BlockSize /\ e \in Nat /\ Off(b) \in Nat
  BY <1>3, GoodBlockIs
<1>5. LiesAt(e, Len(sizes))
  BY DEF GoodBlocks
<1>6. Base(e) /\ Off(Len(sizes) + 1) <= MaxCap
  BY <1>4, <1>5 DEF LiesAt
<1>7. Off(b) + BlockSize <= Off(Len(sizes) + 1) /\ Off(Len(sizes) + 1) \in Nat
  BY <1>4, <1>5, BlocksLie
<1>8. h = [block |-> b, begin |-> e + Off(b), end |-> e + Off(b) + sizes[b]]
  BY BlockHandle
<1>9. e + Off(b) + sizes[b] \in e + Off(b) .. e + Off(b) + BlockSize
  BY <1>4, ChunkedAssumption
<1> HIDE DEF h, e
<1>10. Off(b) + BlockSize <= MaxCap
  BY <1>4, <1>6, <1>7, ChunkedAssumption, MemoryAssumption
<1>11. h.block = b /\ h.begin = e + Off(b) /\ h.end = e + Off(b) + sizes[b]
  BY <1>8
<1>12. h = [block |-> h.block, begin |-> h.begin, end |-> h.end]
  BY <1>8, <1>11
<1>13. HandleOK(h)
  BY <1>6, <1>9, <1>10, <1>11, <1>12 DEF HandleOK
<1> QED
  BY <1>1, <1>2, <1>13 DEF h

LEMMA BlockEraseKeeps ==
  ASSUME GoodBlocks(mem, elements, sizes, blockNum, blocks), HandleOK(handle), NEW b \in 1 .. MaxBlocks, NEW v \in Values,
         Chunked!BlockErase(b, v)
  PROVE  GoodBlocks(mem', elements', sizes', blockNum', blocks') /\ HandleOK(handle') /\ misuse' = misuse
<1>1. b <= blockNum /\ Chunked!EraseValue(b, Chunked!Value(v)) /\ misuse' = misuse
      /\ blocks' = [blocks EXCEPT ![b] = Chunked!Without(blocks[b], v)]
  BY DEF Chunked!BlockErase
<1>2. b \in 1 .. blockNum
  BY <1>1 DEF GoodBlocks, IsBlocks
<1> DEFINE p == elements.begin + Off(b)
           t == blocks[b]
           r == Chunked!Removed(t, Chunked!Value(v))
           q == r.s
           z == Chunked!Without(t, v)
<1>3. /\ blockNum \in Nat /\ BlockFits(p) /\ t \in Seq(Values) /\ t \in Seq(Alive) /\ Len(t) \in 0 .. BlockSize
      /\ sizes[b] = Len(t) /\ BlockIs(mem, p, t) /\ b \in 1 .. Len(sizes) /\ b \in 1 .. Len(blocks) /\ Clean(mem)
  BY <1>2, GoodBlockIs DEF GoodBlocks
<1>4. Chunked!Block(b).begin = p /\ Chunked!Block(b).end = p + Len(t)
  BY <1>3, BlockHandle
<1>5. Chunked!Held(mem, p, p + Len(t)) = t
  <2> HIDE DEF p, t
  <2>1. Held(mem, p, p + Len(t)) = t
    BY <1>3, HeldIn, ChunkedAssumption
  <2> QED
    BY <2>1, SameOperators
<1>6. mem' = Chunked!Destroy(Chunked!Assign(mem, p, q), p + r.next - 1, p + Len(t))
  BY <1>1, <1>4, <1>5 DEF Chunked!EraseValue
<1>7. sizes' = [sizes EXCEPT ![b] = r.next - 1] /\ elements' = elements /\ blockNum' = blockNum /\ handle' = handle
  BY <1>1, <1>4, <1>5 DEF Chunked!EraseValue
<1>8. mem' = Destroy(Assign(mem, p, q), p + r.next - 1, p + Len(t))
  BY <1>6, SameOperators
<1> HIDE DEF p, t
<1>9. r \in Removals(Len(t)) /\ KeptSome(r, t, Len(t)) /\ Matches(r, z, t, Len(t))
  BY <1>3, RemovalKeeps, RemovalMatches
<1> HIDE DEF r, z
<1>10. r.next \in 1 .. Len(t) + 1
  BY <1>9 DEF KeptSome
<1>11. Changed(mem, mem', p, SubSeq(q, 1, r.next - 1)) /\ q \in Seq(Alive) /\ Len(q) = Len(t)
  BY <1>3, <1>8, <1>9, <1>10, ErasedIn, ChunkedAssumption
<1>12. z \in Seq(Values) /\ Len(z) <= Len(t) /\ r.next = Len(z) + 1 /\ \A k \in 1 .. Len(z) : q[k] = z[k]
  BY <1>9 DEF Matches
<1> HIDE DEF q
<1>13. Len(z) \in Nat /\ Len(t) \in Nat /\ r.next - 1 = Len(z) /\ Len(z) <= BlockSize
  BY <1>3, <1>12, ChunkedAssumption
<1>14. SubSeq(q, 1, Len(z)) = z
  <2>1. Len(z) \in 0 .. Len(q)
    BY <1>11, <1>12, <1>13
  <2>2. /\ SubSeq(q, 1, Len(z)) \in Seq(Alive) /\ Len(SubSeq(q, 1, Len(z))) = Len(z)
        /\ \A i \in 1 .. Len(z) : SubSeq(q, 1, Len(z))[i] = q[i]
    BY <1>11, <2>1, PrefixIs
  <2> DEFINE y == SubSeq(q, 1, Len(z))
  <2>3. y \in Seq(Alive) /\ Len(y) = Len(z) /\ \A i \in 1 .. Len(z) : y[i] = z[i]
    BY <1>12, <2>2
  <2> HIDE DEF y
  <2>4. y = z
    BY <1>12, <2>3
  <2> QED
    BY <2>4 DEF y
<1>15. Changed(mem, mem', elements.begin + Off(b), z)
  BY <1>11, <1>13, <1>14 DEF p
<1>16. GoodBlocks(mem', elements, [sizes EXCEPT ![b] = Len(z)], blockNum, [blocks EXCEPT ![b] = z])
  BY <1>2, <1>12, <1>13, <1>15, OneBlockChanged
<1> QED
  BY <1>1, <1>7, <1>13, <1>16 DEF z, t


LEMMA BlockPopKeeps ==
  ASSUME GoodBlocks(mem, elements, sizes, blockNum, blocks), HandleOK(handle), Chunked!PopBlock
  PROVE  GoodBlocks(mem', elements', sizes', blockNum', blocks') /\ HandleOK(handle') /\ misuse' = misuse
<1> DEFINE n == Len(sizes)
           p == elements.begin + Off(blockNum)
           t == blocks[blockNum]
           cs == SubSeq(blocks, 1, blockNum - 1)
           zs == [sizes EXCEPT ![blockNum] = "raw"]
<1>1. /\ Clean(mem) /\ IsBlocks(blocks) /\ Len(blocks) = blockNum /\ blockNum <= MaxBlocks
      /\ sizes \in Seq(Nat \cup {"raw"}) /\ blockNum <= n /\ \A d \in 1 .. blockNum : sizes[d] = Len(blocks[d])
      /\ LiesAt(elements.begin, n) /\ ChunkAt(elements, elements.begin, n) /\ Laid(mem, elements.begin, n, blocks)
  BY DEF GoodBlocks
<1>2. blockNum \in 1 .. blockNum
  BY <1>1 DEF Chunked!PopBlock, IsBlocks
<1>3. /\ blockNum \in Nat /\ n \in Nat /\ BlockFits(p) /\ t \in Seq(Alive) /\ Len(t) \in 0 .. BlockSize
      /\ sizes[blockNum] = Len(t) /\ BlockIs(mem, p, t) /\ blockNum \in 1 .. n
  BY <1>2, GoodBlockIs
<1>4. Chunked!Block(blockNum).begin = p /\ Chunked!Block(blockNum).end = p + Len(t)
  BY <1>3, BlockHandle
<1>5. mem' = Chunked!Destroy(mem, p, p + Len(t)) /\ sizes' = zs /\ blockNum' = blockNum - 1
      /\ elements' = elements /\ handle' = handle /\ misuse' = misuse
  BY <1>4 DEF Chunked!PopBlock
<1>6. blocks' = cs
  BY <1>1 DEF Chunked!PopBlock, Chunked!Front
<1>7. Changed(mem, mem', p, <<>>)
  <2> HIDE DEF p, t
  <2>1. p + 0 = p /\ 0 \in 0 .. Len(t) /\ SubSeq(t, 1, 0) = <<>>
    BY <1>3 DEF BlockFits
  <2>2. mem' = Destroy(mem, p, p + Len(t))
    BY <1>5, SameOperators
  <2>3. Changed(mem, Destroy(mem, p + 0, p + Len(t)), p, SubSeq(t, 1, 0))
    BY <1>1, <1>3, <2>1, DestroyedIn, ChunkedAssumption
  <2> QED
    BY <2>1, <2>2, <2>3
<1>8. cs \in Seq(Seq(Values)) /\ Len(cs) = blockNum - 1 /\ \A d \in 1 .. blockNum - 1 : cs[d] = blocks[d]
  BY <1>1, <1>2, PrefixIs DEF IsBlocks
<1> HIDE DEF cs
<1>9. IsBlocks(cs)
  BY <1>1, <1>3, <1>8 DEF IsBlocks
<1>10. \A d \in 1 .. n : BlockOf(cs, d) = IF d = blockNum THEN <<>> ELSE BlockOf(blocks, d)
  <2> SUFFICES ASSUME NEW d \in 1 .. n PROVE BlockOf(cs, d) = IF d = blockNum THEN <<>> ELSE BlockOf(blocks, d)
    OBVIOUS
  <2>1. CASE d \in 1 .. blockNum - 1
    <3>1. d # blockNum /\ d \in 1 .. blockNum
      BY <1>3, <2>1
    <3> QED
      BY <1>1, <1>8, <2>1, <3>1 DEF BlockOf
  <2>2. CASE d = blockNum
    <3>1. d \notin 1 .. blockNum - 1
      BY <1>3, <2>2
    <3> QED
      BY <1>8, <2>2, <3>1 DEF BlockOf
  <2>3. CASE d \notin 1 .. blockNum - 1 /\ d # blockNum
    <3>1. d \notin 1 .. blockNum
      BY <1>3, <2>3
    <3> QED
      BY <1>1, <1>8, <2>3, <3>1 DEF BlockOf
  <2> QED
    BY <2>1, <2>2, <2>3
<1>11. Laid(mem', elements.begin, n, cs)
  <2> HIDE DEF n
  <2> QED
    BY <1>1, <1>3, <1>7, <1>10, Rewritten DEF p
<1>12. zs \in Seq(Nat \cup {"raw"}) /\ Len(zs) = n /\ \A d \in 1 .. n : zs[d] = IF d = blockNum THEN "raw" ELSE sizes[d]
  <2> DEFINE S == Nat \cup {"raw"}
             none == "raw"
  <2>1. none \in S /\ sizes \in Seq(S)
    BY <1>1
  <2> HIDE DEF S, none
  <2>2. [sizes EXCEPT ![blockNum] = none] \in Seq(S) /\ Len([sizes EXCEPT ![blockNum] = none]) = n
    BY <1>3, <2>1
  <2>3. \A d \in 1 .. n : [sizes EXCEPT ![blockNum] = none][d] = IF d = blockNum THEN none ELSE sizes[d]
    BY <1>3, <2>1
  <2> QED
    BY <2>2, <2>3 DEF S, none
<1> HIDE DEF zs, n
<1>13. ASSUME NEW d \in 1 .. blockNum - 1 PROVE zs[d] = Len(cs[d])
  <2>1. d \in 1 .. n /\ d \in 1 .. blockNum /\ d # blockNum
    BY <1>3
  <2> QED
    BY <1>1, <1>8, <1>12, <2>1
<1>14. Clean(mem') /\ blockNum - 1 <= MaxBlocks /\ blockNum - 1 <= n
  BY <1>1, <1>3, <1>7, ChunkedAssumption DEF Changed
<1>15. GoodBlocks(mem', elements, zs, blockNum - 1, cs)
  BY <1>1, <1>8, <1>9, <1>11, <1>12, <1>13, <1>14 DEF GoodBlocks
<1> QED
  BY <1>5, <1>6, <1>15

\* The allocation grows.
LEMMA ElementsGrown ==
  ASSUME GoodBlocks(mem, elements, sizes, blockNum, blocks), NEW c \in 1 .. MaxBlocks, blockNum <= c,
         Chunked!GrowElements(c)
  PROVE  /\ GrownSize(c) \in Nat /\ c <= GrownSize(c)
         /\ LiesAt(elements'.begin, GrownSize(c)) /\ ChunkAt(elements', elements'.begin, GrownSize(c))
         /\ Clean(mem') /\ Laid(mem', elements'.begin, GrownSize(c), blocks)
<1> DEFINE e == elements.begin
           n == Len(sizes)
           s == GrownSize(c)
           extent == s * BlockSize
           moves == Chunked!MoveBlocks
<1>1. /\ Clean(mem) /\ IsBlocks(blocks) /\ Len(blocks) = blockNum /\ blockNum <= n
      /\ \A d \in 1 .. blockNum : sizes[d] = Len(blocks[d])
      /\ LiesAt(e, n) /\ ChunkAt(elements, e, n) /\ Laid(mem, e, n, blocks)
  BY DEF GoodBlocks
<1>2. s \in Nat \ {0} /\ c <= s /\ s * BlockSize <= MaxCap
  <2>1. s \in c .. MaxCap /\ s * BlockSize <= MaxCap /\ c \in Nat \ {0}
    BY ChunkedAssumption
  <2> HIDE DEF s
  <2> QED
    BY <2>1, MemoryAssumption
<1>3. blockNum \in Nat /\ n \in Nat
  BY <1>1, BlocksLie DEF IsBlocks
<1>4. /\ mem' = Chunked!ChunkExpand(mem, elements, Chunked!GrownSize(c) * BlockSize, moves, <<>>)
      /\ elements' = Chunked!Placed(mem, Chunked!GrownSize(c) * BlockSize)
  BY DEF Chunked!GrowElements
<1>5. mem' = ChunkExpand(mem, elements, extent, moves, <<>>) /\ elements' = Placed(mem, extent)
  <2>1. Chunked!GrownSize(c) = s
    BY SameTypes
  <2> QED
    BY <1>4, <2>1, SameOperators
<1>6. MovesFor(moves, e, blocks)
  <2>1. moves = [b \in 1 .. blockNum |-> Chunked!Move(Chunked!Block(b).begin, Chunked!Block(b).end, (b - 1) * BlockSize)]
    BY DEF Chunked!MoveBlocks
  <2>2. Len(moves) = blockNum
    BY <1>3, <2>1
  <2>3. ASSUME NEW b \in 1 .. blockNum
        PROVE  moves[b].lo = e + Off(b) /\ moves[b].hi = e + Off(b) + Len(blocks[b]) /\ moves[b].to = Off(b)
    <3>1. moves[b] = Chunked!Move(Chunked!Block(b).begin, Chunked!Block(b).end, (b - 1) * BlockSize)
      BY <2>1
    <3>2. Chunked!Block(b).begin = e + Off(b) /\ Chunked!Block(b).end = e + Off(b) + Len(blocks[b])
      BY <1>1, BlockHandle
    <3> HIDE DEF moves
    <3> QED
      BY <3>1, <3>2 DEF Chunked!Move, Off
  <2> HIDE DEF moves
  <2> QED
    BY <1>1, <2>2, <2>3 DEF MovesFor
<1>7. extent = Off(s + 1) /\ Off(s + 1) <= MaxCap
  <2> HIDE DEF s
  <2> QED
    BY <1>2, OffIs
<1>8. blockNum <= s /\ s \in Nat
  <2> HIDE DEF s
  <2> QED
    BY <1>2, <1>3
<1> HIDE DEF n, s, extent, moves
<1>9. elements.end = elements.begin + Off(n + 1)
  BY <1>1 DEF ChunkAt
<1>10. /\ Base(Placed(mem, extent).begin) /\ Placed(mem, extent).end = Placed(mem, extent).begin + extent
       /\ Clean(ChunkExpand(mem, elements, extent, moves, <<>>))
       /\ Laid(ChunkExpand(mem, elements, extent, moves, <<>>), Placed(mem, extent).begin, s, blocks)
  BY <1>1, <1>2, <1>6, <1>7, <1>8, <1>9, BlocksExpanded
<1>11. LiesAt(elements'.begin, s) /\ ChunkAt(elements', elements'.begin, s)
  BY <1>2, <1>5, <1>7, <1>10 DEF LiesAt, ChunkAt
<1> QED
  BY <1>2, <1>5, <1>8, <1>10, <1>11 DEF s

LEMMA ThreeParts ==
  ASSUME NEW S, NEW a \in Seq(S), NEW b \in Seq(S), NEW c \in Seq(S)
  PROVE  /\ (a \o b) \o c \in Seq(S) /\ Len((a \o b) \o c) = Len(a) + Len(b) + Len(c)
         /\ \A i \in 1 .. Len(a) : ((a \o b) \o c)[i] = a[i]
         /\ \A i \in Len(a) + 1 .. Len(a) + Len(b) : ((a \o b) \o c)[i] = b[i - Len(a)]
<1> DEFINE w == a \o b
<1>1. /\ w \in Seq(S) /\ Len(w) = Len(a) + Len(b)
      /\ \A i \in 1 .. Len(a) : w[i] = a[i]
      /\ \A i \in Len(a) + 1 .. Len(a) + Len(b) : w[i] = b[i - Len(a)]
  BY ConcatIs
<1> HIDE DEF w
<1>2. /\ w \o c \in Seq(S) /\ Len(w \o c) = Len(w) + Len(c)
      /\ \A i \in 1 .. Len(w) : (w \o c)[i] = w[i]
      /\ \A i \in Len(w) + 1 .. Len(w) + Len(c) : (w \o c)[i] = c[i - Len(w)]
  <2>1. w \in Seq(S)
    BY <1>1
  <2> QED
    BY <2>1, ConcatIs
<1>3. Len(a) \in Nat /\ Len(b) \in Nat /\ Len(c) \in Nat
  OBVIOUS
<1> DEFINE y == w \o c
<1>4. /\ y \in Seq(S) /\ Len(y) = Len(a) + Len(b) + Len(c)
      /\ \A i \in 1 .. Len(w) : y[i] = w[i]
  BY <1>1, <1>2
<1> HIDE DEF y
<1>5. \A i \in 1 .. Len(a) : y[i] = a[i]
  BY <1>1, <1>3, <1>4
<1>6. \A i \in Len(a) + 1 .. Len(a) + Len(b) : y[i] = b[i - Len(a)]
  BY <1>1, <1>3, <1>4
<1> QED
  BY <1>4, <1>5, <1>6 DEF y, w

\* Sizes of blocks, k of which are new, and the blocks.
LEMMA BlocksAdded ==
  ASSUME GoodBlocks(mem, elements, sizes, blockNum, blocks), NEW k \in Nat, blockNum + k <= MaxBlocks,
         NEW rest \in Seq(Nat \cup {"raw"}), NEW n, n = blockNum + k + Len(rest),
         NEW m, Clean(m), NEW els, LiesAt(els.begin, n), ChunkAt(els, els.begin, n), Laid(m, els.begin, n, blocks)
  PROVE  GoodBlocks(m, els, (SubSeq(sizes, 1, blockNum) \o Chunked!Zeros(k)) \o rest, blockNum + k, blocks \o [i \in 1 .. k |-> <<>>])
<1> DEFINE S == Nat \cup {"raw"}
           old == SubSeq(sizes, 1, blockNum)
           new == [i \in 1 .. k |-> <<>>]
           zs == (old \o Chunked!Zeros(k)) \o rest
           cs == blocks \o new
<1>1. /\ IsBlocks(blocks) /\ Len(blocks) = blockNum /\ sizes \in Seq(Nat \cup {"raw"}) /\ blockNum <= Len(sizes)
      /\ \A d \in 1 .. blockNum : sizes[d] = Len(blocks[d])
  BY DEF GoodBlocks
<1>2. blockNum \in Nat /\ Len(sizes) \in Nat /\ blockNum \in 0 .. Len(sizes) /\ Len(rest) \in Nat
  BY <1>1 DEF IsBlocks
<1>3. old \in Seq(S) /\ Len(old) = blockNum /\ \A d \in 1 .. blockNum : old[d] = sizes[d]
  BY <1>1, <1>2, PrefixIs
<1>4. Chunked!Zeros(k) \in Seq(S) /\ Len(Chunked!Zeros(k)) = k /\ \A i \in 1 .. k : Chunked!Zeros(k)[i] = 0
  BY DEF Chunked!Zeros
<1>5. new \in Seq(Seq(Values)) /\ Len(new) = k /\ \A i \in 1 .. k : new[i] = <<>> /\ Len(new[i]) = 0
  <2>1. <<>> \in Seq(Values) /\ Len(<<>>) = 0
    OBVIOUS
  <2> QED
    BY <2>1
<1> DEFINE zeros == Chunked!Zeros(k)
<1> HIDE DEF new, old, S, zeros
<1>6. rest \in Seq(S) /\ zeros \in Seq(S) /\ Len(zeros) = k /\ \A i \in 1 .. k : zeros[i] = 0
  BY <1>4 DEF S, zeros
<1>7. /\ (old \o zeros) \o rest \in Seq(S) /\ Len((old \o zeros) \o rest) = n
      /\ \A d \in 1 .. blockNum : ((old \o zeros) \o rest)[d] = sizes[d]
      /\ \A d \in blockNum + 1 .. blockNum + k : ((old \o zeros) \o rest)[d] = 0
  <2> DEFINE y == (old \o zeros) \o rest
  <2>1. /\ y \in Seq(S) /\ Len(y) = Len(old) + Len(zeros) + Len(rest)
        /\ \A i \in 1 .. Len(old) : y[i] = old[i]
        /\ \A i \in Len(old) + 1 .. Len(old) + Len(zeros) : y[i] = zeros[i - Len(old)]
    <3>1. old \in Seq(S)
      BY <1>3
    <3>2. zeros \in Seq(S)
      BY <1>6
    <3>3. rest \in Seq(S)
      BY <1>6
    <3> QED
      BY <3>1, <3>2, <3>3, ThreeParts
  <2> HIDE DEF y
  <2>2. y \in Seq(S) /\ Len(y) = n /\ \A d \in 1 .. blockNum : y[d] = sizes[d]
    BY <1>3, <1>6, <2>1
  <2>3. ASSUME NEW d \in blockNum + 1 .. blockNum + k PROVE y[d] = 0
    <3>1. d - blockNum \in 1 .. k
      BY <1>2
    <3>2. y[d] = zeros[d - blockNum]
      BY <1>3, <1>6, <2>1
    <3> QED
      BY <1>6, <3>1, <3>2
  <2> QED
    BY <2>2, <2>3 DEF y
<1>8. zs \in Seq(Nat \cup {"raw"}) /\ Len(zs) = n
      /\ (\A d \in 1 .. blockNum : zs[d] = sizes[d]) /\ \A d \in blockNum + 1 .. blockNum + k : zs[d] = 0
  BY <1>7 DEF S, zeros
<1>9. /\ cs \in Seq(Seq(Values)) /\ Len(cs) = blockNum + k
      /\ \A d \in 1 .. blockNum : cs[d] = blocks[d]
      /\ \A d \in blockNum + 1 .. blockNum + k : cs[d] = <<>>
  <2>1. blocks \in Seq(Seq(Values))
    BY <1>1 DEF IsBlocks
  <2>2. /\ cs \in Seq(Seq(Values)) /\ Len(cs) = Len(blocks) + Len(new)
        /\ \A i \in 1 .. Len(blocks) : cs[i] = blocks[i]
        /\ \A i \in Len(blocks) + 1 .. Len(blocks) + Len(new) : cs[i] = new[i - Len(blocks)]
    BY <1>5, <2>1, ConcatIs
  <2> HIDE DEF cs
  <2>3. ASSUME NEW d \in blockNum + 1 .. blockNum + k PROVE cs[d] = <<>>
    <3>1. d - blockNum \in 1 .. k
      BY <1>2
    <3>2. cs[d] = new[d - blockNum]
      BY <1>1, <1>5, <2>2
    <3> QED
      BY <1>5, <3>1, <3>2
  <2> QED
    BY <1>1, <1>5, <2>2, <2>3
<1> HIDE DEF zs, cs
<1>10. \A d \in 1 .. blockNum + k : d \in 1 .. blockNum \/ d \in blockNum + 1 .. blockNum + k
  BY <1>2
<1>11. IsBlocks(cs)
  <2>1. Len(<<>>) <= BlockSize
    BY ChunkedAssumption
  <2>2. \A d \in 1 .. blockNum : Len(blocks[d]) <= BlockSize
    BY <1>1 DEF IsBlocks
  <2>3. \A d \in 1 .. blockNum + k : Len(cs[d]) <= BlockSize
    BY <1>9, <1>10, <2>1, <2>2
  <2> QED
    BY <1>9, <2>3 DEF IsBlocks
<1>12. \A d \in 1 .. blockNum + k : zs[d] = Len(cs[d])
  <2>1. Len(<<>>) = 0
    OBVIOUS
  <2> QED
    BY <1>1, <1>8, <1>9, <1>10, <2>1
<1>13. Laid(m, els.begin, n, cs)
  <2>1. \A d \in 1 .. n : BlockOf(cs, d) = BlockOf(blocks, d)
    <3> SUFFICES ASSUME NEW d \in 1 .. n PROVE BlockOf(cs, d) = BlockOf(blocks, d)
      OBVIOUS
    <3>1. CASE d \in 1 .. blockNum
      <4>1. d \in 1 .. blockNum + k
        BY <1>2, <3>1
      <4> QED
        BY <1>1, <1>9, <3>1, <4>1 DEF BlockOf
    <3>2. CASE d \notin 1 .. blockNum
      <4>1. CASE d \in 1 .. blockNum + k
        BY <1>1, <1>9, <1>10, <3>2, <4>1 DEF BlockOf
      <4>2. CASE d \notin 1 .. blockNum + k
        BY <1>1, <1>9, <3>2, <4>2 DEF BlockOf
      <4> QED
        BY <4>1, <4>2
    <3> QED
      BY <3>1, <3>2
  <2> QED
    BY <2>1, SameLaid
<1>14. blockNum + k <= n
  BY <1>2
<1>15. GoodBlocks(m, els, zs, blockNum + k, cs)
  BY <1>8, <1>9, <1>11, <1>12, <1>13, <1>14 DEF GoodBlocks
<1> QED
  BY <1>15 DEF zs, cs, old, new

LEMMA AddBlocksKeeps ==
  ASSUME GoodBlocks(mem, elements, sizes, blockNum, blocks), HandleOK(handle), NEW k \in 1 .. 2, blockNum + k <= MaxBlocks,
         Chunked!AddBlocks(k)
  PROVE  GoodBlocks(mem', elements', sizes', blockNum', blocks') /\ HandleOK(handle') /\ misuse' = misuse
<1> DEFINE num == blockNum + k
           old == SubSeq(sizes, 1, blockNum)
           n == Len(sizes)
<1>1. blockNum' = num /\ blocks' = blocks \o [i \in 1 .. k |-> <<>>] /\ handle' = handle /\ misuse' = misuse
  BY DEF Chunked!AddBlocks
<1>2. /\ Clean(mem) /\ IsBlocks(blocks) /\ Len(blocks) = blockNum /\ sizes \in Seq(Nat \cup {"raw"}) /\ blockNum <= n
      /\ LiesAt(elements.begin, n) /\ ChunkAt(elements, elements.begin, n) /\ Laid(mem, elements.begin, n, blocks)
  BY DEF GoodBlocks
<1>3. blockNum \in Nat /\ n \in Nat /\ k \in Nat
  BY <1>2 DEF IsBlocks
<1>4. CASE num > n
  <2> DEFINE s == GrownSize(num)
             rest == Chunked!Raws(s - num)
  <2>1. Chunked!GrowElements(num) /\ sizes' = (old \o Chunked!Zeros(k)) \o Chunked!Raws(Chunked!GrownSize(num) - num)
    BY <1>4 DEF Chunked!AddBlocks
  <2>2. Chunked!GrownSize(num) = s
    BY SameTypes
  <2>3. num \in 1 .. MaxBlocks /\ blockNum <= num
    BY <1>3, ChunkedAssumption
  <2>4. /\ s \in Nat /\ num <= s /\ LiesAt(elements'.begin, s) /\ ChunkAt(elements', elements'.begin, s)
        /\ Clean(mem') /\ Laid(mem', elements'.begin, s, blocks)
    BY <2>1, <2>3, ElementsGrown
  <2> HIDE DEF s
  <2>5. s - num \in Nat
    BY <1>3, <2>4
  <2>6. rest \in Seq(Nat \cup {"raw"}) /\ Len(rest) = s - num
    BY <2>5 DEF Chunked!Raws
  <2> HIDE DEF rest
  <2>7. s = num + Len(rest)
    BY <1>3, <2>4, <2>6
  <2>8. GoodBlocks(mem', elements', (old \o Chunked!Zeros(k)) \o rest, num, blocks \o [i \in 1 .. k |-> <<>>])
    BY <1>3, <2>4, <2>6, <2>7, BlocksAdded
  <2> QED
    BY <1>1, <2>1, <2>2, <2>8 DEF rest
<1>5. CASE ~ (num > n)
  <2> DEFINE rest == SubSeq(sizes, num + 1, Len(sizes))
  <2>1. sizes' = (old \o Chunked!Zeros(k)) \o rest /\ mem' = mem /\ elements' = elements
    BY <1>5 DEF Chunked!AddBlocks
  <2>2. rest \in Seq(Nat \cup {"raw"}) /\ Len(rest) = n - num
    BY <1>2, <1>3, <1>5
  <2> HIDE DEF rest
  <2>3. n = num + Len(rest)
    BY <1>3, <2>2
  <2>4. GoodBlocks(mem, elements, (old \o Chunked!Zeros(k)) \o rest, num, blocks \o [i \in 1 .. k |-> <<>>])
    <3> HIDE DEF n
    <3> QED
      BY <1>2, <1>3, <2>2, <2>3, BlocksAdded
  <2> QED
    BY <1>1, <2>1, <2>4
<1> QED
  BY <1>4, <1>5


-----------------------------------------------------------------------------
(* Blocks: what is not guarded against *)

LEMMA DeallocateType ==
  ASSUME NEW m, IsMemory(m), NEW c
  PROVE  IsMemory(Deallocate(m, c))
<1>1. CASE c.begin = Null
  BY <1>1 DEF Deallocate
<1>2. CASE c.begin # Null
  <2> DEFINE f == [a \in Span(c.begin, c.end) |-> "free"]
  <2>1. Deallocate(m, c) = Write(m, f, {"raw"}, "leaked")
    BY <1>2 DEF Deallocate
  <2>2. \A x \in DOMAIN f : f[x] \in Slots
    BY SlotsDiffer
  <2>3. "leaked" \in Faults
    BY DEF Faults
  <2> HIDE DEF f
  <2>4. Write(m, f, {"raw"}, "leaked") \in MemoryType
    BY <2>2, <2>3, WriteType
  <2> QED
    BY <2>1, <2>4, AlwaysMemory
<1> QED
  BY <1>1, <1>2

LEMMA AddBlocksFailsCosts ==
  ASSUME GoodBlocks(mem, elements, sizes, blockNum, blocks), NEW k \in 1 .. 2, blockNum + k <= MaxBlocks,
         Chunked!AddBlocksFails(k)
  PROVE  misuse' # {} /\ Chunked!ChunkedTypeOK' /\ Chunked!CostOfChunkedMisuse'
<1> DEFINE num == blockNum + k
           n == Len(sizes)
           s == GrownSize(num)
<1>1. Chunked!GrowElements(num) /\ num > n /\ sizes' = sizes /\ blockNum' = blockNum /\ blocks' = blocks
  BY DEF Chunked!AddBlocksFails
<1> DEFINE which == {"failed sizes"}
<1>12. misuse' = which
  BY DEF Chunked!AddBlocksFails
<1>2. /\ IsBlocks(blocks) /\ Len(blocks) = blockNum /\ blockNum <= MaxBlocks /\ LiesAt(elements.begin, n)
      /\ \A d \in 1 .. Len(blocks) : sizes[d] = Len(blocks[d])
  BY DEF GoodBlocks
<1>3. blockNum \in Nat /\ n \in Nat
  BY <1>2, BlocksLie DEF IsBlocks
<1>4. num \in 1 .. MaxBlocks /\ blockNum <= num
  BY <1>3, ChunkedAssumption
<1>5. /\ s \in Nat /\ num <= s /\ LiesAt(elements'.begin, s) /\ ChunkAt(elements', elements'.begin, s)
      /\ Clean(mem') /\ Laid(mem', elements'.begin, s, blocks)
  BY <1>1, <1>4, ElementsGrown
<1> HIDE DEF s, n
<1>6. n < s /\ Len(blocks) <= s
  BY <1>1, <1>2, <1>3, <1>4, <1>5
<1>7. Chunked!Contents' = blocks'
  <2>1. [b \in 1 .. Len(blocks) |-> Found(mem', elements', sizes, b)] = blocks
    BY <1>2, <1>5, <1>6, AllFound
  <2> QED
    BY <1>1, <1>2, <2>1, ContentsFound
<1>8. elements'.end - elements'.begin > BlockSize * n
  <2>1. n + 1 \in Nat \ {0} /\ s + 1 \in Nat \ {0} /\ n + 1 < s + 1
    BY <1>3, <1>5, <1>6
  <2>2. Off(n + 1) + BlockSize <= Off(s + 1)
    BY <2>1, OffIs
  <2>3. Off(n + 1) = BlockSize * n
    BY <1>3, OffIs
  <2> DEFINE u == Off(n + 1)
             w == Off(s + 1)
             e == elements'.begin
  <2>4. u \in Nat /\ w \in Nat /\ e \in Nat /\ u + BlockSize <= w /\ BlockSize \in Nat \ {0}
    <3>1. u \in Nat /\ w \in Nat
      BY <2>1, OffIs
    <3>2. e \in Nat
      BY <1>5, BlocksLie
    <3> QED
      BY <2>2, <3>1, <3>2, ChunkedAssumption
  <2>5. elements'.end = e + w
    BY <1>5 DEF ChunkAt
  <2> HIDE DEF u, w, e
  <2>6. (e + w) - e > u
    BY <2>4
  <2> QED
    BY <2>3, <2>5, <2>6 DEF u, e
<1>9. mem'.faults = {}
  BY <1>5 DEF Clean
<1>10. misuse' # {} /\ Chunked!CostOfChunkedMisuse'
  BY <1>1, <1>7, <1>8, <1>9, <1>12 DEF Chunked!CostOfChunkedMisuse, n
<1>11. Chunked!ChunkedTypeOK'
  <2>1. IsMemory(mem') /\ blockNum' \in 0 .. MaxBlocks
    BY <1>1, <1>2, <1>3, <1>5, CleanMemory, ChunkedAssumption
  <2> QED
    BY <1>10, <2>1, ChunkedTypeIs
<1> QED
  BY <1>10, <1>11

LEMMA MoveFromCosts ==
  ASSUME GoodBlocks(mem, elements, sizes, blockNum, blocks), Chunked!MoveFrom
  PROVE  misuse' # {} /\ Chunked!ChunkedTypeOK' /\ Chunked!CostOfChunkedMisuse'
<1>1. /\ misuse' = {"moved from"} /\ mem' = mem /\ blockNum' = blockNum /\ blocks' = blocks /\ elements' = Chunked!NullChunk
  BY DEF Chunked!MoveFrom
<1>2. IsMemory(mem) /\ blockNum \in 0 .. MaxBlocks /\ blockNum = Len(blocks)
  <2>1. Clean(mem) /\ Len(blocks) = blockNum /\ IsBlocks(blocks) /\ blockNum <= MaxBlocks
    BY DEF GoodBlocks
  <2>2. blockNum \in Nat
    BY <2>1 DEF IsBlocks
  <2> QED
    BY <2>1, <2>2, CleanMemory, ChunkedAssumption
<1>3. Chunked!ChunkedTypeOK'
  BY <1>1, <1>2, ChunkedTypeIs
<1>4. Chunked!CostOfChunkedMisuse'
  BY <1>1, <1>2 DEF Chunked!CostOfChunkedMisuse
<1> QED
  BY <1>1, <1>3, <1>4

LEMMA DestructKeeps ==
  ASSUME GoodBlocks(mem, elements, sizes, blockNum, blocks), Chunked!DestructChunked, misuse = {}
  PROVE  \/ misuse' = {} /\ GoodBlocks(mem', elements', sizes', blockNum', blocks') /\ HandleOK(handle')
         \/ misuse' # {} /\ Chunked!ChunkedTypeOK' /\ Chunked!CostOfChunkedMisuse'
<1> DEFINE e == elements.begin
           n == Len(sizes)
<1>1. /\ elements' = NullChunk /\ sizes' = <<>> /\ blockNum' = 0 /\ handle' = Chunked!NoHandle /\ blocks' = <<>>
      /\ mem' = Chunked!Deallocate(mem, elements)
  BY SameTypes DEF Chunked!DestructChunked
<1>9. misuse' = IF \E b \in 1 .. blockNum : sizes[b] > 0 THEN {"elements left"} ELSE misuse
  BY DEF Chunked!DestructChunked
<1>2. mem' = Deallocate(mem, elements)
  BY <1>1, SameOperators
<1>3. /\ Clean(mem) /\ IsBlocks(blocks) /\ Len(blocks) = blockNum /\ blockNum <= n
      /\ \A d \in 1 .. blockNum : sizes[d] = Len(blocks[d])
      /\ LiesAt(e, n) /\ ChunkAt(elements, e, n) /\ Laid(mem, e, n, blocks)
  BY DEF GoodBlocks
<1>4. blockNum \in Nat /\ n \in Nat /\ e \in Nat /\ Off(n + 1) \in Nat
  BY <1>3, BlocksLie DEF IsBlocks
<1>5. elements.end = e + Off(n + 1)
  BY <1>3 DEF ChunkAt
<1>6. \A x : x \in Span(elements.begin, elements.end) <=> x \in Int /\ Inside(e, n, x)
  <2> DEFINE w == Off(n + 1)
  <2>1. w \in Nat /\ e \in Nat /\ elements.end = e + w
    BY <1>4, <1>5
  <2> HIDE DEF w, e
  <2>2. \A x : x \in Span(e, e + w) <=> x \in Int /\ e <= x /\ x < e + w
    BY <2>1 DEF Span
  <2> QED
    BY <2>1, <2>2 DEF Inside, w, e
<1>7. CASE \E b \in 1 .. blockNum : sizes[b] > 0
  <2>1. PICK b \in 1 .. blockNum : sizes[b] > 0
    BY <1>7
  <2> DEFINE p == e + Off(b)
             t == blocks[b]
  <2>2. /\ b \in 1 .. n /\ BlockFits(p) /\ t \in Seq(Alive) /\ Len(t) \in 0 .. BlockSize
        /\ sizes[b] = Len(t) /\ BlockIs(mem, p, t)
    BY GoodBlockIs
  <2>3. InBlock(p, p) /\ p \in Int /\ p \in Address /\ mem.slot[p] = t[1] /\ t[1] \in Alive
    <3>1. InBlock(p, p)
      BY <2>2, ChunkedAssumption DEF InBlock, BlockFits
    <3>2. p \in Nat /\ p \in Address
      BY <2>2, <3>1 DEF BlockFits
    <3> HIDE DEF p, t
    <3>3. p < p + Len(t) /\ p - p + 1 = 1 /\ 1 \in 1 .. Len(t)
      BY <2>1, <2>2, <3>2
    <3>4. mem.slot[p] = t[1]
      BY <2>2, <3>1, <3>2, <3>3 DEF BlockIs
    <3> QED
      BY <2>2, <3>1, <3>2, <3>3, <3>4
  <2>4. p \in Span(elements.begin, elements.end)
    <3>1. Inside(e, n, p)
      BY <1>3, <2>2, <2>3, BlocksLie
    <3> QED
      BY <1>6, <2>3, <3>1
  <2>5. mem.slot[p] # "raw"
    BY <2>3, SlotsDiffer
  <2>6. elements.begin # Null
    <3>1. Base(e) /\ Null \notin Address
      BY <1>3, <1>4, <2>2, AddressType DEF LiesAt
    <3> QED
      BY <3>1, BaseIs DEF Null
  <2>7. mem'.faults = {"leaked"}
    <3> DEFINE f == [a \in Span(elements.begin, elements.end) |-> "free"]
    <3>1. mem' = Write(mem, f, {"raw"}, "leaked")
      BY <1>2, <2>6 DEF Deallocate
    <3>2. p \in DOMAIN f /\ mem.slot[p] \notin {"raw"}
      BY <2>4, <2>5
    <3>3. mem.faults = {}
      BY <1>3 DEF Clean
    <3> HIDE DEF f
    <3>4. mem'.faults = mem.faults \cup {"leaked"}
      BY <3>1, <3>2 DEF Write
    <3> QED
      BY <3>3, <3>4
  <2>8. misuse' = {"elements left"}
    BY <1>7, <1>9
  <2>9. Chunked!CostOfChunkedMisuse'
    BY <2>7, <2>8 DEF Chunked!CostOfChunkedMisuse
  <2>10. IsMemory(mem')
    BY <1>2, <1>3, CleanMemory, DeallocateType
  <2>11. 0 \in 0 .. MaxBlocks
    BY ChunkedAssumption
  <2>12. Chunked!ChunkedTypeOK'
    BY <1>1, <2>8, <2>10, <2>11, ChunkedTypeIs
  <2> QED
    BY <2>8, <2>9, <2>12
<1>8. CASE ~ \E b \in 1 .. blockNum : sizes[b] > 0
  <2>1. ASSUME NEW x \in Span(elements.begin, elements.end) PROVE x \in Address /\ mem.slot[x] = "raw"
    <3>1. x \in Int /\ Inside(e, n, x)
      BY <1>6
    <3>2. x \in Address
      BY <1>3, <3>1, BlocksLie
    <3>3. PICK c \in 1 .. n : InBlock(e + Off(c), x)
      BY <1>4, <3>1, SomeBlock
    <3> DEFINE p == e + Off(c)
               t == BlockOf(blocks, c)
    <3>4. BlockIs(mem, p, t) /\ InBlock(p, x) /\ BlockFits(p) /\ c \in Nat \ {0}
      BY <1>3, <3>3, BlocksLie DEF Laid
    <3>5. Len(t) = 0
      <4>1. CASE c \in 1 .. blockNum
        <5>1. t = blocks[c] /\ sizes[c] = Len(t) /\ ~ (sizes[c] > 0)
          BY <1>3, <1>8, <4>1 DEF BlockOf
        <5>2. Len(t) \in Nat
          BY <1>3, <3>4, BlocksAre
        <5> HIDE DEF t
        <5> QED
          BY <5>1, <5>2
      <4>2. CASE c \notin 1 .. blockNum
        BY <1>3, <4>2, EmptyText DEF BlockOf
      <4> QED
        BY <4>1, <4>2
    <3> HIDE DEF p, t
    <3>6. ~ (x < p + Len(t))
      BY <3>1, <3>4, <3>5 DEF InBlock, BlockFits
    <3> QED
      BY <3>2, <3>4, <3>6 DEF BlockIs
  <2>2. elements.begin = Null => elements.end = Null
    <3>1. ASSUME e = Null PROVE e + Off(n + 1) = Null
      <4>1. n = 0
        BY <1>3, <3>1, BaseIs DEF LiesAt, Null
      <4> QED
        BY <3>1, <4>1, OffIs DEF Null
    <3> QED
      BY <1>5, <3>1
  <2>3. elements.begin \in Int /\ elements.end \in Int
    BY <1>4, <1>5
  <2>4. /\ Clean(Deallocate(mem, elements))
        /\ \A x \in Address : Deallocate(mem, elements).slot[x] =
             IF x \in Span(elements.begin, elements.end) THEN "free" ELSE mem.slot[x]
    BY <1>3, <2>1, <2>2, <2>3, DeallocateIs
  <2>5. \A x \in Address : mem'.slot[x] = "free"
    <3> SUFFICES ASSUME NEW x \in Address PROVE mem'.slot[x] = "free"
      OBVIOUS
    <3>1. x \in Int
      BY AddressType
    <3>2. CASE Inside(e, n, x)
      BY <1>2, <1>6, <2>4, <3>1, <3>2
    <3>3. CASE ~ Inside(e, n, x)
      BY <1>2, <1>3, <1>6, <2>4, <3>3 DEF Laid
    <3> QED
      BY <3>2, <3>3
  <2>6. GoodBlocks(mem', elements', sizes', blockNum', blocks')
    <3>1. Clean(mem')
      BY <1>2, <2>4
    <3>2. elements'.begin = Null /\ elements'.end = Null /\ Len(sizes') = 0
      BY <1>1 DEF NullChunk
    <3>3. LiesAt(Null, 0) /\ ChunkAt(elements', Null, 0)
      <4>1. MaxCap \in Nat /\ Off(0 + 1) = 0
        BY MemoryAssumption, OffIs
      <4> QED
        BY <3>2, <4>1 DEF LiesAt, ChunkAt, Null
    <3>4. Laid(mem', Null, 0, blocks')
      BY <2>5 DEF Laid
    <3>5. IsBlocks(blocks') /\ Len(blocks') = 0 /\ sizes' \in Seq(Nat \cup {"raw"}) /\ 0 <= MaxBlocks
      BY <1>1, ChunkedAssumption DEF IsBlocks
    <3> QED
      BY <1>1, <3>1, <3>2, <3>3, <3>4, <3>5 DEF GoodBlocks
  <2>7. misuse' = {} /\ HandleOK(handle')
    BY <1>1, <1>8, <1>9 DEF HandleOK
  <2> QED
    BY <2>6, <2>7
<1> QED
  BY <1>7, <1>8


LEMMA HandleIs ==
  ASSUME HandleOK(handle), handle # Chunked!NoHandle
  PROVE  /\ handle.block \in 1 .. MaxBlocks /\ Off(handle.block) \in Nat /\ Off(handle.block) + BlockSize <= MaxCap
         /\ \E e : Base(e) /\ handle.begin = e + Off(handle.block)
         /\ handle.begin \in Nat /\ handle.end \in handle.begin .. handle.begin + BlockSize /\ handle.end \in Nat
         /\ handle = [block |-> handle.block, begin |-> handle.begin, end |-> handle.end]
<1>1. /\ handle = [block |-> handle.block, begin |-> handle.begin, end |-> handle.end]
      /\ handle.block \in 1 .. MaxBlocks /\ Off(handle.block) + BlockSize <= MaxCap
      /\ \E e : Base(e) /\ handle.begin = e + Off(handle.block)
      /\ handle.end \in handle.begin .. handle.begin + BlockSize
  BY DEF HandleOK
<1>2. handle.block \in Nat \ {0}
  BY <1>1, ChunkedAssumption
<1>3. Off(handle.block) \in Nat
  BY <1>2, OffIs
<1>4. PICK e : Base(e) /\ handle.begin = e + Off(handle.block)
  BY <1>1
<1>5. e \in Nat
  BY <1>4, BaseIs
<1>6. handle.begin \in Nat
  BY <1>3, <1>4, <1>5
<1>7. handle.end \in Nat
  BY <1>1, <1>6, ChunkedAssumption
<1> QED
  BY <1>1, <1>3, <1>6, <1>7

LEMMA HandleAdvances ==
  ASSUME HandleOK(handle), handle # Chunked!NoHandle, handle.end # handle.begin + BlockSize
  PROVE  HandleOK([handle EXCEPT !.end = @ + 1])
<1> DEFINE h == [handle EXCEPT !.end = @ + 1]
<1>1. /\ handle.block \in 1 .. MaxBlocks /\ Off(handle.block) + BlockSize <= MaxCap
      /\ \E e : Base(e) /\ handle.begin = e + Off(handle.block)
      /\ handle.begin \in Nat /\ handle.end \in handle.begin .. handle.begin + BlockSize
      /\ handle = [block |-> handle.block, begin |-> handle.begin, end |-> handle.end]
  BY HandleIs
<1>2. h = [block |-> handle.block, begin |-> handle.begin, end |-> handle.end + 1]
  BY <1>1
<1>3. handle.end + 1 \in handle.begin .. handle.begin + BlockSize
  BY <1>1, ChunkedAssumption
<1> HIDE DEF h
<1>4. h.block = handle.block /\ h.begin = handle.begin /\ h.end = handle.end + 1
  BY <1>2
<1>5. h = [block |-> h.block, begin |-> h.begin, end |-> h.end]
  BY <1>2, <1>4
<1>6. h.block \in 1 .. MaxBlocks /\ Off(h.block) + BlockSize <= MaxCap
  BY <1>1, <1>4
<1>7. \E e : Base(e) /\ h.begin = e + Off(h.block)
  BY <1>1, <1>4
<1>8. h.end \in h.begin .. h.begin + BlockSize
  BY <1>3, <1>4
<1>9. HandleOK(h)
  BY <1>5, <1>6, <1>7, <1>8 DEF HandleOK
<1> QED
  BY <1>9 DEF h

\* An element constructed through a handle is well placed only behind the last one of a block of the
\* array, so the handle is that block's.
LEMMA OnlyFreshIsRight ==
  ASSUME GoodBlocks(mem, elements, sizes, blockNum, blocks), HandleOK(handle), handle # Chunked!NoHandle,
         NEW v \in Values, Chunked!Emplace(handle, v), Chunked!BlocksAreRight'
  PROVE  handle.block <= blockNum /\ handle = Chunked!Block(handle.block)
<1> DEFINE at == handle.end
           e == elements.begin
           c == handle.block
<1>1. /\ mem' = Chunked!Construct(mem, at, <<v>>) /\ at # handle.begin + BlockSize
      /\ sizes' = (IF c <= blockNum THEN [sizes EXCEPT ![c] = @ + 1] ELSE sizes)
      /\ elements' = elements /\ blockNum' = blockNum
  BY DEF Chunked!Emplace
<1>2. /\ c \in 1 .. MaxBlocks /\ Off(c) \in Nat /\ Off(c) + BlockSize <= MaxCap
      /\ \E d : Base(d) /\ handle.begin = d + Off(c)
      /\ handle.begin \in Nat /\ at \in handle.begin .. handle.begin + BlockSize /\ at \in Nat
      /\ handle = [block |-> c, begin |-> handle.begin, end |-> at]
  BY HandleIs
<1> HIDE DEF at, c
<1>3. mem' = Construct(mem, at, <<v>>)
  BY <1>1, SameOperators
<1>4. at \in Address /\ mem.slot[at] = "raw" /\ mem'.slot[at] = v
  <2> DEFINE vs == <<v>>
             f == [a \in Span(at, at + Len(vs)) |-> vs[a - at + 1]]
             fault == "constructed over an object"
  <2>1. mem' = Write(mem, f, {"raw"}, fault)
    BY <1>3 DEF Construct
  <2>2. DOMAIN f = Span(at, at + 1) /\ \A a \in Span(at, at + 1) : f[a] = vs[a - at + 1]
    OBVIOUS
  <2>3. mem'.faults = {}
    BY DEF Chunked!BlocksAreRight
  <2> HIDE DEF f, fault
  <2>4. \A a \in DOMAIN f : a \in Address /\ mem.slot[a] \in {"raw"}
    BY <2>1, <2>3 DEF Write
  <2>5. at \in Span(at, at + 1)
    BY <1>2 DEF Span
  <2>6. at \in Address /\ mem.slot[at] = "raw"
    BY <2>2, <2>4, <2>5
  <2>7. mem'.slot[at] = f[at]
    BY <2>1, <2>2, <2>5, <2>6 DEF Write
  <2>8. f[at] = v
    BY <1>2, <2>2, <2>5
  <2> QED
    BY <2>6, <2>7, <2>8
<1>5. PICK b \in 1 .. blockNum : at \in Span(e + Off(b), e + Off(b) + sizes'[b])
  <2>1. v \in Alive
    BY DEF Alive
  <2>2. /\ \A a \in Chunked!Address : mem'.slot[a] \in Chunked!Alive =>
             \E b \in 1 .. blockNum' : a \in Chunked!Span(Chunked!Block(b)'.begin, Chunked!Block(b)'.end)
    BY DEF Chunked!BlocksAreRight
  <2>3. \A b : Chunked!Block(b)'.begin = e + Off(b) /\ Chunked!Block(b)'.end = e + Off(b) + sizes'[b]
    BY <1>1 DEF Chunked!Block, Off
  <2>4. \A lo, hi : Chunked!Span(lo, hi) = Span(lo, hi)
    BY SameOperators
  <2>5. \E b \in 1 .. blockNum' : at \in Chunked!Span(Chunked!Block(b)'.begin, Chunked!Block(b)'.end)
    BY <1>4, <2>1, <2>2, SameTypes
  <2> QED
    BY <1>1, <2>3, <2>4, <2>5
<1> DEFINE p == e + Off(b)
           t == blocks[b]
<1>6. /\ Len(sizes) \in Nat /\ blockNum \in Nat /\ b \in 1 .. Len(sizes) /\ b \in Nat \ {0} /\ b \in 1 .. blockNum
      /\ BlockFits(p) /\ e \in Nat /\ Off(b) \in Nat
      /\ t \in Seq(Alive) /\ Len(t) \in 0 .. BlockSize /\ sizes[b] = Len(t) /\ BlockIs(mem, p, t)
  BY GoodBlockIs
<1>7. sizes \in Seq(Nat \cup {"raw"}) /\ LiesAt(e, Len(sizes)) /\ blockNum <= Len(sizes)
  BY DEF GoodBlocks
<1>8. p \in Nat /\ p <= at
  <2> HIDE DEF p
  <2>1. at \in Span(p, p + sizes'[b])
    BY <1>5 DEF p
  <2> QED
    BY <1>6, <2>1 DEF Span, BlockFits
<1> HIDE DEF p, t
<1>9. b = c /\ c <= blockNum
  <2>1. CASE c <= blockNum /\ b = c
    BY <2>1
  <2>2. CASE ~ (c <= blockNum /\ b = c)
    <3>1. sizes'[b] = sizes[b]
      <4>1. CASE c <= blockNum
        <5>1. sizes' = [sizes EXCEPT ![c] = sizes[c] + 1] /\ b # c
          BY <1>1, <2>2, <4>1
        <5> QED
          BY <1>6, <1>7, <5>1
      <4>2. CASE ~ (c <= blockNum)
        BY <1>1, <4>2
      <4> QED
        BY <4>1, <4>2
    <3> DEFINE l == Len(t)
    <3>2. at \in Span(p, p + l)
      BY <1>5, <1>6, <3>1 DEF p
    <3>3. l \in 0 .. BlockSize /\ BlockSize \in Nat
      BY <1>6, ChunkedAssumption
    <3> HIDE DEF l
    <3>4. at < p + l /\ InBlock(p, at) /\ at - p + 1 \in 1 .. l
      BY <1>2, <1>8, <3>2, <3>3 DEF Span, InBlock
    <3>5. mem.slot[at] = t[at - p + 1]
      BY <1>4, <1>6, <3>4 DEF BlockIs, l
    <3>6. t[at - p + 1] \in Alive
      BY <1>6, <3>4 DEF l
    <3> QED
      BY <1>4, <3>5, <3>6, SlotsDiffer
  <2> QED
    BY <2>1, <2>2
<1>10. at = p + Len(t)
  <2> DEFINE l == Len(t)
             l2 == sizes'[b]
  <2>1. l2 = l + 1 /\ l \in 0 .. BlockSize /\ BlockSize \in Nat
    <3>1. sizes' = [sizes EXCEPT ![b] = sizes[b] + 1]
      BY <1>1, <1>9
    <3>2. sizes'[b] = sizes[b] + 1
      BY <1>6, <1>7, <3>1
    <3> QED
      BY <1>6, <3>2, ChunkedAssumption
  <2>2. at \in Span(p, p + l2)
    BY <1>5 DEF p
  <2> HIDE DEF l2
  <2>3. at <= p + l
    <3> HIDE DEF l
    <3> QED
      BY <1>8, <2>1, <2>2 DEF Span
  <2>4. ~ (at < p + l)
    <3> SUFFICES ASSUME at < p + l PROVE FALSE
      OBVIOUS
    <3> HIDE DEF l
    <3>1. InBlock(p, at) /\ at - p + 1 \in 1 .. l
      BY <1>2, <1>8, <2>1, <2>4 DEF InBlock
    <3>2. mem.slot[at] = t[at - p + 1]
      BY <1>4, <1>6, <3>1 DEF BlockIs, l
    <3>3. t[at - p + 1] \in Alive
      BY <1>6, <3>1 DEF l
    <3> QED
      BY <1>4, <3>2, <3>3, SlotsDiffer
  <2> HIDE DEF l
  <2>5. at = p + l
    BY <1>2, <1>8, <2>1, <2>3, <2>4
  <2> QED
    BY <2>5 DEF l
<1>11. handle.begin = p
  <2>1. PICK d : Base(d) /\ handle.begin = d + Off(c)
    BY <1>2
  <2>2. Base(e) /\ d \in Nat
    <3>1. Len(sizes) # 0
      BY <1>6
    <3> QED
      BY <1>7, <2>1, <3>1, BaseIs DEF LiesAt
  <2>3. p = e + Off(c)
    BY <1>9 DEF p
  <2>4. handle.begin <= at /\ at < handle.begin + BlockSize /\ p <= at /\ at <= p + BlockSize
    <3> DEFINE l == Len(t)
    <3>1. l \in 0 .. BlockSize /\ at = p + l /\ BlockSize \in Nat
      BY <1>6, <1>10, ChunkedAssumption
    <3> HIDE DEF l
    <3> QED
      BY <1>1, <1>2, <1>8, <3>1
  <2>5. ~ (e + MaxCap < d) /\ ~ (d + MaxCap < e)
    <3> DEFINE u == Off(c)
    <3>1. u \in Nat /\ u + BlockSize <= MaxCap /\ BlockSize \in Nat /\ MaxCap \in Nat /\ handle.begin = d + u /\ p = e + u
      BY <1>2, <2>1, <2>3, ChunkedAssumption, MemoryAssumption
    <3> HIDE DEF u
    <3>2. d + u <= at /\ at < d + u + BlockSize /\ e + u <= at /\ at <= e + u + BlockSize
      BY <2>4, <3>1
    <3> HIDE DEF e
    <3>3. e \in Nat /\ at \in Nat
      BY <1>2, <1>6
    <3> QED
      BY <2>2, <3>1, <3>2, <3>3
  <2>6. d = e
    BY <2>1, <2>2, <2>5, BasesApart
  <2> QED
    BY <2>1, <2>3, <2>6
<1>12. Chunked!Block(c) = [block |-> c, begin |-> p, end |-> p + Len(t)]
  BY <1>6, <1>9, BlockHandle DEF p
<1> QED
  BY <1>2, <1>9, <1>10, <1>11, <1>12 DEF c

LEMMA PushBackKeptKeeps ==
  ASSUME GoodBlocks(mem, elements, sizes, blockNum, blocks), HandleOK(handle), misuse = {}, NEW v \in Values,
         Chunked!PushBackKept(v)
  PROVE  \/ misuse' = {} /\ GoodBlocks(mem', elements', sizes', blockNum', blocks') /\ HandleOK(handle')
         \/ misuse' # {} /\ Chunked!ChunkedTypeOK' /\ Chunked!CostOfChunkedMisuse'
<1> DEFINE b == handle.block
<1>1. /\ handle # Chunked!NoHandle /\ Chunked!Emplace(handle, v) /\ blocks' = Chunked!Append1(b, v)
      /\ handle' = [handle EXCEPT !.end = @ + 1]
  BY DEF Chunked!PushBackKept
<1>2. misuse' = IF b <= blockNum /\ handle = Chunked!Block(b) THEN misuse ELSE {"stale handle"}
  BY DEF Chunked!PushBackKept
<1>3. CASE b <= blockNum /\ handle = Chunked!Block(b)
  <2>1. misuse' = {}
    BY <1>2, <1>3
  <2>2. blocks' = [blocks EXCEPT ![b] = Append(@, v)]
    BY <1>1, <1>3 DEF Chunked!Append1
  <2>3. b \in 1 .. blockNum
    <3>1. b \in 1 .. MaxBlocks
      BY <1>1, HandleIs
    <3>2. blockNum \in Nat
      BY DEF GoodBlocks, IsBlocks
    <3> HIDE DEF b
    <3> QED
      BY <1>3, <3>1, <3>2, ChunkedAssumption
  <2>4. Chunked!Emplace(Chunked!Block(b), v)
    BY <1>1, <1>3
  <2>5. GoodBlocks(mem', elements', sizes', blockNum', blocks')
    <3> HIDE DEF b
    <3> QED
      BY <2>2, <2>3, <2>4, EmplaceInBlock
  <2>6. handle.end # handle.begin + BlockSize
    BY <1>1 DEF Chunked!Emplace
  <2>7. HandleOK(handle')
    BY <1>1, <2>6, HandleAdvances
  <2> QED
    BY <2>1, <2>5, <2>7
<1>4. CASE ~ (b <= blockNum /\ handle = Chunked!Block(b))
  <2>1. misuse' = {"stale handle"}
    BY <1>2, <1>4
  <2>2. ~ Chunked!BlocksAreRight'
    BY <1>1, <1>4, OnlyFreshIsRight
  <2>3. Chunked!CostOfChunkedMisuse'
    BY <2>1, <2>2 DEF Chunked!CostOfChunkedMisuse
  <2>4. IsMemory(mem')
    <3>1. mem' = Construct(mem, handle.end, <<v>>)
      BY <1>1, SameOperators DEF Chunked!Emplace
    <3>2. v \in Slots
      BY DEF Slots, Alive
    <3>3. handle.end \in Int /\ <<v>> \in Seq(Slots)
      BY <1>1, <3>2, HandleIs
    <3>4. IsMemory(mem)
      BY CleanMemory DEF GoodBlocks
    <3> QED
      BY <3>1, <3>3, <3>4, ConstructType, AlwaysMemory
  <2>5. blockNum' \in 0 .. MaxBlocks
    <3>1. blockNum' = blockNum
      BY <1>1 DEF Chunked!Emplace
    <3>2. blockNum \in Nat /\ blockNum <= MaxBlocks
      BY DEF GoodBlocks, IsBlocks
    <3> QED
      BY <3>1, <3>2, ChunkedAssumption
  <2>6. misuse' # {}
    BY <2>1
  <2>7. Chunked!ChunkedTypeOK'
    BY <2>4, <2>5, <2>6, ChunkedTypeIs
  <2> QED
    BY <2>3, <2>6, <2>7
<1> QED
  BY <1>3, <1>4

LEMMA PositionsAreFinite ==
  ASSUME NEW s \in Seq(Alive), NEW x
  PROVE  Cardinality(Chunked!Positions(s, x)) \in Nat
<1>1. Chunked!Positions(s, x) \in SUBSET (1 .. Len(s))
  BY DEF Chunked!Positions
<1>2. IsFiniteSet(1 .. Len(s))
  BY FS_Interval
<1> QED
  BY <1>1, <1>2, FS_Subset, FS_CardinalityType

LEMMA BlockEraseOwnCosts ==
  ASSUME GoodBlocks(mem, elements, sizes, blockNum, blocks), NEW b \in 1 .. MaxBlocks, NEW i \in 1 .. BlockSize,
         Chunked!BlockEraseOwn(b, i)
  PROVE  misuse' # {} /\ Chunked!ChunkedTypeOK' /\ Chunked!CostOfChunkedMisuse'
<1>1. b <= blockNum /\ Chunked!EraseValue(b, Chunked!ValueAt(i)) /\ blocks' = blocks
  BY DEF Chunked!BlockEraseOwn
<1>2. misuse' = {"own value"}
  BY DEF Chunked!BlockEraseOwn
<1>3. b \in 1 .. blockNum
  BY <1>1 DEF GoodBlocks, IsBlocks
<1> DEFINE p == elements.begin + Off(b)
           t == blocks[b]
           r == Chunked!Removed(t, Chunked!ValueAt(i))
           q == r.s
<1>4. /\ blockNum \in Nat /\ BlockFits(p) /\ t \in Seq(Alive) /\ Len(t) \in 0 .. BlockSize
      /\ sizes[b] = Len(t) /\ BlockIs(mem, p, t) /\ b \in 1 .. Len(sizes) /\ b \in Nat \ {0} /\ elements.begin \in Nat
  BY <1>3, GoodBlockIs
<1>5. /\ Clean(mem) /\ IsBlocks(blocks) /\ Len(blocks) = blockNum /\ blockNum <= MaxBlocks /\ sizes \in Seq(Nat \cup {"raw"})
  BY DEF GoodBlocks
<1>6. Chunked!Block(b).begin = p /\ Chunked!Block(b).end = p + Len(t)
  BY <1>4, BlockHandle
<1>7. Chunked!Held(mem, p, p + Len(t)) = t
  <2> HIDE DEF p, t
  <2>1. Held(mem, p, p + Len(t)) = t
    BY <1>4, <1>5, HeldIn, ChunkedAssumption
  <2> QED
    BY <2>1, SameOperators
<1>8. mem' = Chunked!Destroy(Chunked!Assign(mem, p, q), p + r.next - 1, p + Len(t))
  BY <1>1, <1>6, <1>7 DEF Chunked!EraseValue
<1>9. sizes' = [sizes EXCEPT ![b] = r.next - 1] /\ elements' = elements /\ blockNum' = blockNum
  BY <1>1, <1>6, <1>7 DEF Chunked!EraseValue
<1>10. mem' = Destroy(Assign(mem, p, q), p + r.next - 1, p + Len(t))
  BY <1>8, SameOperators
<1> HIDE DEF p, t
<1>11. r \in Removals(Len(t)) /\ KeptSome(r, t, Len(t))
  BY <1>4, RemovalKeeps
<1> HIDE DEF r
<1>12. r.next \in 1 .. Len(t) + 1
  BY <1>11 DEF KeptSome
<1> DEFINE z == SubSeq(q, 1, r.next - 1)
<1>13. Changed(mem, mem', p, z) /\ q \in Seq(Alive) /\ Len(q) = Len(t)
  BY <1>4, <1>5, <1>10, <1>11, <1>12, ErasedIn, ChunkedAssumption
<1>14. \A x : Cardinality(Chunked!Positions(z, x)) <= Cardinality(Chunked!Positions(t, x))
  BY <1>4, <1>11, FewerPositions
<1> HIDE DEF q
<1>15. z \in Seq(Alive) /\ Len(z) = r.next - 1 /\ Len(z) <= BlockSize
  <2> DEFINE k == r.next - 1
             l == Len(t)
  <2>1. k \in 0 .. l /\ l \in 0 .. BlockSize /\ BlockSize \in Nat
    BY <1>4, <1>12, ChunkedAssumption
  <2>2. k \in 0 .. Len(q)
    BY <1>13, <2>1
  <2> HIDE DEF k, l
  <2>3. SubSeq(q, 1, k) \in Seq(Alive) /\ Len(SubSeq(q, 1, k)) = k
    BY <1>13, <2>2, PrefixIs
  <2>4. k <= BlockSize
    BY <2>1
  <2> QED
    BY <2>3, <2>4 DEF k
<1> HIDE DEF z
<1>16. Clean(mem')
  BY <1>13 DEF Changed
<1>17. ASSUME NEW d \in 1 .. blockNum
       PROVE  Found(mem', elements', sizes', d) = IF d = b THEN z ELSE blocks[d]
  <2> DEFINE w == elements.begin + Off(d)
             u == IF d = b THEN z ELSE blocks[d]
  <2>1. /\ d \in Nat \ {0} /\ d \in 1 .. Len(sizes) /\ BlockFits(w) /\ BlockIs(mem, w, blocks[d])
        /\ blocks[d] \in Seq(Alive) /\ Len(blocks[d]) <= BlockSize /\ sizes[d] = Len(blocks[d])
    <3>1. Len(blocks[d]) \in 0 .. BlockSize
      BY GoodBlockIs
    <3>2. Len(blocks[d]) <= BlockSize
      BY <3>1, ChunkedAssumption
    <3> QED
      BY <3>2, GoodBlockIs
  <2>2. BlockIs(mem', w, u) /\ u \in Seq(Alive) /\ Len(u) <= BlockSize /\ sizes'[d] = Len(u)
    <3>1. CASE d = b
      <4>1. sizes'[d] = Len(z)
        BY <1>4, <1>5, <1>9, <1>15, <3>1
      <4>2. BlockIs(mem', w, z)
        BY <1>13, <3>1 DEF Changed, p
      <4> QED
        BY <1>15, <3>1, <4>1, <4>2
    <3>2. CASE d # b
      <4>1. sizes'[d] = sizes[d]
        BY <1>5, <1>9, <2>1, <3>2
      <4>2. ASSUME NEW x \in Address, InBlock(w, x) PROVE mem'.slot[x] = mem.slot[x]
        <5>1. x \in Int
          BY AddressType
        <5>2. ~ InBlock(p, x)
          BY <1>4, <2>1, <3>2, <4>2, <5>1, BlocksApart DEF p
        <5> QED
          BY <1>13, <5>2 DEF Changed
      <4>3. BlockIs(mem', w, blocks[d])
        <5> HIDE DEF w
        <5> QED
          BY <2>1, <4>2 DEF BlockIs
      <4> QED
        BY <2>1, <3>2, <4>1, <4>3
    <3> QED
      BY <3>1, <3>2
  <2> HIDE DEF u
  <2>3. Found(mem', elements, sizes', d) = u
    BY <1>16, <2>1, <2>2, FoundBlock
  <2> QED
    BY <1>9, <2>3 DEF u
<1>18. \A d \in 1 .. blockNum' : \A x \in Values :
         Cardinality(Chunked!Positions(Chunked!Contents'[d], x)) <= Cardinality(Chunked!Positions(blocks'[d], x))
  <2> SUFFICES ASSUME NEW d \in 1 .. blockNum, NEW x \in Values
               PROVE  Cardinality(Chunked!Positions(Chunked!Contents'[d], x)) <= Cardinality(Chunked!Positions(blocks[d], x))
    BY <1>1, <1>9
  <2>1. Chunked!Contents'[d] = IF d = b THEN z ELSE blocks[d]
    BY <1>9, <1>17, ContentsFound
  <2>2. CASE d = b
    BY <1>14, <2>1, <2>2 DEF t
  <2>3. CASE d # b
    <3>1. blocks[d] \in Seq(Alive)
      BY GoodBlockIs
    <3>2. Cardinality(Chunked!Positions(blocks[d], x)) \in Nat
      BY <3>1, PositionsAreFinite
    <3> QED
      BY <2>1, <2>3, <3>2
  <2> QED
    BY <2>2, <2>3
<1>19. mem'.faults = {} /\ misuse' # {}
  BY <1>2, <1>16 DEF Clean
<1>20. Chunked!CostOfChunkedMisuse'
  BY <1>2, <1>18, <1>19, ChunkedCardinality DEF Chunked!CostOfChunkedMisuse
<1>21. IsMemory(mem') /\ blockNum' \in 0 .. MaxBlocks
  BY <1>4, <1>5, <1>9, <1>16, CleanMemory, ChunkedAssumption
<1>22. Chunked!ChunkedTypeOK'
  BY <1>19, <1>21, ChunkedTypeIs
<1> QED
  BY <1>19, <1>20, <1>22
=============================================================================

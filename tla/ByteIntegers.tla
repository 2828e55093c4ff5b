----------------------------- MODULE ByteIntegers -----------------------------
(***************************************************************************)
(* MultiByteIntegers and OptionalMultiByteIntegers (containers/            *)
(* multi-byte-integers.hpp): integers of ElementBytes bytes packed in an   *)
(* array of bytes with padding at both ends, so that a word of IntBytes    *)
(* bytes can be read and written at every element of it.  want is the      *)
(* sequence the operations promise; nothing in the model reads it.  A byte *)
(* has ByteBase values, and one that nobody has written is Unset.          *)
(*                                                                         *)
(* outside says that a byte outside of the array has been accessed.        *)
(***************************************************************************)
EXTENDS Integers, Sequences, SequencesExt, Bitwise

CONSTANTS ElementBytes, IntBytes, Padding, ByteBase, MaxElements, Inputs, Digits

Unset == ByteBase
Mask == ByteBase ^ ElementBytes - 1

VARIABLES bytes, alloc, want, optional, outside

byteVars == <<bytes, alloc, want, optional, outside>>

\* Elements are counted from 0, byte numbers from 1; `old` is an array of bytes.
ByteSize(n) == n * ElementBytes
EffectiveAllocation(n) == ByteSize(n) + 2 * Padding
Size == (Len(bytes) - 2 * Padding) \div ElementBytes
At(i) == Padding + ByteSize(i) + 1
Blank(n) == [b \in 1..n |-> Unset]
Fill(n, v) == [i \in 1..n |-> v]

\* ValueOptional keeps one value for the empty state, here the one with every bit set.
EmptyValue == Mask
DefaultValue == IF optional THEN EmptyValue ELSE 0

-----------------------------------------------------------------------------
\* A word is read and what is not the element's is masked away, or shifted out.
Unpack(word) ==
  IF \E b \in 1..ElementBytes : word[b] = Unset THEN -1
  ELSE FoldLeft(LAMBDA s, b : s + word[b] * ByteBase ^ (b - 1), 0, [b \in 1..ElementBytes |-> b])
Load(i) == Unpack(SubSeq(bytes, At(i), At(i) + IntBytes - 1))
Ends == <<Load(0), Load(Size - 1)>>  \* front and back

Packed(v, width) == [b \in 1..width |-> (v \div ByteBase ^ (b - 1)) % ByteBase]
Overwrite(old, at, new) == [b \in DOMAIN old |-> IF b \in at .. at + Len(new) - 1 THEN new[b - at + 1] ELSE old[b]]

\* A plausible mistake: the word is written also where an element follows.
StoreWord(old, at, v) == Overwrite(old, at, Packed(v, IntBytes))

Store(old, at, v) == Overwrite(old, at, Packed(v, ElementBytes))
StoreFull(old, at, v) == Overwrite(old, at, Packed(v, IntBytes))
StoreAll(old, at, vs) ==
  FoldLeft(LAMBDA s, i : Store(s, at + ByteSize(i - 1), vs[i]), old, [i \in 1 .. Len(vs) |-> i])

-----------------------------------------------------------------------------
\* The array of bytes, whose allocation grows to a power of two and never shrinks by itself.
BitWidth(n) == CHOOSE k \in 0..Digits : 2 ^ k > n /\ \A j \in 0 .. k - 1 : 2 ^ j <= n
Grown(size) == IF size <= alloc THEN alloc ELSE 2 ^ BitWidth(size)

Becomes(b, a, w) ==
  /\ Len(w) <= MaxElements
  /\ bytes' = b /\ alloc' = a /\ want' = w
  /\ outside' = (outside \/ \E i \in 0 .. Len(w) - 1 :
                   Padding + ByteSize(i) + IntBytes > Len(b) \/ Len(b) # EffectiveAllocation(Len(w)))
  /\ UNCHANGED optional

Splice(s, i, j, t) == SubSeq(s, 1, i) \o t \o SubSeq(s, j + 1, Len(s))

ByteInit ==
  /\ optional \in BOOLEAN
  /\ bytes = Blank(2 * Padding) /\ alloc = 2 * Padding /\ want = <<>> /\ outside = FALSE

\* create_all_set, create_empty (every bit set), create_zero, a size and an initializer list
Create(vs) ==
  LET n == EffectiveAllocation(Len(vs)) IN
  /\ want = <<>>
  /\ Becomes(IF \E i \in DOMAIN vs : vs[i] = -1 THEN Blank(n) ELSE StoreAll(Blank(n), At(0), vs), n, vs)

PushBack(v) ==
  LET n == Len(bytes) + ElementBytes IN
  Becomes(StoreFull(bytes \o Blank(ElementBytes), At(Size), v), Grown(n), Append(want, v))

PopBack ==
  /\ Size > 0
  /\ Becomes(SubSeq(bytes, 1, Len(bytes) - ElementBytes), alloc, Front(want))

Reserve(n) == Becomes(bytes, Grown(EffectiveAllocation(n)), want)

Capacity == (alloc - 2 * Padding) \div ElementBytes

ShrinkToFit ==
  LET n == EffectiveAllocation(Size) IN
  IF alloc = n THEN UNCHANGED byteVars
  ELSE Becomes(Overwrite(Blank(n), At(0), SubSeq(bytes, At(0), At(Size) - 1)), n, want)

\* The elements are written in rising order, each over what the one before has spilled; promised is
\* what their values are said to be.
Resize(n, v, promised) ==
  LET longer == bytes \o Blank(ByteSize(n - Size))
      Fresh(s, i) == StoreFull(s, At(Size + i - 1), v) IN
  IF n < Size THEN Becomes(SubSeq(bytes, 1, EffectiveAllocation(n)), alloc, SubSeq(want, 1, n))
  ELSE Becomes(FoldLeft(Fresh, longer, [i \in 1 .. n - Size |-> i]), Grown(EffectiveAllocation(n)),
               want \o Fill(n - Size, promised))

\* Zeros are promised; an optional has no zeros then but empty values, of which nothing is said.
ResizeDefault(n) == Resize(n, DefaultValue, IF optional THEN -1 ELSE 0)

Cleared == SubSeq(bytes, 1, EffectiveAllocation(0))
Clear == Size > 0 /\ Becomes(Cleared, alloc, <<>>)

\* assign: clear, then resize or insert; the bytes that are cut off count for nothing.
Assign(vs) ==
  Becomes(StoreAll(Cleared \o Blank(ByteSize(Len(vs))), At(0), vs), Grown(EffectiveAllocation(Len(vs))), vs)

SetAll(first, last) ==
  /\ first <= last /\ last <= Size
  /\ Becomes(Overwrite(bytes, At(first), Fill(ByteSize(last - first), ByteBase - 1)), alloc,
             [i \in DOMAIN want |-> IF i \in first + 1 .. last THEN Mask ELSE want[i]])

\* insert_any: a gap in front of element i, and one of pad elements in front of the back padding.
\* The bytes are moved once; the values of the new ones are not looked at.
InsertAny(i, n, pad) ==
  LET opened == Splice(bytes, At(i) - 1, At(i) - 1, Blank(ByteSize(n)))
      back == Len(opened) - Padding
  IN  Splice(opened, back, back, Blank(ByteSize(pad)))

\* insert of values, of one and of none, that are not the array's own; pad elements are left unset.
Insert(i, vs, pad) ==
  LET more == ByteSize(Len(vs) + pad) IN
  IF vs = <<>> /\ pad = 0 THEN UNCHANGED byteVars
  ELSE Becomes(StoreAll(InsertAny(i, Len(vs), pad), At(i), vs), Grown(Len(bytes) + more),
               Splice(want, i, i, vs) \o Fill(pad, -1))

\* What follows moves down, and the end of the array is cut off, not the padding.
Erase(first, last) ==
  /\ first <= last /\ last <= Size
  /\ LET moved == Overwrite(bytes, At(first), SubSeq(bytes, At(last), At(Size) - 1)) IN
     Becomes(SubSeq(moved, 1, Len(bytes) - ByteSize(last - first)), alloc, Splice(want, first, last, <<>>))

\* IntRef: an assignment, a compound one, whose result has to fit, and swap.
Modify(i, v) == i < Size /\ Becomes(Store(bytes, At(i), v), alloc, [want EXCEPT ![i + 1] = v])

Compound(i, rhs) ==
  LET old == Load(i) IN
  /\ ~optional /\ i < Size /\ old # -1
  /\ \E v \in {old + rhs, old - rhs, old * rhs, old & rhs, old | rhs, old ^^ rhs, old * 2 ^ rhs, old \div 2 ^ rhs}
             \cup UNION {{old \div r, old % r} : r \in {rhs} \ {0}} :
       v \in 0..Mask /\ Modify(i, v)

\* The optional's clear and set; what is set is not the value that stands for none.
ClearValue(i) == optional /\ Modify(i, EmptyValue)
SetValue(i, v) == optional /\ v # EmptyValue /\ Modify(i, v)
HasValue(i) == Load(i) # EmptyValue

SwapElements(i, j) ==
  /\ i < j /\ j < Size /\ Load(i) # -1 /\ Load(j) # -1
  /\ Becomes(Store(Store(bytes, At(i), Load(j)), At(j), Load(i)), alloc,
             [want EXCEPT ![i + 1] = want[j + 1], ![j + 1] = want[i + 1]])

Indices == 0 .. MaxElements - 1
Lists == {<<>>} \cup {<<v>> : v \in Inputs} \cup (Inputs \X Inputs)

ByteNext ==
  \/ \E vs \in Lists \cup {<<-1, -1>>} : Create(vs)
  \/ \E v \in Inputs : PushBack(v)
  \/ PopBack \/ ShrinkToFit \/ Clear
  \/ \E n \in 0..MaxElements : Reserve(n) \/ ResizeDefault(n) \/ \E v \in Inputs : Resize(n, v, v)
  \/ \E vs \in Lists : Assign(vs) \/ \E i \in 0..Size, pad \in 0..1 : Insert(i, vs, pad)
  \/ \E i, j \in 0..Size : SetAll(i, j) \/ Erase(i, j)
  \/ \E i \in Indices, v \in Inputs \cup {DefaultValue} : Modify(i, v) \/ Compound(i, v) \/ SetValue(i, v)
  \/ \E i \in Indices : ClearValue(i)
  \/ \E i, j \in Indices : SwapElements(i, j)

ByteSpec == ByteInit /\ [][ByteNext]_byteVars

-----------------------------------------------------------------------------
\* An iterator is a place in the array; the reverse one looks one element below its own.
Begin == At(0)
End == At(Size)
Deref(it) == Unpack(SubSeq(bytes, it, it + IntBytes - 1))
Advance(it, d) == it + d * ElementBytes
Distance(a, b) == (b - a) \div ElementBytes
DerefReverse(it) == Deref(Advance(it, -1))
SubRange(first, last) == [begin |-> Advance(Begin, first), size |-> last - first]

\* An element has the value last given to it, whatever its neighbours and the paddings have gone
\* through, so a word is only written where it meets no element; forwards, backwards and through
\* a view; the array has room for it, and no access to an element leaves the array.
BytesHoldElements ==
  /\ ~outside /\ Len(bytes) <= alloc
  /\ Size = Len(want) /\ Size <= Capacity
  /\ \A i \in 1..Size : want[i] # -1 => Load(i - 1) = want[i]
  /\ Size > 0 => Ends = <<Load(0), DerefReverse(End)>>
  /\ \A i \in 1..Size : optional /\ want[i] # -1 => (HasValue(i - 1) <=> want[i] # EmptyValue)
  /\ Distance(Begin, End) = Size
  /\ \A i \in 0 .. Size - 1 : /\ want[i + 1] # -1 => Deref(Advance(Begin, i)) = want[i + 1]
                              /\ DerefReverse(Advance(End, -i)) = Load(Size - 1 - i)
  /\ \A i \in 0..Size : \A j \in i..Size :
       LET r == SubRange(i, j)
       IN  Advance(r.begin, r.size) <= End /\ \A k \in 0 .. r.size - 1 : Deref(Advance(r.begin, k)) = Load(i + k)
=============================================================================

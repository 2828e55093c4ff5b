-------------------------------- MODULE Bits --------------------------------
(***************************************************************************)
(* Elements packed into chunks: the bits of DynamicBitset, FixedBitset and *)
(* StaticBitset, and the integers of MultiBitIntegers.  A chunk is the set *)
(* of its bits that are one, so a mask is a set, |= a union, &= ~ a        *)
(* difference, and << adds to each member.  An element is `Width` bits     *)
(* wide.                                                                   *)
(*                                                                         *)
(* Threads write elements at the same time: atomically (set_if_unset, the  *)
(* stores with a memory order) or plainly, by reading the chunk, changing  *)
(* it and writing it back.  want is what the elements were last made,      *)
(* claims how many calls have been told that they set a bit since it was   *)
(* last unset, and torn has the chunks in which a plain write has undone   *)
(* what was written meanwhile: nothing is promised of those.               *)
(***************************************************************************)
EXTENDS Integers, Sequences, FiniteSets, FiniteSetsExt, SequencesExt

CONSTANTS Threads, PerChunk, MaxSize, IntWidth

VARIABLES kind, chunks, size, want, claims, torn, pc

bitVars == <<kind, chunks, size, want, claims, torn, pc>>

Kinds == {"dynamic", "fixed", "static", "ints"}
Width == IF kind = "ints" THEN IntWidth ELSE 1
ChunkBits == PerChunk * Width
OneChunk == 0 .. ChunkBits - 1
BitValues == {{}, 0 .. Width - 1}
Unwritten == {-1}
Idle == [op |-> "idle"]

DivCeil(a, b) == a \div b + (IF a % b # 0 THEN 1 ELSE 0)
ChunkNum(n) == DivCeil(n, PerChunk)
ChunkOf(i) == 1 + i \div PerChunk
Offset(i) == Width * (i % PerChunk)
Shifted(v, by) == {b + by : b \in v}
Mask(i) == Shifted(0 .. Width - 1, Offset(i))

\* update_chunk; with one bit, |= the mask or &= its complement
UpdateChunk(chunk, i, v) == (chunk \ Mask(i)) \cup Shifted(v, Offset(i))
Get(i) == Shifted(chunks[ChunkOf(i)] \cap Mask(i), -Offset(i))

-----------------------------------------------------------------------------
(* Plausible mistakes, to stand in for the definition they misspell. *)

\* set_if_unset looks at the bit behind.
ClaimedByNextBit(chunk, i) == chunk \cap Mask(i + 1) = {}

\* The compare-exchange loop ends with the first exchange, failed or not.
StoreOnce(t) ==
  /\ pc[t].op = "cas"
  /\ IF chunks[ChunkOf(pc[t].i)] = pc[t].seen
     THEN chunks' = [chunks EXCEPT ![ChunkOf(pc[t].i)] = UpdateChunk(@, pc[t].i, pc[t].v)]
     ELSE UNCHANGED chunks
  /\ want' = [want EXCEPT ![pc[t].i] = pc[t].v]
  /\ claims' = [claims EXCEPT ![pc[t].i] = 0]
  /\ pc' = [pc EXCEPT ![t] = Idle]
  /\ UNCHANGED <<kind, size, torn>>

\* The last chunk is counted to its end.
CountBeyondTheSize(low) ==
  LET partial == {k \in 1..Len(chunks) : low[chunks[k]] # ChunkBits}
  IN  IF partial = {} THEN Len(chunks) * ChunkBits
      ELSE (CHOOSE k \in partial : \A l \in partial : k <= l) * ChunkBits - ChunkBits
             + low[chunks[CHOOSE k \in partial : \A l \in partial : k <= l]]

-----------------------------------------------------------------------------
(* Construction and the operations of a single owner. *)

\* A chunk that is not initialised holds any bits; two of them stand for all.
Garbage == {{}, OneChunk}
Quiet == \A t \in Threads : pc[t].op = "idle"

Becomes(c, n, w) ==
  /\ Quiet
  /\ chunks' = c /\ size' = n
  /\ want' = [i \in 0 .. MaxSize - 1 |-> IF i < n THEN w[i] ELSE Unwritten]
  /\ claims' = [i \in 0 .. MaxSize - 1 |-> 0]
  /\ torn' = {k \in torn : k <= Len(c)}
  /\ UNCHANGED <<kind, pc>>

BitsInit ==
  /\ kind \in Kinds
  /\ size \in 0 .. MaxSize
  /\ chunks \in [1 .. ChunkNum(size) -> Garbage]
  /\ want = [i \in 0 .. MaxSize - 1 |-> Unwritten]
  /\ claims = [i \in 0 .. MaxSize - 1 |-> 0]
  /\ torn = {}
  /\ pc = [t \in Threads |-> Idle]

Fill(v) ==
  /\ kind # "ints"
  /\ Becomes([k \in 1 .. Len(chunks) |-> IF v = {} THEN {} ELSE OneChunk], size, [i \in 0 .. MaxSize - 1 |-> v])

\* MultiBitIntegers(size, value)
FillIntegers(v) ==
  /\ kind = "ints"
  /\ Becomes([k \in 1 .. Len(chunks) |-> UNION {Shifted(v, IntWidth * j) : j \in 0 .. PerChunk - 1}],
             size, [i \in 0 .. MaxSize - 1 |-> v])

PushBack(v) ==
  /\ kind = "dynamic" /\ size < MaxSize
  /\ Becomes(IF size = Len(chunks) * ChunkBits THEN Append(chunks, v)
             ELSE [chunks EXCEPT ![Len(chunks)] = UpdateChunk(@, size, v)],
             size + 1, [want EXCEPT ![size] = v])

Clear == kind = "dynamic" /\ Becomes(<<>>, 0, want)

\* New chunks are default-initialised, and bits that were cut off come back as they were.
Resize(n) ==
  /\ kind = "dynamic"
  /\ \E g \in Garbage :
       Becomes([k \in 1 .. ChunkNum(n) |-> IF k <= Len(chunks) THEN chunks[k] ELSE g], n, want)

\* The constructors of FixedBitset and StaticBitset from bits.
GeneratedChunk(bits, k) ==
  LET offset == (k - 1) * ChunkBits
  IN  {j \in 0 .. ChunkBits - 1 : offset + j < Len(bits) /\ bits[offset + j + 1] = {0}}
FromBits(bits) ==
  /\ kind \in {"fixed", "static"}
  /\ Becomes([k \in 1 .. ChunkNum(Len(bits)) |-> GeneratedChunk(bits, k)],
             size, [i \in 0 .. MaxSize - 1 |-> IF i < size THEN bits[i + 1] ELSE {}])

-----------------------------------------------------------------------------
(* Writes of one thread among others. *)

Settle(t, i, c, v, won) ==
  /\ chunks' = [chunks EXCEPT ![ChunkOf(i)] = c]
  /\ want' = [want EXCEPT ![i] = v]
  /\ claims' = [claims EXCEPT ![i] = IF v = {} THEN 0 ELSE IF won THEN @ + 1 ELSE @]
  /\ pc' = [pc EXCEPT ![t] = Idle]
  /\ UNCHANGED <<kind, size>>

\* set, unset, the bit references' =, |= and &=, SetProxy's = and set_bit: read, then write back.
ReadChunk(t, i, v) ==
  /\ pc[t].op = "idle"
  /\ pc' = [pc EXCEPT ![t] = [op |-> "plain", i |-> i, v |-> v, seen |-> chunks[ChunkOf(i)]]]
  /\ UNCHANGED <<kind, chunks, size, want, claims, torn>>

WriteChunk(t) ==
  /\ pc[t].op = "plain"
  /\ LET i == pc[t].i
     IN  /\ Settle(t, i, UpdateChunk(pc[t].seen, i, pc[t].v), pc[t].v, FALSE)
         /\ torn' = IF chunks[ChunkOf(i)] = pc[t].seen THEN torn ELSE torn \cup {ChunkOf(i)}

\* What set_if_unset returns of the chunk that fetch_or has found.
Claimed(chunk, i) == chunk \cap Mask(i) = {}
SetIfUnset(t, i) ==
  /\ kind = "dynamic" /\ pc[t].op = "idle" /\ claims[i] < 2
  /\ Settle(t, i, chunks[ChunkOf(i)] \cup Mask(i), {0}, Claimed(chunks[ChunkOf(i)], i))
  /\ UNCHANGED torn

\* MutableBitReference::store: fetch_or or fetch_and
StoreBit(t, i, v) ==
  /\ kind # "ints" /\ pc[t].op = "idle"
  /\ Settle(t, i, UpdateChunk(chunks[ChunkOf(i)], i, v), v, FALSE)
  /\ UNCHANGED torn

\* SetProxy::set_bit with a memory order: one bit of an integer
StoreBitOfInteger(t, i, b, bit) ==
  /\ kind = "ints" /\ pc[t].op = "idle" /\ want[i] # Unwritten
  /\ LET With(s, p) == IF bit THEN s \cup {p} ELSE s \ {p}
     IN  Settle(t, i, With(chunks[ChunkOf(i)], b + Offset(i)), With(want[i], b), FALSE)
  /\ UNCHANGED torn

\* SetProxy::store: the chunk is read and exchanged unless it has changed in between.
LoadForStore(t, i, v) ==
  /\ kind = "ints" /\ pc[t].op = "idle"
  /\ pc' = [pc EXCEPT ![t] = [op |-> "cas", i |-> i, v |-> v, seen |-> chunks[ChunkOf(i)]]]
  /\ UNCHANGED <<kind, chunks, size, want, claims, torn>>

Store(t) ==
  /\ pc[t].op = "cas"
  /\ LET i == pc[t].i
     IN  IF chunks[ChunkOf(i)] = pc[t].seen
         THEN Settle(t, i, UpdateChunk(pc[t].seen, i, pc[t].v), pc[t].v, FALSE)
         ELSE /\ pc' = [pc EXCEPT ![t].seen = chunks[ChunkOf(i)]]
              /\ UNCHANGED <<kind, chunks, size, want, claims>>
  /\ UNCHANGED torn

\* Nothing is looked at any more once a plain write has undone another one.
BitsNext ==
  /\ torn = {}
  /\ \/ Clear
     \/ \E v \in BitValues : Fill(v) \/ FillIntegers(v) \/ PushBack(v)
     \/ \E n \in 0 .. MaxSize : Resize(n)
     \/ kind \in {"fixed", "static"} /\ \E bits \in [1 .. size -> {{}, {0}}] : FromBits(bits)
     \/ \E t \in Threads :
          \/ WriteChunk(t) \/ Store(t)
          \/ \E i \in 0 .. size - 1 :
               \/ SetIfUnset(t, i)
               \/ \E v \in BitValues : ReadChunk(t, i, v) \/ StoreBit(t, i, v) \/ LoadForStore(t, i, v)
               \/ \E b \in 0 .. IntWidth - 1, bit \in BOOLEAN : StoreBitOfInteger(t, i, b, bit)

BitsSpec == BitsInit /\ [][BitsNext]_bitVars

-----------------------------------------------------------------------------
(* countr_zero and countr_one *)

Reached(stop, n) == IF stop = {} THEN n ELSE Min(stop)
LowOnes == [chunk \in SUBSET OneChunk |-> Reached(OneChunk \ chunk, ChunkBits)]
LowZeros == [chunk \in SUBSET OneChunk |-> Reached(chunk, ChunkBits)]
Smaller(a, b) == IF a < b THEN a ELSE b

\* DynamicBitset and FixedBitset: all chunks but the last one, then the last one up to the size
Count(low) ==
  IF size = 0 THEN 0
  ELSE LET last == Len(chunks)
           partial == {k \in 1 .. last - 1 : low[chunks[k]] # ChunkBits}
       IN  IF partial # {} THEN low[chunks[Min(partial)]] + (Min(partial) - 1) * ChunkBits
           ELSE Smaller((last - 1) * ChunkBits + low[chunks[last]], size)

\* StaticBitset: the full chunks, then the one that is not full
StaticCount(low) ==
  LET full == size \div ChunkBits
      partial == {k \in 1 .. full : low[chunks[k]] # ChunkBits}
  IN  IF Len(chunks) = 1 THEN Smaller(low[chunks[1]], size)
      ELSE IF partial # {} THEN low[chunks[Min(partial)]] + (Min(partial) - 1) * ChunkBits
      ELSE IF full # Len(chunks) THEN Smaller(full * ChunkBits + low[chunks[Len(chunks)]], size)
      ELSE size

-----------------------------------------------------------------------------
BitsTypeOK ==
  /\ kind \in Kinds /\ size \in 0 .. MaxSize
  /\ chunks \in Seq(SUBSET OneChunk) /\ Len(chunks) = ChunkNum(size)
  /\ want \in [0 .. MaxSize - 1 -> {Unwritten} \cup SUBSET (0 .. Width - 1)]
  /\ claims \in [0 .. MaxSize - 1 -> 0 .. 2]
  /\ torn \subseteq 1 .. Len(chunks)
  /\ \A t \in Threads : pc[t].op \in {"idle", "plain", "cas"}

\* Every element is what was last written to it, whatever was written to its neighbours at the
\* same time, unless a plain write of the chunk has overtaken another one.
ElementsAreLastWrites ==
  \A i \in 0 .. size - 1 : want[i] = Unwritten \/ ChunkOf(i) \in torn \/ Get(i) = want[i]

\* Of the calls of set_if_unset for a bit, at most one is told that it has set it.
OneClaims == \A i \in 0 .. size - 1 : claims[i] <= 1 \/ ChunkOf(i) \in torn

\* The counts are those of the elements: bits beyond the size, whatever they are, do not count.
CountsItsBits ==
  kind # "ints" =>
    LET First(v) == Reached({i \in 0 .. size - 1 : Get(i) # v}, size)
    IN  IF kind = "static" THEN StaticCount(LowZeros) = First({}) /\ StaticCount(LowOnes) = First({0})
        ELSE Count(LowZeros) = First({}) /\ Count(LowOnes) = First({0})
=============================================================================

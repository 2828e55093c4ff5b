----------------------------- MODULE Containers -----------------------------
(***************************************************************************)
(* A program that uses one part of the container library: the arrays that  *)
(* own one allocation and the chunked array (ManagedArrays), a nested      *)
(* array that is being built, a flat map, or a structure of bits that      *)
(* threads share. The parts have nothing in common but the memory they     *)
(* manage, so what a program does with several of them adds nothing to     *)
(* what it does with each: part says which one it is, and the variables of *)
(* the others stay unused.  kind, want and misuse are those of the part.   *)
(***************************************************************************)
EXTENDS ManagedArrays, TLC

CONSTANTS N, MaxGroups, MaxLength,       \* of NestedArray
          Keys, Mapped,                  \* of FlatMap
          Threads, PerChunk, MaxSize, IntWidth  \* of Bits

ASSUME BitsAssumption ==
  PerChunk \in Nat \ {0} /\ MaxSize \in Nat /\ IntWidth \in Nat \ {0}

ASSUME FlatAssumption == Keys \in SUBSET Int /\ IsFiniteSet(Keys) /\ Mapped \in SUBSET Int /\ Mapped # {}

ASSUME NestedAssumption == N \in Nat \ {0} /\ MaxGroups \in Nat /\ MaxLength \in Nat

VARIABLES part,
          flat, lens, bound, offsets, values, offsetAt, valueAt, built,
          isSet, data, dict, descending, wrongOrder,
          chunks, size, claims, torn, pc

Nested == INSTANCE NestedArray
Flat == INSTANCE FlatMap
Bit == INSTANCE Bits

nestedOnly == <<flat, lens, bound, offsets, values, offsetAt, valueAt, built>>
flatOnly == <<isSet, data, dict, descending, wrongOrder>>
bitsOnly == <<chunks, size, claims, torn, pc>>
containerVars == <<part, arrayVars, chunkedOnly, nestedOnly, flatOnly, bitsOnly>>

Unused == <<>>
NoMemory == mem = Unused /\ misuse = Unused
NoChunked == elements = Unused /\ sizes = Unused /\ blockNum = Unused /\ handle = Unused /\ blocks = Unused
NoNested ==
  /\ flat = Unused /\ lens = Unused /\ bound = Unused /\ built = Unused
  /\ offsets = Unused /\ values = Unused /\ offsetAt = Unused /\ valueAt = Unused
NoFlat == isSet = Unused /\ data = Unused /\ dict = Unused /\ descending = Unused /\ wrongOrder = Unused
NoBits == chunks = Unused /\ size = Unused /\ claims = Unused /\ torn = Unused /\ pc = Unused

ContainersInit ==
  \/ /\ part = "arrays" /\ ArraysInit
     /\ NoChunked /\ NoNested /\ NoFlat /\ NoBits
  \/ /\ part = "chunked" /\ Chunked!ChunkedInit
     /\ arr = Unused /\ want = Unused /\ kind = Unused /\ NoNested /\ NoFlat /\ NoBits
  \/ /\ part = "nested" /\ Nested!NestedInit
     /\ arr = Unused /\ want = Unused /\ kind = Unused /\ NoMemory /\ NoChunked /\ NoFlat /\ NoBits
  \/ /\ part = "flat" /\ Flat!FlatInit
     /\ arr = Unused /\ want = Unused /\ kind = Unused /\ NoMemory /\ NoChunked /\ NoNested /\ NoBits
  \/ /\ part = "bits" /\ Bit!BitsInit
     /\ arr = Unused /\ NoMemory /\ NoChunked /\ NoNested /\ NoFlat

ContainersNext ==
  /\ UNCHANGED part
  /\ \/ part = "arrays" /\ ArraysNext /\ UNCHANGED <<chunkedOnly, nestedOnly, flatOnly, bitsOnly>>
     \/ part = "chunked" /\ Chunked!ChunkedNext /\ UNCHANGED <<arr, want, kind, nestedOnly, flatOnly, bitsOnly>>
     \/ part = "nested" /\ Nested!NestedNext /\ UNCHANGED <<arrayVars, chunkedOnly, flatOnly, bitsOnly>>
     \/ part = "flat" /\ Flat!FlatNext /\ UNCHANGED <<arrayVars, chunkedOnly, nestedOnly, bitsOnly>>
     \/ part = "bits" /\ Bit!BitsNext /\ UNCHANGED <<mem, arr, misuse, chunkedOnly, nestedOnly, flatOnly>>

ContainersSpec == ContainersInit /\ [][ContainersNext]_containerVars

\* Values, arrays and threads are told apart by nothing but their names.
Symmetric == Permutations(Values) \cup Permutations(Arrays) \cup Permutations(Threads)

-----------------------------------------------------------------------------
\* Arrays: no element is constructed or destroyed twice, used outside of its life or left behind,
\* and no allocation is lost or has two owners, through growth, insertion, erasure, assignment and
\* allocations that fail.
ArraysOwnTheirElements == part = "arrays" => ArraysTypeOK /\ ElementsLiveOnce

\* Arrays hold, element by element, the sequence that their operations promise, also while elements
\* shift over each other in place and when they move to another allocation; and what they do not
\* guard against costs what is said at CostOfMisuse, no more.
ArraysHoldTheirSequence == part = "arrays" => HoldsItsSequence /\ CostOfMisuse

\* Blocks of a chunked array hold what was put into them, in order, wherever they move, and nothing
\* else lives in its allocation; what is not guarded against costs what CostOfChunkedMisuse says.
BlocksHoldTheirElements ==
  part = "chunked" => Chunked!ChunkedTypeOK /\ Chunked!RightUnlessMisused /\ Chunked!CostOfChunkedMisuse

\* Builders of the parts of a nested array, however they interleave, give each group its elements.
PartsMakeTheGroups == part = "nested" => Nested!GroupsAreRight

\* A flat map keeps the sorted pairs of the function its operations promise, through unions and
\* differences in one pass too.
FlatMapsTheKeys == part = "flat" => Flat!MapsItsKeys

\* Bits and integers that share a chunk are what was last written to them, whatever other threads
\* write to their neighbours, unless a plain write has overtaken another one.
NeighboursKeepTheirBits == part = "bits" => Bit!BitsTypeOK /\ Bit!ElementsAreLastWrites

\* Of all calls of set_if_unset for a bit at most one is told that it has set it.
BitsAreClaimedOnce == part = "bits" => Bit!OneClaims

\* The counts of leading zeros and ones are those of the elements, whatever lies behind the last one.
CountsAreOfElements == part = "bits" => Bit!CountsItsBits
=============================================================================

------------------------------- MODULE Arrays -------------------------------
(***************************************************************************)
(* The arrays that own one allocation, each kind in a program of its own:  *)
(* DynamicArray with all of its operations, FixedArray (whose elements are *)
(* always all of its allocation), FixedAllocArray (which never grows),     *)
(* LimitedArray (whose elements lie in the object and live as long as it)  *)
(* and DynamicBuffer (whose elements are bytes from malloc).               *)
(***************************************************************************)
EXTENDS DynamicArray

VARIABLE kind

arrayVars == <<vars, kind>>

Kinds == {"dynamic", "fixed", "fixed_alloc", "limited", "buffer"}

ArraysInit == Init /\ kind \in Kinds

Lists == UNION {[1..k -> Values] : k \in 1..2}

-----------------------------------------------------------------------------
DynamicStep(n, o) ==
  \/ \E vs \in Lists : ConstructFrom(n, vs)
  \/ CopyConstruct(n, o) \/ MoveConstruct(n, o) \/ MoveAssignFrom(n, o)
  \/ CopyAssign(n, o) \/ CopyAssignFails(n, o)
  \/ Swap(n, o) \/ Clear(n) \/ ClearMemory(n) \/ PopBack(n)
  \/ \E size \in 0..MaxLen : Resize(n, size) \/ Reserve(n, size)
  \/ \E i, j \in 0 .. Size(arr[n]) : Erase(n, i, j)
  \/ \E i \in 0 .. Size(arr[n]) : EraseAt(n, i)
  \/ /\ Size(arr[n]) < MaxLen
     /\ \/ PushBackThrows(n)
        \/ \E v \in Values : PushBack(n, v) \/ \E i \in 0 .. Size(arr[n]) : Insert(n, i, v)
        \/ \E i \in 0 .. Size(arr[n]) : PushBackOwn(n, i)
        \/ \E i \in 0 .. Size(arr[n]), ins, pad \in 0..2 :
             Size(arr[n]) + ins + pad <= MaxLen /\ InsertAny(n, i, ins, pad)

\* A failed copy assignment leaves a FixedArray empty: its end is that of the allocation.
FixedCopyAssignFails(n, o) ==
  /\ n # o
  /\ ClearMemory(n)

\* A number of elements the policy makes, or a list of them; one value for all is a list of that length.
FixedConstruct(n) == \E vs \in Lists \cup {Inits(k) : k \in 1..MaxLen} : ConstructFrom(n, vs)

FixedStep(n, o) ==
  \/ FixedConstruct(n)
  \/ CopyConstruct(n, o) \/ MoveAssignFrom(n, o) \/ CopyAssign(n, o) \/ FixedCopyAssignFails(n, o)
  \/ Swap(n, o) \/ ClearMemory(n)

-----------------------------------------------------------------------------
CreateWithCapacity(n, capacity) ==
  /\ arr[n] = NullArray
  /\ LET c == Placed(mem, capacity) IN
     Becomes(n, AllocateMemory(mem, capacity), OfChunk(c, c.begin), <<>>)
  /\ UNCHANGED misuse

\* Copies the whole allocation, slots without elements included.
AllocCopyConstruct(n, o) ==
  /\ n # o /\ arr[n] = NullArray
  /\ LET c == Placed(mem, AllocationSize(arr[o])) IN
     Becomes(n, UninitializedCopy(AllocateMemory(mem, AllocationSize(arr[o])), arr[o].begin, arr[o].end, c.begin),
             OfChunk(c, c.begin + Size(arr[o])), want[o])
  /\ misuse' = IF arr[o].last # arr[o].end THEN {"partial copy"} ELSE misuse

AllocEmplaceBack(n, v) ==
  /\ arr[n].last # arr[n].end
  /\ PushBack(n, v)

AllocShrink(n) == PopBack(n) \/ Clear(n)

\* An object that has been constructed is moved from, swapped or destroyed; there is no assignment.
FixedAllocStep(n, o) ==
  \/ \E vs \in Lists : ConstructFrom(n, vs)
  \/ \E k \in 0..MaxLen : CreateWithCapacity(n, k)
  \/ AllocCopyConstruct(n, o)
  \/ MoveConstruct(n, o) \/ Swap(n, o) \/ ClearMemory(n) \/ AllocShrink(n)
  \/ \E v \in Values : AllocEmplaceBack(n, v)

-----------------------------------------------------------------------------
\* All capacity elements are there from the beginning; the size says which count.
LimitedConstruct(n, size) ==
  /\ arr[n] = NullArray
  /\ LET c == Placed(mem, MaxLen) IN
     Becomes(n, Initialize(AllocateMemory(mem, MaxLen), c.begin, c.end), OfChunk(c, c.begin + size), Inits(size))
  /\ UNCHANGED misuse

LimitedPushBack(n, v) ==
  /\ arr[n].last < arr[n].end
  /\ Becomes(n, Assign(mem, arr[n].last, <<v>>), [arr[n] EXCEPT !.last = @ + 1], Append(want[n], v))
  /\ UNCHANGED misuse

LimitedShrink(n, size) ==
  /\ size < Size(arr[n])
  /\ size \in {0, Size(arr[n]) - 1}  \* clear and pop_back
  /\ Becomes(n, mem, [arr[n] EXCEPT !.last = @ - (Size(arr[n]) - size)], SubSeq(want[n], 1, size))
  /\ UNCHANGED misuse

\* swap exchanges the elements, all of them, and the sizes.
LimitedSwap(n, o) ==
  LET held(k) == Held(mem, arr[k].begin, arr[k].end) IN
  /\ n # o /\ NullArray \notin {arr[n], arr[o]}
  /\ mem' = Assign(Assign(mem, arr[n].begin, held(o)), arr[o].begin, held(n))
  /\ arr' = [[arr EXCEPT ![n].last = @ + Size(arr[o]) - Size(arr[n])]
                  EXCEPT ![o].last = @ + Size(arr[n]) - Size(arr[o])]
  /\ want' = [[want EXCEPT ![n] = want[o]] EXCEPT ![o] = want[n]]
  /\ UNCHANGED misuse

LimitedStep(n, o) ==
  \/ \E k \in 0..MaxLen : LimitedConstruct(n, k) \/ LimitedShrink(n, k)
  \/ \E v \in Values : LimitedPushBack(n, v)
  \/ LimitedSwap(n, o)

-----------------------------------------------------------------------------
\* Bytes need no construction: an allocation is full of bytes of some value.
BufferConstruct(n, size) ==
  /\ arr[n] = NullArray /\ size > 0
  /\ LET c == Placed(mem, size) IN
     Becomes(n, Initialize(AllocateMemory(mem, size), c.begin, c.end), OfChunk(c, c.end), Inits(size))
  /\ UNCHANGED misuse

\* Nothing looks at what malloc returns.
BufferConstructFails(n, size) ==
  /\ arr[n] = NullArray /\ size > 0
  /\ Becomes(n, mem, [begin |-> Null, end |-> Null + size, last |-> Null + size], <<>>)
  /\ misuse' = {"failed malloc"}

\* realloc keeps all bytes of the allocation; one that fails throws and changes nothing.
BufferResize(n, size) ==
  LET a == arr[n]
      added == New(AllocationSize(a), Inits(size - AllocationSize(a))) IN
  /\ size # Size(a)
  /\ IF size <= AllocationSize(a)
     THEN Becomes(n, mem, [a EXCEPT !.last = a.begin + size], Held(mem, a.begin, a.begin + size))
     ELSE Becomes(n, ChunkExpand(mem, a, size, <<Move(a.begin, a.end, 0)>>, <<added>>),
                  OfChunk(Placed(mem, size), Placed(mem, size).end),
                  Held(mem, a.begin, a.end) \o Inits(size - AllocationSize(a)))
  /\ UNCHANGED misuse

BufferWrite(n, i, v) ==
  /\ i < Size(arr[n])
  /\ Becomes(n, Assign(mem, arr[n].begin + i, <<v>>), arr[n], [want[n] EXCEPT ![i + 1] = v])
  /\ UNCHANGED misuse

\* The move constructor, the only operation of two buffers.
BufferMove(n, o) ==
  /\ n # o /\ arr[n] = NullArray /\ arr[o] # NullArray
  /\ arr' = [[arr EXCEPT ![n] = arr[o]] EXCEPT ![o] = NullArray]
  /\ want' = [[want EXCEPT ![n] = want[o]] EXCEPT ![o] = <<>>]
  /\ UNCHANGED <<mem, misuse>>

BufferStep(n, o) ==
  \/ \E k \in 0..MaxLen : BufferConstruct(n, k) \/ BufferConstructFails(n, k) \/ BufferResize(n, k)
  \/ \E i \in 0 .. MaxLen - 1, v \in Values : BufferWrite(n, i, v)
  \/ BufferMove(n, o)

-----------------------------------------------------------------------------
ArraysNext ==
  /\ misuse = {}
  /\ UNCHANGED kind
  /\ \E n, o \in Arrays :
       \/ kind = "dynamic" /\ DynamicStep(n, o)
       \/ kind = "fixed" /\ FixedStep(n, o)
       \/ kind = "fixed_alloc" /\ FixedAllocStep(n, o)
       \/ kind = "limited" /\ LimitedStep(n, o)
       \/ kind = "buffer" /\ BufferStep(n, o)

ArraysSpec == ArraysInit /\ [][ArraysNext]_arrayVars

-----------------------------------------------------------------------------
ArraysTypeOK ==
  /\ mem.slot \in [Address -> {"free", "raw"} \cup Alive] /\ mem.faults \subseteq Faults
  /\ arr \in [Arrays -> [begin : Nat, end : Nat, last : Nat]]
  /\ \A n \in Arrays : want[n] \in Seq(Alive)
  /\ misuse \subseteq Misuses /\ kind \in Kinds

\* The slots in which n keeps objects.
Elements(n) == IF kind \in {"limited", "buffer"} THEN Span(arr[n].begin, arr[n].end)
                                                 ELSE Span(arr[n].begin, arr[n].last)

\* No element is constructed twice, destroyed twice, used before or after its life or left behind, no
\* allocation is lost or owned twice, by whatever sequence of operations through growth, insertion,
\* erasure, assignment and failed allocations, as long as the program has not misused an array.
ElementsLiveOnce ==
  misuse = {} =>
    /\ mem.faults = {}
    /\ \A a \in Address :
         /\ mem.slot[a] \in Alive <=> \E n \in Arrays : a \in Elements(n)
         /\ mem.slot[a] # "free" <=> \E n \in Arrays : a \in Span(arr[n].begin, arr[n].end)
    /\ \A n, o \in Arrays : n # o => Elements(n) \cap Elements(o) = {}

\* What an array holds is what its operations have promised, element by element, also while elements
\* shift over each other in place and when they move to another allocation.
HoldsItsSequence == misuse = {} => \A n \in Arrays : Held(mem, arr[n].begin, arr[n].last) = want[n]

\* What it costs to do what nothing guards against, and no more: push_back of an own element while
\* growing appends an element that has been moved from; an empty range that is erased, or inserted,
\* before the end moves the elements behind it onto themselves; a copy assignment whose allocation
\* fails leaves an end without a beginning; an element whose constructor throws while the array grows
\* takes an allocation, and the values of the other elements, with it; a FixedAllocArray that is not
\* full is copied together with what is no element; a buffer without memory has a size.
CostOfMisuse ==
  LET seq(n) == Held(mem, arr[n].begin, arr[n].last) IN
  /\ misuse = {"alias"} =>
       mem.faults = {} /\ \E n \in Arrays :
         seq(n) # <<>> /\ Last(seq(n)) = "moved" /\ Front(seq(n)) = Front(want[n])
  /\ misuse = {"empty range"} =>
       mem.faults = {} /\ \E n \in Arrays : \E i \in 1..Len(want[n]) :
         /\ Len(seq(n)) = Len(want[n]) /\ seq(n)[i] = "moved"
         /\ \A j \in 1..Len(want[n]) : seq(n)[j] \in {want[n][j], "moved"}
  /\ misuse = {"failed copy"} => mem.faults = {} /\ \E n \in Arrays : arr[n].begin = Null /\ Size(arr[n]) > 0
  /\ misuse = {"failed element"} =>
       /\ \E a \in Address : mem.slot[a] \in Alive /\ \A n \in Arrays : a \notin Span(arr[n].begin, arr[n].end)
       /\ \E n \in Arrays : want[n] # <<>> /\ \A i \in 1..Len(want[n]) : seq(n)[i] = "moved"
  /\ misuse = {"partial copy"} => mem.faults # {}
  /\ misuse = {"failed malloc"} => \E n \in Arrays : arr[n].begin = Null /\ Size(arr[n]) > 0

\* As the comment on erase says of an empty range ("An empty range is a no-op"): no element changes.
EmptyEraseIsNoOp ==
  [][\A n \in Arrays, i \in 0..MaxLen : kind = "dynamic" /\ Erase(n, i, i) => mem' = mem]_arrayVars
=============================================================================

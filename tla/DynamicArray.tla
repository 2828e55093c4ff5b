---------------------------- MODULE DynamicArray ----------------------------
(***************************************************************************)
(* Arrays of thesauros that own an allocation and the elements in its      *)
(* first slots: DynamicArray (containers/array/dynamic.hpp).  The names in *)
(* Arrays are objects of the program; want[n] is the sequence that the     *)
(* operations on n promise, which nothing in the model reads.              *)
(*                                                                         *)
(* Allocation happens before anything else changes in all operations but   *)
(* the copy assignment, so that one that fails leaves no trace (a stutter).*)
(* misuse collects what the program has done that the code does not guard  *)
(* against; the model goes no further then.                                *)
(***************************************************************************)
EXTENDS Memory

CONSTANTS Arrays, MaxLen  \* MaxLen bounds the sizes

\* There is a place for each array and one for an allocation that its elements move to; lists of two
\* elements and what growth gives fit into one.
ASSUME RoomAssumption ==
  /\ IsFiniteSet(Arrays) /\ Cardinality(Arrays) < Places
  /\ 2 <= MaxCap /\ MaxLen \in 0 .. MaxCap
  /\ \A size \in 1 .. MaxLen : GrownSize(size) \in size .. MaxCap

VARIABLES mem, arr, want, misuse

vars == <<mem, arr, want, misuse>>

Misuses == {"alias", "empty range", "failed copy", "failed element", "partial copy", "failed malloc"}

NullArray == [begin |-> Null, end |-> Null, last |-> Null]
OfChunk(c, last) == [begin |-> c.begin, end |-> c.end, last |-> last]

Size(a) == a.last - a.begin
AllocationSize(a) == a.end - a.begin

Init ==
  /\ mem = EmptyMemory
  /\ arr = [n \in Arrays |-> NullArray]
  /\ want = [n \in Arrays |-> <<>>]
  /\ misuse = {}

\* Elements i to j - 1 of s, counted from 0, give way to the sequence t.
Splice(s, i, j, t) == SubSeq(s, 1, i) \o t \o SubSeq(s, j + 1, Len(s))
Inits(k) == [i \in 1..k |-> "init"]

\* The only object that changes is n, and it ends up with a in memory m.
Becomes(n, m, a, w) ==
  /\ mem' = m
  /\ arr' = [arr EXCEPT ![n] = a]
  /\ want' = [want EXCEPT ![n] = w]

-----------------------------------------------------------------------------
(* Plausible mistakes, to stand in for the definition they misspell. *)

\* pop_back only moves the end.
PopBackKeeping(n) ==
  /\ Size(arr[n]) > 0
  /\ Becomes(n, mem, [arr[n] EXCEPT !.last = @ - 1], Front(want[n]))
  /\ UNCHANGED misuse

\* erase moves the elements behind the range to the second place of it.
EraseBehindFirst(n, i, j) ==
  LET a == arr[n]
      moved == MoveAssign(mem, a.begin + j, a.last, a.begin + i + 1) IN
  /\ i <= j /\ j <= Size(a)
  /\ Becomes(n, Destroy(moved, a.last - (j - i), a.last), [a EXCEPT !.last = @ - (j - i)], Splice(want[n], i, j, <<>>))
  /\ misuse' = IF i = j /\ j < Size(a) THEN {"empty range"} ELSE misuse

-----------------------------------------------------------------------------
\* An object made from a list of elements or by the initialisation policy.
ConstructFrom(n, vs) ==
  /\ arr[n] = NullArray /\ vs # <<>>
  /\ LET c == Placed(mem, Len(vs)) IN
     Becomes(n, Construct(AllocateMemory(mem, Len(vs)), c.begin, vs), OfChunk(c, c.end), vs)
  /\ UNCHANGED misuse

\* A copy has an allocation of the same size.
CopyConstruct(n, o) ==
  /\ n # o /\ arr[n] = NullArray
  /\ LET c == Placed(mem, AllocationSize(arr[o])) IN
     Becomes(n, UninitializedCopy(AllocateMemory(mem, AllocationSize(arr[o])), arr[o].begin, arr[o].last, c.begin),
             OfChunk(c, c.begin + Size(arr[o])), want[o])
  /\ UNCHANGED misuse

Destroyed(a) == Destroy(mem, a.begin, a.last)

\* Taking over what o has; assigning an object to itself leaves it empty.
MoveAssignFrom(n, o) ==
  /\ mem' = Deallocate(Destroyed(arr[n]), arr[n])
  /\ arr' = [[arr EXCEPT ![n] = arr[o]] EXCEPT ![o] = NullArray]
  /\ want' = [[want EXCEPT ![n] = want[o]] EXCEPT ![o] = <<>>]
  /\ UNCHANGED misuse

MoveConstruct(n, o) == arr[n] = NullArray /\ MoveAssignFrom(n, o)

CopyAssign(n, o) ==
  /\ n # o
  /\ LET d == Destroyed(arr[n])
         size == AllocationSize(arr[o])
         c == Reallocated(d, arr[n], size) IN
     Becomes(n, UninitializedCopy(ReallocateToDestroyed(d, arr[n], size), arr[o].begin, arr[o].last, c.begin),
             OfChunk(c, c.begin + Size(arr[o])), want[o])
  /\ UNCHANGED misuse

\* The allocation fails after the elements have been destroyed: data_end_ is left as it was.
CopyAssignFails(n, o) ==
  /\ n # o /\ arr[n] # NullArray
  /\ Becomes(n, Deallocate(Destroyed(arr[n]), arr[n]), OfChunk(NullChunk, arr[n].last), <<>>)
  /\ misuse' = {"failed copy"}

Swap(n, o) ==
  /\ n # o
  /\ arr' = [[arr EXCEPT ![n] = arr[o]] EXCEPT ![o] = arr[n]]
  /\ want' = [[want EXCEPT ![n] = want[o]] EXCEPT ![o] = want[n]]
  /\ UNCHANGED <<mem, misuse>>

Clear(n) ==
  /\ Becomes(n, Destroyed(arr[n]), [arr[n] EXCEPT !.last = arr[n].begin], <<>>)
  /\ UNCHANGED misuse

\* Also the destructor, after which the name stands for another object.
ClearMemory(n) ==
  /\ Becomes(n, Deallocate(Destroyed(arr[n]), arr[n]), NullArray, <<>>)
  /\ UNCHANGED misuse

-----------------------------------------------------------------------------
\* The elements move to an allocation that news complete.
AllocationExpand(a, size, news) == ChunkExpand(mem, a, GrownSize(size), <<Move(a.begin, a.last, 0)>>, news)
Moved(size, last) == LET c == Placed(mem, GrownSize(size)) IN OfChunk(c, c.begin + last)

Expand(n, size) ==
  LET a == arr[n]
      w == want[n] \o Inits(size - Size(a)) IN
  /\ size > Size(a)
  /\ IF size <= AllocationSize(a)
     THEN Becomes(n, Initialize(mem, a.last, a.begin + size), [a EXCEPT !.last = a.begin + size], w)
     ELSE Becomes(n, AllocationExpand(a, size, <<New(Size(a), Inits(size - Size(a)))>>), Moved(size, size), w)

Shrink(n, size) ==
  /\ size < Size(arr[n])
  /\ Becomes(n, Destroy(mem, arr[n].begin + size, arr[n].last), [arr[n] EXCEPT !.last = arr[n].begin + size],
             SubSeq(want[n], 1, size))

Resize(n, size) ==
  /\ Shrink(n, size) \/ Expand(n, size)
  /\ UNCHANGED misuse

Reserve(n, size) ==
  /\ size > AllocationSize(arr[n])
  /\ Becomes(n, AllocationExpand(arr[n], size, <<>>), Moved(size, Size(arr[n])), want[n])
  /\ UNCHANGED misuse

Full(n) == Size(arr[n]) + 1 > AllocationSize(arr[n])

\* The element is constructed after the others have moved, from what its argument is worth then.
EmplaceBack(n, new, w) ==
  LET a == arr[n] IN
  IF Full(n)
  THEN Becomes(n, AllocationExpand(a, Size(a) + 1, <<new>>), Moved(Size(a) + 1, Size(a) + 1), Append(want[n], w))
  ELSE Becomes(n, Construct(mem, a.last, Worth(mem, new)), [a EXCEPT !.last = @ + 1], Append(want[n], w))

PushBack(n, v) ==
  /\ EmplaceBack(n, New(Size(arr[n]), <<v>>), v)
  /\ UNCHANGED misuse

\* push_back(a[i]): a reference to an element of the array itself.
PushBackOwn(n, i) ==
  /\ i < Size(arr[n])
  /\ EmplaceBack(n, NewFrom(Size(arr[n]), arr[n].begin + i), want[n][i + 1])
  /\ misuse' = IF Full(n) THEN {"alias"} ELSE misuse

\* The constructor of the element throws: the new allocation belongs to nobody.
PushBackThrows(n) ==
  /\ Full(n) /\ Size(arr[n]) > 0
  /\ mem' = UninitializedMove(AllocateMemory(mem, GrownSize(Size(arr[n]) + 1)), arr[n].begin, arr[n].last,
                              Moved(Size(arr[n]) + 1, 0).begin)
  /\ misuse' = {"failed element"}
  /\ UNCHANGED <<arr, want>>

PopBack(n) ==
  /\ Size(arr[n]) > 0
  /\ Becomes(n, Destroy(mem, arr[n].last - 1, arr[n].last), [arr[n] EXCEPT !.last = @ - 1], Front(want[n]))
  /\ UNCHANGED misuse

-----------------------------------------------------------------------------
EraseAt(n, i) ==
  LET a == arr[n]
      moved == MoveAssign(mem, a.begin + i + 1, a.last, a.begin + i) IN
  /\ i < Size(a)
  /\ Becomes(n, Destroy(moved, a.last - 1, a.last), [a EXCEPT !.last = @ - 1], Splice(want[n], i, i + 1, <<>>))
  /\ UNCHANGED misuse

Erase(n, i, j) ==
  LET a == arr[n]
      moved == MoveAssign(mem, a.begin + j, a.last, a.begin + i) IN
  /\ i <= j /\ j <= Size(a)
  /\ Becomes(n, Destroy(moved, a.last - (j - i), a.last), [a EXCEPT !.last = @ - (j - i)], Splice(want[n], i, j, <<>>))
  /\ misuse' = IF i = j /\ j < Size(a) THEN {"empty range"} ELSE misuse

\* The gap is opened from its end, destroyed where it holds objects, and initialised.
InsertAny(n, i, ins, pad) ==
  LET a == arr[n]
      pos == a.begin + i
      size == Size(a) + ins + pad
      moved == IF Size(a) - i < ins THEN Size(a) - i ELSE ins
      last == a.last + ins + pad
      Opened(m) == MoveAssign(UninitializedMove(m, a.last - moved, a.last, a.last - moved + ins),
                              pos, a.last - moved, pos + ins)
      Filled(m) == Initialize(Initialize(Destroy(m, pos, pos + moved), pos, pos + ins), last - pad, last)
      moves == <<Move(a.begin, pos, 0), Move(pos, a.last, i + ins)>>
      news == <<New(i, Inits(ins)), New(Size(a) + ins, Inits(pad))>>
      w == Splice(want[n], i, i, Inits(ins)) \o Inits(pad) IN
  /\ i <= Size(a)
  /\ IF size <= AllocationSize(a)
     THEN Becomes(n, Filled(Opened(mem)), [a EXCEPT !.last = last], w)
     ELSE Becomes(n, ChunkExpand(mem, a, GrownSize(size), moves, news), Moved(size, size), w)
  /\ misuse' = IF ins = 0 /\ i < Size(a) /\ pad <= AllocationSize(a) - Size(a) THEN {"empty range"} ELSE misuse

Insert(n, i, v) ==
  LET a == arr[n]
      pos == a.begin + i
      Shifted == MoveAssign(UninitializedMove(mem, a.last - 1, a.last, a.last), pos, a.last - 1, pos + 1)
      moves == <<Move(a.begin, pos, 0), Move(pos, a.last, i + 1)>>
      w == Splice(want[n], i, i, <<v>>) IN
  /\ i <= Size(a)
  /\ CASE Full(n) -> Becomes(n, ChunkExpand(mem, a, GrownSize(Size(a) + 1), moves, <<New(i, <<v>>)>>),
                             Moved(Size(a) + 1, Size(a) + 1), w)
       [] ~Full(n) /\ pos = a.last -> Becomes(n, Construct(mem, a.last, <<v>>), [a EXCEPT !.last = @ + 1], w)
       [] OTHER -> Becomes(n, Assign(Shifted, pos, <<v>>), [a EXCEPT !.last = @ + 1], w)
  /\ UNCHANGED misuse
=============================================================================

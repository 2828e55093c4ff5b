---------------------------- MODULE ChunkedArray ----------------------------
(***************************************************************************)
(* ChunkedDynamicArray (containers/chunked-dynamic-array.hpp): blocks of   *)
(* BlockSize slots in one allocation, each with a size of its own in       *)
(* another.  A MutableBlock is a handle: pointers into both.  One that the *)
(* program has kept (handle) does not notice what happens to the array or, *)
(* through another handle, to its block.  blocks is what the operations    *)
(* promise the blocks to hold; misuse is as in DynamicArray.               *)
(***************************************************************************)
EXTENDS Memory, FiniteSets, TLC

CONSTANTS BlockSize, MaxBlocks

VARIABLES mem, elements, sizes, blockNum, handle, blocks, misuse

chunkedVars == <<mem, elements, sizes, blockNum, handle, blocks, misuse>>

ChunkedMisuses == {"stale handle", "own value", "failed sizes", "elements left", "moved from"}

NoHandle == [block |-> 0, begin |-> Null, end |-> Null]

ChunkedInit ==
  /\ mem = EmptyMemory /\ elements = NullChunk
  /\ sizes = <<>> /\ blockNum = 0
  /\ handle = NoHandle /\ blocks = <<>> /\ misuse = {}

\* operator[]: the handle of block b, counted from 1.
Block(b) == LET lo == elements.begin + (b - 1) * BlockSize IN
            [block |-> b, begin |-> lo, end |-> lo + sizes[b]]

\* What an iterator with an index is worth, and how many elements there are.
BlockValue(index) == [begin |-> elements.begin + BlockSize * index,
                      end |-> elements.begin + BlockSize * index + sizes[index + 1]]
ValueNum == LET num[b \in 0..blockNum] == IF b = 0 THEN 0 ELSE num[b - 1] + sizes[b] IN num[blockNum]

-----------------------------------------------------------------------------
(* A plausible mistake, to stand in for the definition it misspells. *)

\* pop_block only forgets the size.
PopBlockKeeping ==
  /\ blockNum > 0
  /\ sizes' = [sizes EXCEPT ![blockNum] = "raw"]
  /\ blockNum' = blockNum - 1
  /\ blocks' = Front(blocks)
  /\ UNCHANGED <<mem, elements, handle, misuse>>

-----------------------------------------------------------------------------
MoveBlocks == [b \in 1..blockNum |-> Move(Block(b).begin, Block(b).end, (b - 1) * BlockSize)]

Raws(k) == [i \in 1..k |-> "raw"]
Zeros(k) == [i \in 1..k |-> 0]

\* The elements' allocation grows first; the one of the sizes may fail then.
GrowElements(blockCount) ==
  /\ mem' = ChunkExpand(mem, elements, GrownSize(blockCount) * BlockSize, MoveBlocks, <<>>)
  /\ elements' = Placed(mem, GrownSize(blockCount) * BlockSize)

AddBlocks(k) ==
  LET num == blockNum + k
      old == SubSeq(sizes, 1, blockNum) IN
  /\ k > 0
  /\ IF num > Len(sizes)
     THEN GrowElements(num) /\ sizes' = old \o Zeros(k) \o Raws(GrownSize(num) - num)
     ELSE sizes' = old \o Zeros(k) \o SubSeq(sizes, num + 1, Len(sizes)) /\ UNCHANGED <<mem, elements>>
  /\ blockNum' = num
  /\ blocks' = blocks \o [i \in 1..k |-> <<>>]
  /\ UNCHANGED <<handle, misuse>>

AddBlocksFails(k) ==
  /\ blockNum + k > Len(sizes)
  /\ GrowElements(blockNum + k)
  /\ misuse' = {"failed sizes"}
  /\ UNCHANGED <<sizes, blockNum, handle, blocks>>

PopBlock ==
  /\ blockNum > 0
  /\ mem' = Destroy(mem, Block(blockNum).begin, Block(blockNum).end)
  /\ sizes' = [sizes EXCEPT ![blockNum] = "raw"]
  /\ blockNum' = blockNum - 1
  /\ blocks' = Front(blocks)
  /\ UNCHANGED <<elements, handle, misuse>>

-----------------------------------------------------------------------------
\* MutableBlock::emplace_back through the handle h: the element and the size are written where h points.
Emplace(h, v) ==
  /\ h.end # h.begin + BlockSize
  /\ mem' = Construct(mem, h.end, <<v>>)
  /\ sizes' = IF h.block <= blockNum THEN [sizes EXCEPT ![h.block] = @ + 1] ELSE sizes
  /\ UNCHANGED <<elements, blockNum>>

Append1(b, v) == IF b <= blockNum THEN [blocks EXCEPT ![b] = Append(@, v)] ELSE blocks

PushBack(b, v) ==
  /\ b <= blockNum
  /\ Emplace(Block(b), v)
  /\ blocks' = Append1(b, v)
  /\ UNCHANGED <<handle, misuse>>

Keep(b) ==
  /\ b <= blockNum /\ handle = NoHandle
  /\ handle' = Block(b)
  /\ UNCHANGED <<mem, elements, sizes, blockNum, blocks, misuse>>

\* The program uses the handle it has kept.
PushBackKept(v) ==
  /\ handle # NoHandle
  /\ Emplace(handle, v)
  /\ blocks' = Append1(handle.block, v)
  /\ handle' = [handle EXCEPT !.end = @ + 1]
  /\ misuse' = IF handle.block <= blockNum /\ handle = Block(handle.block) THEN misuse ELSE {"stale handle"}

\* std::remove over s: elements that differ from the value, or from what lies at ref when they are
\* compared, move down.
Value(v) == [value |-> v]
ValueAt(i) == [ref |-> i]
Removed(s, what) ==
  LET Differs(acc, j) == acc.s[j] # IF "ref" \in DOMAIN what THEN acc.s[what.ref] ELSE what.value
      Visit(acc, j) ==
        CASE ~Differs(acc, j) -> acc
          [] Differs(acc, j) /\ acc.next = j -> [acc EXCEPT !.next = j + 1]
          [] OTHER -> [s |-> [acc.s EXCEPT ![acc.next] = acc.s[j], ![j] = "moved"], next |-> acc.next + 1]
      after[j \in 0..Len(s)] == IF j = 0 THEN [s |-> s, next |-> 1] ELSE Visit(after[j - 1], j)
  IN  after[Len(s)]

EraseValue(b, what) ==
  LET h == Block(b)
      r == Removed(Held(mem, h.begin, h.end), what) IN
  /\ mem' = Destroy(Assign(mem, h.begin, r.s), h.begin + r.next - 1, h.end)
  /\ sizes' = [sizes EXCEPT ![b] = r.next - 1]
  /\ UNCHANGED <<elements, blockNum, handle>>

\* What is left of s without the elements that equal v.
Without(s, v) ==
  LET left[j \in 0..Len(s)] ==
        IF j = 0 THEN <<>> ELSE IF s[j] = v THEN left[j - 1] ELSE Append(left[j - 1], s[j])
  IN  left[Len(s)]

BlockErase(b, v) ==
  /\ b <= blockNum
  /\ EraseValue(b, Value(v))
  /\ blocks' = [blocks EXCEPT ![b] = Without(@, v)]
  /\ UNCHANGED misuse

\* erase(block.begin()[i]): the reference is to a slot that the removal moves other elements into.
BlockEraseOwn(b, i) ==
  /\ b <= blockNum /\ i \in 1..sizes[b]
  /\ EraseValue(b, ValueAt(i))
  /\ misuse' = {"own value"}
  /\ UNCHANGED blocks

-----------------------------------------------------------------------------
\* The destructor is the members': allocations are freed, elements are not destroyed.
DestructChunked ==
  /\ mem' = Deallocate(mem, elements)
  /\ elements' = NullChunk /\ sizes' = <<>> /\ blockNum' = 0
  /\ handle' = NoHandle /\ blocks' = <<>>
  /\ misuse' = IF \E b \in 1..blockNum : sizes[b] > 0 THEN {"elements left"} ELSE misuse

\* The defaulted move constructor leaves block_num_ as it is; what it takes is not followed further.
MoveFrom ==
  /\ elements # NullChunk
  /\ elements' = NullChunk /\ sizes' = <<>>
  /\ misuse' = {"moved from"}
  /\ UNCHANGED <<mem, blockNum, handle, blocks>>

ChunkedNext ==
  /\ misuse = {}
  /\ \/ \E k \in 1..2 : blockNum + k <= MaxBlocks /\ (AddBlocks(k) \/ AddBlocksFails(k))
     \/ PopBlock \/ DestructChunked \/ MoveFrom
     \/ \E b \in 1..MaxBlocks :
          \/ Keep(b)
          \/ \E v \in Values : PushBack(b, v) \/ BlockErase(b, v)
          \/ \E i \in 1..BlockSize : BlockEraseOwn(b, i)
     \/ \E v \in Values : PushBackKept(v)

ChunkedSpec == ChunkedInit /\ [][ChunkedNext]_chunkedVars

-----------------------------------------------------------------------------
ChunkedTypeOK ==
  /\ mem.slot \in [Address -> {"free", "raw"} \cup Alive] /\ mem.faults \subseteq Faults
  /\ blockNum \in 0..MaxBlocks
  /\ misuse = {} => blockNum <= Len(sizes) /\ \A b \in 1..blockNum : sizes[b] \in 0..BlockSize

Positions(s, e) == {i \in 1..Len(s) : s[i] = e}
Contents == [b \in 1..blockNum |-> Held(mem, BlockValue(b - 1).begin, BlockValue(b - 1).end)]

\* Each block holds what has been put into it, in order, wherever the elements have moved; objects
\* live in the slots below the sizes of the blocks and nowhere else, as many as value_num says; both
\* allocations have room for the same number of blocks.
BlocksAreRight ==
  /\ mem.faults = {}
  /\ Contents = blocks /\ ValueNum = Cardinality({a \in Address : mem.slot[a] \in Alive})
  /\ \A a \in Address : mem.slot[a] \in Alive <=> \E b \in 1..blockNum : a \in Span(Block(b).begin, Block(b).end)
  /\ elements.end - elements.begin = BlockSize * Len(sizes)

RightUnlessMisused == misuse = {} => BlocksAreRight

\* A handle that is stale always does harm when it is used; a value that lies in the block may leave
\* elements that equal it and take others, but no more than that; a failed allocation leaves room for
\* blocks that have no size; the destructor leaks the elements that are left; an array that has been
\* moved from keeps its number of blocks.
CostOfChunkedMisuse ==
  /\ misuse = {"stale handle"} => ~BlocksAreRight
  /\ misuse = {"own value"} =>
       /\ mem.faults = {}
       /\ \A b \in 1..blockNum : \A e \in Values :
            Cardinality(Positions(Contents[b], e)) <= Cardinality(Positions(blocks[b], e))
  /\ misuse = {"failed sizes"} =>
       /\ mem.faults = {} /\ Contents = blocks
       /\ elements.end - elements.begin > BlockSize * Len(sizes)
  /\ misuse = {"elements left"} => mem.faults = {"leaked"}
  /\ misuse = {"moved from"} => blockNum = Len(blocks) /\ elements = NullChunk
=============================================================================

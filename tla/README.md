# Specifications of thesauros

TLA+ specifications of thesauros, a header-only C++23 library, with the configurations that
model-check them with TLC and proofs that the TLA+ proof system checks. All source paths are
relative to `src/`; headers are under `src/include/thesauros/`, abbreviated `…/` below.

## 1. Inventory

thesauros has no process of its own: each component is a header that a program calls. What is
concurrent in it is the execution of tasks on threads and what those tasks share; everything else
is sequential and hard for other reasons (arithmetic at the edges of a type, life cycles of
elements, partial failure).

| Component | State | Operations | What is hard about it | What makes it correct |
|---|---|---|---|---|
| Fork-join pool `…/execution/executor/fixed-thread-pool.hpp` | one atomic word (epoch and participant count), `stop_`, `task_`, `unfinished_`, `exception_` and its flag; the last word each worker has seen | construction, `execute`, `work`, `await_state`, `await_completion`, `run`, destruction | lock-free: everything between a load and a wait; the epoch wraps; a worker that is not needed lags behind; exceptions from several threads; creating a thread fails | each index runs once, on the callable of the call in progress; the call returns after the last and throws one of the exceptions; no wake-up is lost; every call and the destruction end |
| Mutex-based pool `…/execution/executor/fixed-std-thread-pool.hpp` | `task_id_`, `task_`, `unfinished_` under a mutex, two condition variables; `last_id` of each worker | construction, `execute`, the worker loop, destruction | every worker reports every call; notifications after unlocking; spurious wake-ups; an exception ends the program | as above, without exceptions |
| OpenMP and sequential executors, linear policy `…/execution/**` | none of their own | `execute`, `execute_segmented` | a team may have fewer threads than indices | as an executor; each index gets its own segment |
| Index segmenters `…/utility/index-segmentation.hpp` | immutable | `segment_start`, `segment_end`, `segment_of`, `size` | more segments than indices, the largest values of the type, the boundary between long and short segments | the segments partition the range, `segment_of` inverts that, the segments are balanced |
| Fixed divisors `…/math/divmod.hpp` | immutable | `/`, `%`, `divmod`, `is_divisible` | a multiplication by a rounded reciprocal, whose overflow is intended; promotion to int | equal to the division, for all operands |
| Parallel inclusive scan `…/algorithms/transform-inclusive-scan.hpp` | the output, one partial sum per thread, a latch | one call | two passes separated by a latch that everyone must reach; exceptions; empty segments | prefix sums; no thread reads or writes what another has not finished with; the call ends if it can |
| Bit structures `…/containers/bitset/**`, `multi-bit-integers.hpp` | chunks of bits, a size | atomic and plain updates of bits and small fields, growth, counts | atomic and plain updates share a chunk; bits beyond the size | no update is lost; one winner per bit |
| Dynamic arrays, buffers, chunked and nested arrays `…/containers/**` | storage, its size, the live elements; block sizes; offsets | growth, insertion, erasure, blocks, builders | life cycle of each element through reallocation; arguments that alias; failing allocations; stale handles | every element is constructed and destroyed once; the sequence is the right one |
| Flat sets and maps, set algorithms | a sorted array | insertion, lookup, union, difference | keeping the order; equality and order that disagree | the operations of sets and maps |
| Files, serialization `…/io/**` | a file, its position, the buffers of both handles | read, positioned read, write, seek, containers to and from a file | a writer that changes the file between two reads of one call, or behind the reader's buffer; failure between two seeks | what was saved comes back or the call throws; the position is what the caller left |
| Temporary directories `…/filesystem/tempfile.hpp` | the file system | create, remove | concurrent creation with equal names, bounded retry | each directory has one owner |
| Character conversion `…/charconv/**` | a decoder's state | UTF-8 decoding, escaping, parsing | invalid and truncated input, overflow | agreement with a reference |
| Iteration `…/algorithms/{ranges,static-ranges}/**`, `…/ranges/**`, index and position of an iterator | loop variables, a position and its index | tiles, vectors, products, conversions | the ends of the index type; partial tiles; both directions | every position once, in order, with its index |
| Numbers and random numbers `…/math/**`, `…/random/**`, sorting | loop variables, a generator's state | overflow checks, saturation, casts, roots, factors, tessellation, permutations | edges of types; a range whose size is no power of two | agreement with a definition that needs no algorithm |
| Lists of values and types, reflection, variants, JSON `…/static-ranges/**`, `…/types/**`, `…/reflection/**`, `…/utility/{fancy-visit,optional,static-map}.hpp`, `…/io/json.hpp` | immutable | views, filters, reductions, visits, flattening, text of values | recursion over types that a test instantiates for a handful of them | what is defined element by element is what is said of the whole |
| Processors of the system `…/resources/cpu-info*`, `…/execution/system/affinity.hpp` | immutable, read from the system | lists and counts of processors and cores by class, parts, sets to pin threads to | three systems with lists of their own; processors that are offline, hybrid machines, lists that disagree with totals | one processor for each core; the parts make the whole; counts agree with lists |
| Strings, formatting, quantities, test support | – | – | layout of text, units | not modelled (section 5) |

How they interact: a program calls `transform_inclusive_scan`, which calls
`LinearExecutionPolicy::execute_segmented`, which constructs a `UniformIndexSegmenter` for
`thread_num()` segments and calls `execute` of an executor with a callback that computes its
segment and runs the scan's task. The segmenters divide by means of `Divisor`. The containers stand
on `TypedChunk` and `DynamicArray`: flat maps and bitsets keep a `DynamicArray`, a nested array two
fixed ones, a file reader fills one. JSON and serialization use what reflection knows of a type.

`PROJECT.json` lists every component with its status, and under `hazards` every behaviour that is
hard to test, at its line, with the properties that cover it.

## 2. The modules

```
ParallelRegion            what an executor promises
  ^ refined by FixedThreadPool, FixedStdThreadPool; used as the executor by InclusiveScan
Divisor <- IndexSegmentation <- SegmentWalk  (refines IotaWalk)
                             <- InclusiveScan

Memory <- DynamicArray <- Arrays \
Memory <- ChunkedArray ----------> ManagedArrays \
NestedArray, FlatMap, Bits -----------------------> Containers

ByteIntegers, Files, TempDirectories ------------\
Numbers, Text, Indexing, Reflection --------------> Library
IndexSegmentation <- Processors -----------------/
StaticLists <- Variants -------------------------/

FixedThreadPoolProofs, FixedStdThreadPoolProofs
IndexSegmentationProofs <- SegmentWalkProofs
                        <- InclusiveScanProofs
ArraysProofs <- ContainersProofs   of ManagedArrays; of Bits, NestedArray, FlatMap and what Containers promises
LibraryProofs                      of Files and TempDirectories
```

The operators before the first rule, under *Plausible mistakes* or behind a comment that says *A
plausible mistake* in a module are never used by the specification: each is a misspelled variant of a
definition (a dropped guard, a missing reset) that the properties have to catch when it takes that
definition's place.

### ParallelRegion

The contract of `execute(task, used)`: it runs the task once on each index below `used`, on no other
one, returns after all are done, and its outcome is one of the exceptions, if any. Four variables
(`phase`, `used`, `body`, `outcome`), one action for each of the events a caller or a task can see.

### FixedThreadPool

Every atomic access, wait and notification of `fixed-thread-pool.hpp` is a step of its own; so is
the plain store to `task_` and the plain store and read of `exception_`. What lies between two such
accesses is local to a thread and part of one of the steps. Thread 0 is the caller, which takes part
in the region (`run(0)`), and `pc` says where each thread is:

| Code | Actions |
|---|---|
| constructor 72–98 | `SpawnWorker`; `SpawnFails`, `EndUnwinding` when creating a thread throws and the members are destroyed |
| `execute` 129–166 | `Execute`, `ReturnEmpty` (0 threads), `BeginInline`…`ReturnInline` (1 thread), `SetTask`, `SetUnfinished`, `Dispatch`, `NotifyWorkers`, `CollectException`, `Rethrow` |
| `await_completion` 222–239 | `SpinCompletion`, `StopSpinningForCompletion`, `LoadUnfinished`, `WaitCompletion` |
| `run` 241–249 | `Begin`, `EndBody`, `ClaimException`, `SaveException` |
| `await_state` 205–220 | `SpinState`, `StopSpinningForState`, `WaitState`, `ReloadState` |
| `work` 188–203 | `Exit`, `Decide`, `FinishRegion`, `SignalCaller` |
| `std::atomic::wait` | parking only if the value is unchanged (`WaitState`, `WaitCompletion`), `WakeSpuriously` |
| destructor 119–123 and the members' | `SetStop`, `StopDispatch`, `StopNotify`, `JoinWorkers` |

`state` keeps the whole epoch; `Word(state)`, which is all that the code compares, reduces it modulo
`EpochMod`. That is what lets `MissedOnlyByWrap` say what a wrapped epoch costs. `call`, `used`,
`body` and `outcome` are what a caller sees. The steps of the spin loops are kept because how long a
thread spins decides whether it parks.

### FixedStdThreadPool

Every critical section is one step (all of the members are accessed under one mutex) and every
notification, which is made after unlocking, another. The workers are threads 0 to N-1 and the
caller is none of them. `Block` and the failing branch of `Await` are a condition variable's wait
with a false predicate; `WakeSpuriously` is what the standard allows. `Throw` is an exception that
leaves the function of a thread: the program ends (`aborted`).

### Divisor, IndexSegmentation, SegmentWalk, IotaWalk

`Divisor` has the multiplications modulo the width of the type. `ValueMod` is the number of values
of the unsigned type and `IntMax` the largest `int`: C++ promotes the operands of a narrower type to
`int`, so that they do not wrap (`Arith`). `IndexSegmentation` has each segmenter's
`segment_start`, `segment_end` and `segment_of` as an operator over a record of the constructor's
arguments. `SegmentWalk` makes a state machine of them: it constructs any segmenter and walks over
all its segments and all their indices, the way `src/test/utility/index-segmenter.cpp`
(`check_segmenter_partition`) and every parallel loop do, with `!=` as the end of the inner loop and
an index that wraps. `IotaWalk` is the walk over the range itself.

### InclusiveScan

The task of `transform_inclusive_scan` on every index, cell by cell: `Reduce`, `Store`, `Arrive` and
the wait at the latch, `Pass`, `Scan`. The scan is in place (`d_first == first`), which is the case
in which the order of the passes matters most; a scan into another range has fewer conflicts. The
executor is `ParallelRegion`, so what is shown holds for every executor that implements it. `host`
says which thread of the executor runs which index: the OpenMP executor's team may be smaller than
`thread_num()`, and then a thread runs several indices one after the other. Cells are bags of the
indices of the original cells, and the binary operation is their union: an associative and
commutative operation in which it shows what has been added up and how often.

### Containers: Memory, DynamicArray, Arrays, ChunkedArray, ManagedArrays, NestedArray, FlatMap, Bits

`Containers` is a program that uses one part of the container library. The parts share no state, so
one with several of them would show nothing more; `part` says which one it is and the variables of
the others are `Unused`. `ManagedArrays` has the two parts that manage memory, the arrays and the
chunked array, so that proofs about them need not know of the others.

`Memory` is what the containers manage by hand: slots that are free, raw or hold an object, which may
have been moved from. Its operators are `TypedChunk` and the algorithms of `<memory>`
(`UninitializedMove`, `Destroy`, `MoveAssign`…); each records the faults it commits, such as
constructing over an object. `GrownSize` is the growth to a power of two. Allocations lie at places of
`MaxCap` slots; `RoomAssumption` says that there are more places than arrays, so that an allocation
fails when the environment makes it fail and never because the model's memory is full, and that what
growth asks for fits.

| Code | Module and actions |
|---|---|
| `containers/array/dynamic.hpp` | `DynamicArray`: `ConstructFrom`, `CopyConstruct`, `MoveAssignFrom`, `CopyAssign`, `Swap`, `Clear`, `ClearMemory`, `Expand`, `Shrink`, `Resize`, `Reserve`, `PushBack`, `PopBack`, `EraseAt`, `Erase`, `Insert` |
| `array/{fixed,fixed-alloc,limited}.hpp`, `dynamic-buffer.hpp` | `Arrays`: `FixedStep`, `FixedAllocStep`, `LimitedStep`, `BufferStep` |
| `chunked-dynamic-array.hpp` | `ChunkedArray`: `AddBlocks`, `PopBlock`, `PushBack`, `Keep` (a handle), `PushBackKept`, `BlockErase`, `DestructChunked`, `MoveFrom` |
| `nested-dynamic-array.hpp` | `NestedArray`: `Initialize`, `Emplace`, `AdvanceGroup`, `Build`, and the same of the flat builder |
| `flat-map.hpp`, `flat-set.hpp`, `set-algorithms.hpp` | `FlatMap`: `Insert`, `TransformOrCreate`, `Erase`, `EraseIf`, `SetUnion`, `SetDifference`… |
| `bitset/**`, `multi-bit-integers.hpp` | `Bits`: `SetIfUnset`, `StoreBit` (atomic), `ReadChunk`/`WriteChunk` (a plain write), `LoadForStore`/`Store` (the compare-exchange loop), `Fill`, `PushBack`, `Resize`, `FromBits` |

Some operations do harm that nothing in the code guards against. The model takes such a step, says so
in `misuse` and goes no further; `CostOfMisuse` and `CostOfChunkedMisuse` say what it costs, and all
other properties hold as long as there is none.

### Library: ByteIntegers, Files, TempDirectories and the pure algorithms

`Library` is the same for parts that manage no objects; it extends `Files` and `TempDirectories`,
whose variables keep their initial values in the other parts, so that it checks their properties and
assumptions themselves. `ByteIntegers` has every operation of
`multi-byte-integers.hpp` on an array of bytes with its paddings. `TempDirectories` has owners that create, fill
and remove directories in a file system where names may be taken.

`Files` has a writer and a reader of one file whose calls may all fail. stdio stands between them and
the file, on both sides: what is written reaches the file some time (`Flush`, `CloseWriter`), and what
is read may come from a buffer. `seen` is the set of units the reader has buffered; as long as they are
those of the file, the buffer cannot be told from the file. Once a writer changes or cuts off one of
them, or the count that `from_file` has just read (`FileBecomes`), the reader is `outdated`, and from
then on until it is closed each read may give units of the old content or of the new one in any mixture
(`Given`). A call of the reader to stdio is one step; `from_file` and `read_full`, whose second call goes
by what the first one has read, are two (`LoadCount` and `Load`, `AskFull` and `ReadFull`, with `doing` in
between), and the writer may do anything between them: truncate the file, write it anew, append to it,
flush a part or lose it.

The pure algorithms have no state. Each is an operator that follows the code step by step, and
`Library` asks it one question, for every input of a small set: `Ask` draws the question, and the
invariant compares the answer with a definition that needs no algorithm (`OneRight`, `TilesCover`,
`NumberRightOf`…).

| Module | Code |
|---|---|
| `Numbers` | `math/**`, `random/**`, `algorithms/sort-indices.hpp`: saturation and overflow checks, casts, bits and roots, factorization, tessellation, the permutation of a range |
| `Text` | `charconv/**`: integers from and to text, UTF-8, escaping |
| `Indexing` | `algorithms/{ranges,static-ranges}/**`, `ranges/{indices,cartesian-product}.hpp`, `utility/{multi-size,index-position-wrapper}.hpp` |
| `StaticLists` | `static-ranges/**`, `types/**`, `utility/static-map.hpp`: lists of values and of types |
| `Variants` | `utility/{fancy-visit,check-variant,optional,value-optional}.hpp`, `reflection/flatten-type.hpp` |
| `Reflection` | `reflection/{type,enum,serial-value}.hpp`, `io/{json,delimiter}.hpp` |
| `Processors` | `resources/cpu-info*`, `execution/system/affinity.hpp`: processors, cores and parts on three systems. What the system lists is an input, and an exception is the result `{}`. On Apple, a class may be listed and its cores not be countable, when the levels' cores do not add up; the property allows just that |

## 3. The runs

| Run | Configuration | Question |
|---|---|---|
| `pool` | 3 threads, 2 calls, epochs do not wrap | every interleaving of two calls with 0 to 3 threads, throwing tasks and the destruction |
| `pool_wrap` | 3 threads, 3 calls, 1-bit epoch, thread creation may fail | what wrapping costs, and that it never runs a task wrongly; what a failed construction costs |
| `std_pool` | 3 workers, 3 calls, 1-bit ids, creation may fail | whether an id of one bit is enough, and all of the contract |
| `segments` | 4-bit type, all 16 sizes, 8 numbers of segments, 5 kinds | partition, inverse, balance, exact division |
| `scan` | 3 threads, 0 to 5 cells, throwing, shared threads | the sums, the latch, and when the call does not return |
| `containers` | two arrays of up to 3 of 2 values in 3 places of memory; 3 blocks of 2; 3 groups of up to 2 by 2 builders; 4 keys; 2 threads on 3 elements in chunks of 2 | life cycles, sequences, maps, bits; the cost of misuse |
| `library` | up to 3 integers of 3 bytes; a file of 3 units, with containers of up to one; 3 owners, 2 names, 2 attempts; numbers of 8 bits; axes up to 3; 4 processors | packed integers, files, owners; every pure algorithm against its definition |
| `blocks_overflow`, `padded_offset`, `divisible_bytes`, `empty_erase`, `invalid_literal` | see the `.cfg` | the findings of section 6 |

The properties, by what they are about:

* *Contract.* `ImplementsParallelRegion` (both pools) and `WalksTheRange` are refinements: every
  step of the detailed specification is one of the abstract one or none.
* *Memory that others still use.* `TaskAlive` (the callable is on the caller's stack),
  `ExceptionNotRaced`, `JobIsCurrent`, `CellsArePrivate`, `LatchSeparates`.
* *Counting.* `CountsPending` and `CountsUnreported`: `unfinished_` is exactly the number of
  participants (workers) that have not reported; from this it follows that a call does not return
  early. `CountsUnreported` also says that every variable keeps its type, which `TypeOK` does for the
  other pool.
* *Waiting.* `NoLostWakeup`: whoever is parked although its condition has come true is about to be
  notified. `CallsEnd`, `DestructionEnds`, `ScanReturns` are the liveness properties this is for.
* *What the code does not promise.* `MissedOnlyByWrap` bounds what a wrapped epoch can do;
  `StrandedByFailedSpawn` says that a failed construction hangs once a worker exists;
  `ReturnsTogether` that the scan's call returns only if every index, or none, reaches the latch;
  `UndefinedOnlyAtTheMaximum` which segmenter cannot be constructed.
* *Life cycles.* `ArraysOwnTheirElements` and `BlocksHoldTheirElements`: an object lives in a slot
  exactly as long as its array says, through reallocation, shifting in place and failing allocations.
* *Contents.* `ArraysHoldTheirSequence`, `PartsMakeTheGroups`, `FlatMapsTheKeys`,
  `PackedIntegersHold`, `FilesGiveBack`: a ghost variable (`want`, `blocks`, `dict`, `saved`) says
  what the operations have promised, and what is stored is that. No guard reads a ghost.
* *Sharing.* `NeighboursKeepTheirBits` (a write of an element never changes its neighbour, unless a
  plain write has overtaken another one: `torn`), `BitsAreClaimedOnce`, `DirectoriesAreOwned`.
* *Edges.* `CountsAreOfElements` (bits beyond the size do not count), `ConversionsAreRight`,
  `StaticsAreRight`.

**Bounds.** Three threads are a caller with two workers (two needed, or one needed and one late):
the interactions in the code are between the caller and a worker, and between two workers (the last
to report; the second to throw). Two calls bring a worker that lags behind from one into the next;
with three, an epoch or an id of one bit comes back to the value a sleeping worker knows. Four bits
with every size include the largest value, more segments than indices, divisors of all kinds and 0
and 1 as special cases; they are as wide as `int` in that model (`IntMax = 7`), so that
nothing is promoted, as for the 32- and 64-bit types the library uses; `divisible_bytes` is the real
8-bit type with the real `int`. The proofs of section 4 remove these bounds where they exist. Five
cells on three threads give empty, short and long segments.

Three elements are enough for an insertion or an erasure at the front, in the middle and at the end
with something to shift on both sides; memory for eight and sizes that double from one give growth
with and without reallocation, and three places are those of two arrays and of the allocation that
one of them moves to. Two values tell elements apart: no container compares more than two. `MaxCap` 8
lets three blocks of two grow by doubling. Chunks of two elements of up to two bits have a neighbour
in the chunk, one in the next, and a last chunk that is partly used. Four keys make unions and
differences overlap, precede and follow each other. Integers of 3 bytes in words of 4 overlap the next
element and the padding, as 3 in 4 and 5 to 7 in 8 do in the library; a byte has two values, since the
code only moves bytes. A file of three units has a container with an element before or behind an empty
one, and a nested array; a count may be of the old file and the element of the new one. Eight bits contain every edge of a type (zero, the middle, the largest value)
for every operand, and 128 and 255 as the limits of the signed and unsigned bytes that texts are
parsed to; texts have up to three characters, or a sign and three digits, enough for a sign, a prefix
and a digit, and for an overflow. UTF-8 takes every first byte and the edges of every other. Index types
have eight values, so that tiles reach their end. Four processors make two cores of two threads each,
in any order, with one offline. `containers` is symmetric in values, arrays and
threads: nothing but equality is asked of them.

The runs without deadlock checking are
those in which the program really stops: a wrapped epoch or an unfinished construction
(`pool_wrap`), a task that does not reach the latch (`scan`), a program that has misused an array or
got its answer (`containers`, `library`).

**Fairness.** Weak fairness of each thread's own steps: an operating system keeps running the
threads that can run, and a notified thread wakes up. A task's end is one of these steps, so tasks
end. No fairness is given to spurious wake-ups, to failures, to the decision of the program to call,
to throwing, nor to the end of spinning beyond what the loop's bound gives. `containers` and
`library` check safety only: no code there waits for another thread, and the one loop that retries
without a bound, the compare-exchange of `MultiBitIntegers::store`, may fail for as long as others
succeed.

**Abstractions.** The memory is sequentially consistent: the orders given to the atomic operations
are not modelled. The pool has one caller at a time, as `FixedThreadPool` asserts in debug builds.
N is at least 1: a pool without threads can be constructed, but `execute_segmented` divides by its
number of threads. Affinity, names of threads and what a task does are left out. Allocators compare
equal and give no particular addresses; alignment is left out. A chunk of bits is a set of positions.
A plain write of a chunk that other threads write to is a data race: the model takes its read and its
write as two steps, and then `torn` takes the chunk out of what is promised.

## 4. The proofs

For every value of the constants, from the named assumptions on them in the modules only:

* `FixedThreadPoolProofs` proves `TypeOK`, `CountsPending`, `TaskAlive`, `ExceptionNotRaced`,
  `NoLostWakeup`, `MissedOnlyByWrap`, `StrandedByFailedSpawn` and the refinement
  `ImplementsParallelRegion`, for every number of threads and calls and every width of the epoch,
  wrapping or not, with failing construction: every safety property of the runs `pool` and
  `pool_wrap`. The inductive invariant `IInv` is a conjunction of layers, each proved from itself
  and those before it: types; `StopInv` (`stop_` is raised, and a worker leaves, only once the caller
  is in the destructor); `CountInv`; `BodyInv`; `ExceptionInv`; `WaitInv`.
  The heart is `CountInv`. `CountsPending` is not inductive: a worker that decides from a word it has
  loaded earlier could decrement a later count. `SeenInv` (nobody knows of a dispatch to come, and
  who knows the last one knows its word) and `BusyInv` (a worker that takes part in a region knows
  the current word) rule that out: the caller cannot dispatch again before all participants have
  reported, and a late worker that is not one of them never touches the count. `QuietInv` says that
  nobody is pending between regions, which makes the new count right when a region starts. The
  epoch's width plays no role in any of this, so wrapping costs liveness only: a worker that
  sleeps although it is needed waits on a word that compares equal and is older, and two epochs that
  differ and compare equal are a whole cycle apart (`OnlyAWrapIsMissed`).
* `IndexSegmentationProofs` proves that the division by multiplication is exact for every width
  (`QuotientIsExact`, `RemainderIsExact`, `DivmodIsExact`, `PartsAreExact`), that uniform segments
  partition the range without overflow and differ in length by at most one
  (`UniformSegmentsPartition`), and that `segment_of` inverts them (`UniformOfFinds`). The argument
  for the division: the reciprocal exceeds `ValueMod^2 / d` by less than 1, so that the product
  exceeds `a / d` by less than `1 / ValueMod`, too little to reach the next multiple of `1 / d`.
* `SegmentWalkProofs` lifts this to all kinds of segmenters and to the walk: `SegmentsPartition`,
  `SegmentOfIsInverse`, the invariant `WalkInv`, and every property of the run `segments`:
  `WalksTheRange`, `SegmentOfFindsIt`, `Balanced`, `UndefinedOnlyAtTheMaximum`, `DivisionIsExact`.
  `WalksTheRange` and `SegmentOfFindsIt` assume `Partitionable`, which the findings of section 6
  show to be necessary: the blocks do not end beyond the type's range, and only segmenters that start
  at 0 are padded. `Balanced` needs no hypothesis.
* `FixedStdThreadPoolProofs` proves every safety property of the run `std_pool`: `CountsUnreported`,
  `JobIsCurrent`, `NoLostWakeup` and the refinement `ImplementsParallelRegion`, for every number of
  workers and calls and every width of the id from one bit on. The heart is `SeenInv`: a worker whose
  last id differs from `task_id_` has exactly one job before it (or the end of the pool), and one whose
  id agrees has taken that job already and reported all earlier ones. The ids wrap, so that alone does not follow from the ids; it holds
  because `execute` returns only when all workers have reported, so that nobody is ever two jobs
  behind. `CountInv` then counts the unreported, and `TaskInv` (the callable is there as long as its
  call) makes the job that a worker copies the one that was posted. `NoLostWakeup` is inductive by itself once
  `CountInv` tells who is the last to report.
* `InclusiveScanProofs` proves every safety property of the run `scan`: `ScanIsPrefixSum`,
  `LatchSeparates`, `CellsArePrivate` and `ReturnsTogether`, for every number of threads and cells and
  every width of the index type. Every sum in the state is that of an interval of cells, which the
  program counter and the cursor of its index determine (`AccInv`, `OffsetsInv`, `CellsInv`); the
  intervals that are added up behind the latch are adjacent because uniform segments are
  (`UniformSegmentsPartition`), and cells are private because they are disjoint. `LatchInv` counts
  who has not arrived, and `OneAtATime` says that a thread of a small team takes up one index after the
  other, from which `NoneShared` follows: once anybody passes the latch, no index shares its thread
  with another one.
* `ArraysProofs` and `ContainersProofs` prove `ArraysOwnTheirElements` and `ArraysHoldTheirSequence`
  (with `CostOfMisuse`), for every kind of array (dynamic, buffer, limited and the two fixed ones), any
  number of arrays, all values and all lengths, with allocations that fail. "No fault so far" and "each
  array holds its sequence" are not inductive; `Good` is. It says of memory, arrays and promised
  sequences that no fault was committed (`Clean`), that each array is empty or begins at a place of its
  own and has the capacity its kind has (`WellPlaced`), that its slots up to `last` hold the promised
  sequence, element by element, and those behind are raw, or hold anything alive where the kind never
  destroys them (`Holds`, `Spare`), that no slot lies in two allocations, and that every slot that is
  not free lies in one, so nothing is lost. `ArraysInv` is the types, `CostOfMisuse`, and `Good` unless
  there was misuse.
  There is one lemma for each operator on memory (the slots behind it, slot by slot, and that it
  commits no fault if the slots before it are what it needs), one for each way in which an allocation
  changes hands (`Stays` in place, `Moves` elsewhere, `Room` and `Filled` for a growth that leaves a gap,
  `Gap` and `Closed` for an insertion into what is there, in which part of the new elements land on
  moved-from objects and part on raw slots), and one for each action on top of these.
  The same lemmas carry `BlocksHoldTheirElements` (with `CostOfChunkedMisuse`), for every size of a block
  and every number of blocks. The blocks lie in one allocation, each at a multiple of `BlockSize` from
  its base: slots up to a block's size hold its elements and those behind are raw. A growth moves them
  piece by piece to another allocation: the invariant of that loop says that the blocks before the
  current one have moved and those from it on are where they were. A handle points to a block of some
  allocation, at its base plus a multiple of `BlockSize`, and so one that is stale writes a slot or a
  size that is not the array's any more, which cannot leave the array right. The number of elements is
  that of the slots that are alive, by an induction over the blocks (`CountUp`).
* `ContainersProofs` proves also `NeighboursKeepTheirBits`, `BitsAreClaimedOnce`, `CountsAreOfElements`
  and `PartsMakeTheGroups` of `Containers`.
  For the bits, a chunk is a set and an element an interval of it: the lemmas say that a store changes
  the bits of its element only, for every width and every number of elements per chunk, and that
  masking what lies beyond the size makes the counts right. `ElementsAreLastWrites` is inductive
  together with `PendingOK` (what a thread has loaded, for a compare-exchange that succeeds only while the chunk still is
  that), `UnwrittenBehind` (what is beyond the size counts as written by nobody) and `ClaimedAreSet`
  (a claim that counts is of a bit that is set, so that nobody can claim it again). For the nested array,
  `CursorsInv` keeps each builder within the groups of its part and its elements within its group, and
  `WrittenInv` says that exactly those offsets are written that a builder has passed; once all are
  done that is every offset, whatever the interleaving was.
* It also proves `FlatMapsTheKeys`, for every finite set of keys, every set of values and both orders.
  `FlatInv` says that the array is ordered, has each pair of the function that the operations promise
  (`Covers`) and, unless a difference has been taken in the wrong order, no other one (`Within`); it is
  inductive as it stands, and what needs the work are the operators. `Bounds` says what a lower bound
  is, from which follow lookups, insertions and erasures. The passes over a range are recursive
  functions: `Picks` says of one of them that it appends a subsequence, `PassingIs` that a position
  that moves only forward stops at the same place as a search from the beginning would, because both
  ranges are sorted. Unions and differences therefore pick what they should (`UnionLists`,
  `DifferenceIs`). That there is a sorted sequence of the pairs of a finite function, that it is the only one and
  that sorting gives it (`EnumerationExists`, `EnumerationIsUnique`, `SortedEnumerates`) is an
  induction over the number of keys; with it `data = InOrder(dict)` follows from the invariant.
* `LibraryProofs` proves `FilesGiveBack`, for every capacity of a file and of the containers in it. It is
  not inductive: between a save and a load the buffer may have been flushed in part, lost, or
  overwritten, and between the two reads of a load too. `NoGap` says that the file is never longer than
  what was written, `SavedIsThere` that, while nothing was overwritten, the file is a beginning of the
  chunks that were saved one behind the other, `CountIsTheFiles` that the count on which `from_file` goes
  by is still that of the file, or the reader is outdated, and `LastIsRight` that what was read lay
  within the file, so that what is written later lies behind it. Nothing is promised of an outdated
  reader, and section 6 says what it may get.
* It also proves `DirectoriesAreOwned`, for every set of owners and names and every number of
  attempts, and with it `NoFileIsLost`: a directory that disappears is empty. It is inductive
  once `EmptiedStaysEmpty` says that nobody fills a directory between the two steps of its removal.

The assumptions are the named ones of the modules, and TLC evaluates them: that there is a thread, an
element of at least one bit and a chunk that holds it, that numbers are numbers, that keys of a flat map
are finitely many and can be compared, that a placeholder
(`NoTask`, `NoException`) is not one of the values it stands beside, and that memory has room
(`RoomAssumption`: finitely many arrays, fewer than there are places for allocations, of which each
holds `MaxLen` elements and what growth makes of fewer; `ChunkedAssumption`: two places, of which each
holds `MaxBlocks` blocks and what growth makes of fewer). No theorem needs a bound on a number of threads,
calls, elements or bits.

Where a model sums up (`SumBelow` of the scan, `Before` of the nested array, `BeginOf` of the file) it
does so by a recursive function. That such a function exists and has the values its definition says is
proved by a least counterexample (`LeastElement`, from the order of the natural numbers); a recursive
operator, and a fold that takes an operator, cannot be reasoned about here.

Only model-checked:

* All liveness: fairness and ENABLED are out of the prover's reach.
* `PackedIntegersHold` (`Bitwise`), `ConversionsAreRight` and `StaticsAreRight`: `Numbers`, `Text`,
  `Indexing`, `StaticLists`, `Variants` and `Reflection` have recursive operators, so TLC's comparison
  over bounded inputs is all there is for them.

## 5. Not modelled

`PROJECT.json` gives the reason for each component and for each part of a component that is left out.

* *Calls of the operating system*: thread names, priorities, setting an affinity, pauses, prefetching,
  resource usage, huge pages, waiting for a debugger. What `cpu-info` makes of the answers is modelled.
* *Strings, formatting, quantities and test support*: layout of text and of reports, and units that
  the compiler checks.
* *Floating point*: overloads and text of floating-point numbers, rounding and comparison of numbers. TLA+ has no floats
  that TLC computes with.
* *Facades, concepts and traits*: they forward to other code or have no computation. `for_each_tile`,
  the wrappers and the views are modelled where they compute an index.
* *Memory orders*: sequential consistency, as said in section 3.
* *Further limits*: big-endian machines, swapping two arrays of packed integers, mapping files to
  memory, concatenation, lookup with other types than the key, arrays after they have been moved from
  beyond the first operation, segment index types wider than the index type.

## 6. Findings

* `blocks_overflow`: `BlockedIndexSegmenter::segment_start` saturates a product that has already
  wrapped (`…/utility/index-segmentation.hpp:211`), so that the last segment of a size near the
  type's maximum may end before it starts.
* `padded_offset`: `PaddedIndexSegmenter` documents its first index as that of the padded segmenter
  and returns 0 (lines 257 and 289). Around a segmenter with an offset its segments do not add up to
  its size.
* `divisible_bytes`: `Divisor::is_divisible` compares products that have been promoted to `int`
  (`…/math/divmod.hpp:81`); for 8-bit types it is wrong for most multiples.
* `empty_erase`: `DynamicArray::erase` of an empty range before the end, documented and tested (with
  `int`) as a no-op, assigns every element behind it to itself by move
  (`…/containers/array/dynamic.hpp:285`).
* `invalid_literal`: the comment of `parse_integer` promises `nullopt` for what is not a valid literal and
  a leading `-` for signed types only (`…/charconv/parse-integer.hpp:28-30`). The code throws on a
  character that is no digit (line 83), and gives 0 for a prefix or separators without a digit (`0x`,
  `0b`, `_`) and for an unsigned `-0`. `ConversionsAreRight` therefore compares what is parsed with the
  value of the text only where the text is a literal (`IsLiteral`).

What the passing runs show and no text of the repository denies:

* A pool constructor that fails to create a thread after the first hangs (`StrandedByFailedSpawn`), and
  so does a scan whose operation throws on some threads before the latch (`ReturnsTogether`).
* `CostOfMisuse` and `CostOfChunkedMisuse`: `push_back` of an own element while growing appends what has
  been moved from; a copy assignment whose allocation fails leaves an end without a beginning; an
  element that throws while the array grows costs an allocation and the other values; a copied
  `FixedAllocArray` that is not full copies raw slots; a `DynamicBuffer` without memory has a size; a
  kept block handle is stale after almost anything; a block erases by a value in it what equals another one; chunked
  arrays do not destroy their elements and keep their block number when moved from.
* `set_difference` of sets and maps ignores their order (`wrongOrder`): in another order than the
  default it keeps more than it should.

* Somebody who reads a file while another one writes it may get a container that was never saved, and
  no exception: the elements of one content with the count of another one, or the old content from the
  buffer after the file has been written anew. `FilesGiveBack` speaks of a reader that is not `outdated`.
* `try_pread` leaves the position where it has read when it throws (`…/io/file-reader.hpp:113`); what it
  promises, it promises of a call that returns.
* `OptionalMultiByteIntegers::resize(n)` gives empty values where the comment on it speaks of zeros
  (`…/containers/multi-byte-integers.hpp:783`, of the class that it shares with the plain integers).
  `PackedIntegersHold` asks nothing of such elements until they are written.
* `factorize` compares `d * d`, which wraps at the width of the type; the model wraps too, and on eight
  bits the factors are right all the same.

Read in the code, and outside the inputs that the runs ask about: forward tiling wraps when an end is closer
to the largest index than a tile (`for_each_tile_unroll`), for which `TilesCover` asks for room; which
function a tile gets depends on whether it is full in the last dimension only, while
the comment speaks of full tiles; `operator-(off, w)` of the
index-position wrapper is `w - off`; `SetProxy::store` does not mask a value that is too wide;
`FileWriter`'s destructor ignores whether closing fails; text of a non-finite number is no JSON.

## 7. Plan

In this order, the most important first; done so far are 1 to 10.

1. `ParallelRegion`, `FixedThreadPool`, its proofs. Runs `pool`, `pool_wrap`.
2. `FixedStdThreadPool`. Run `std_pool`.
3. `Divisor`, `IndexSegmentation`, `SegmentWalk`, `IotaWalk`, their proofs. Run `segments` and the
   three runs of the findings.
4. `InclusiveScan`, composed of `ParallelRegion` and `IndexSegmentation`. Run `scan`.
5. This inventory, with all hazards.
6. `Bits`: several threads on one chunk. Run `containers`.
7. `Memory`, `DynamicArray`, `Arrays`, `ChunkedArray`, `NestedArray`, `FlatMap`, and `Containers`,
   which puts them and 6 into one run. Runs `containers` and `empty_erase`.
8. `ByteIntegers`, `Files`, `TempDirectories`. Run `library`.
9. `Numbers`, `Text`, `Indexing`, `StaticLists`, `Variants`, `Reflection`, `Processors`, and `Library`. Runs
   `library` and `invalid_literal`.
10. Proofs about `FixedStdThreadPool`, `InclusiveScan`, `Bits`, `NestedArray`, `FlatMap`, `Files`,
    `TempDirectories`, `Arrays` and `ChunkedArray`.
11. A happens-before model of the three shared words of `FixedThreadPool`.

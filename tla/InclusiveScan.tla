--------------------------- MODULE InclusiveScan ---------------------------
(***************************************************************************)
(* thes::transform_inclusive_scan, in place, through a                     *)
(* LinearExecutionPolicy: every thread of an executor reduces its segment  *)
(* of the cells, waits at a latch until all have done so, and scans its    *)
(* segment starting from the sum of the segments before it.  The executor  *)
(* is what it promises (ParallelRegion); the binary operation is addition  *)
(* of bags, which tells apart what has been added up and how often.        *)
(***************************************************************************)
EXTENDS IndexSegmentation, Bags

CONSTANTS
  N,             \* thread_num() of the executor
  MaxLength,     \* bound: the number of cells
  NoException,   \* the outcome of a call that returns normally
  MayThrow,      \* whether the unary operation may throw
  MayShare       \* whether one thread may have to run the task for several indices

Threads == 0 .. N - 1

ASSUME NAssumption == N \in Nat \ {0}
ASSUME MaxLengthAssumption == MaxLength \in Values
ASSUME NoExceptionAssumption == NoException \notin Threads
ASSUME SwitchAssumption == MayThrow \in BOOLEAN /\ MayShare \in BOOLEAN

VARIABLES
  phase, used, body, outcome,   \* the executor's
  host,      \* the thread of the executor that runs each index
  pc,        \* what the task on each index does next
  length,    \* the number of cells
  cells,     \* the range that is scanned, and the one that is written
  offsets,   \* offsets: the sum of each segment
  latch,     \* how many arrivals barrier waits for
  cursor,    \* the cell each index has come to
  acc        \* what it has added up

regionVars == <<phase, used, body, outcome>>
localVars == <<cursor, acc>>
vars == <<regionVars, host, pc, length, cells, offsets, latch, localVars>>

Region == INSTANCE ParallelRegion

Cells == 0 .. length - 1

\* An element of the offsets that has not been written: none of the cells holds it.
Junk == SetToBag({MaxLength})

ExpectedArrivals == N

Goto(t, label) == pc' = [pc EXCEPT ![t] = label]

Init ==
  /\ Region!Init
  /\ host \in [Threads -> Threads]
  /\ MayShare \/ \A t \in Threads : host[t] = t
  /\ pc = [t \in Threads |-> "unstarted"]
  /\ length \in 0 .. MaxLength
  /\ cells = [i \in Cells |-> SetToBag({i})]
  /\ offsets = [t \in Threads |-> Junk]
  /\ latch = ExpectedArrivals
  /\ cursor = [t \in Threads |-> 0]
  /\ acc = [t \in Threads |-> EmptyBag]

First(t) == UniformStart(length, N, t)

\* A mistake to stand in for Last: the segment is taken to be one cell longer.
LastTooFar(t) == Least(UniformStart(length, N, t + 1) + 1, length)

Last(t) == UniformStart(length, N, t + 1)

\* std::reduce of the offsets before the thread's own, starting from the neutral element
SumBelow(t) ==
  LET sum[n \in 0 .. t] == IF n = 0 THEN EmptyBag ELSE sum[n - 1] (+) offsets[n - 1]
  IN  sum[t]

-----------------------------------------------------------------------------
(* Plausible mistakes, to stand in for the action they misspell. *)

\* The latch is arrived at but not waited for.
PassUnopened(t) ==
  /\ pc[t] = "wait"
  /\ acc' = [acc EXCEPT ![t] = SumBelow(t)]
  /\ cursor' = [cursor EXCEPT ![t] = First(t)]
  /\ Goto(t, "scan")
  /\ UNCHANGED <<regionVars, host, length, cells, offsets, latch>>

\* The sum of the thread's own segment is counted as well.
PassInclusively(t) ==
  /\ pc[t] = "wait"
  /\ latch = 0
  /\ acc' = [acc EXCEPT ![t] = SumBelow(t + 1)]
  /\ cursor' = [cursor EXCEPT ![t] = First(t)]
  /\ Goto(t, "scan")
  /\ UNCHANGED <<regionVars, host, length, cells, offsets, latch>>

\* A segment without cells does not take part in the synchronisation.
ArriveUnlessEmpty(t) ==
  /\ pc[t] = "arrive"
  /\ latch' = IF First(t) = Last(t) THEN latch ELSE latch - 1
  /\ Goto(t, "wait")
  /\ UNCHANGED <<regionVars, host, length, cells, offsets, localVars>>

-----------------------------------------------------------------------------
Execute ==
  /\ outcome = NoException /\ used = 0
  /\ Region!Call(N)
  /\ UNCHANGED <<host, pc, length, cells, offsets, latch, localVars>>

\* A thread goes through its share of the indices one after the other.
Start(t) ==
  /\ Region!Start(t)
  /\ \A u \in Threads : u < t /\ host[u] = host[t] => body[u] \in Region!Ended
  /\ cursor' = [cursor EXCEPT ![t] = First(t)]
  /\ Goto(t, "reduce")
  /\ UNCHANGED <<host, length, cells, offsets, latch, acc>>

\* std::transform_reduce, cell by cell
Reduce(t) ==
  /\ pc[t] = "reduce"
  /\ cursor[t] < Last(t)
  /\ acc' = [acc EXCEPT ![t] = @ (+) cells[cursor[t]]]
  /\ cursor' = [cursor EXCEPT ![t] = @ + 1]
  /\ UNCHANGED <<regionVars, host, pc, length, cells, offsets, latch>>

Store(t) ==
  /\ pc[t] = "reduce"
  /\ cursor[t] = Last(t)
  /\ offsets' = [offsets EXCEPT ![t] = acc[t]]
  /\ Goto(t, "arrive")
  /\ UNCHANGED <<regionVars, host, length, cells, latch, localVars>>

Arrive(t) ==
  /\ pc[t] = "arrive"
  /\ latch' = latch - 1
  /\ Goto(t, "wait")
  /\ UNCHANGED <<regionVars, host, length, cells, offsets, localVars>>

\* The latch is open; the sums of the segments before this one are added up.
Pass(t) ==
  /\ pc[t] = "wait"
  /\ latch = 0
  /\ acc' = [acc EXCEPT ![t] = SumBelow(t)]
  /\ cursor' = [cursor EXCEPT ![t] = First(t)]
  /\ Goto(t, "scan")
  /\ UNCHANGED <<regionVars, host, length, cells, offsets, latch>>

\* std::transform_inclusive_scan, cell by cell
Scan(t) ==
  /\ pc[t] = "scan"
  /\ cursor[t] < Last(t)
  /\ LET sum == acc[t] (+) cells[cursor[t]]
     IN  /\ acc' = [acc EXCEPT ![t] = sum]
         /\ cells' = [cells EXCEPT ![cursor[t]] = sum]
  /\ cursor' = [cursor EXCEPT ![t] = @ + 1]
  /\ UNCHANGED <<regionVars, host, pc, length, offsets, latch>>

End(t) ==
  /\ pc[t] = "scan"
  /\ cursor[t] = Last(t)
  /\ Region!Finish(t)
  /\ body'[t] = "returned"
  /\ Goto(t, "ended")
  /\ UNCHANGED <<host, length, cells, offsets, latch, localVars>>

\* The unary operation throws for the cell the index has come to.
Throw(t) ==
  /\ MayThrow
  /\ pc[t] \in {"reduce", "scan"}
  /\ cursor[t] < Last(t)
  /\ Region!Finish(t)
  /\ body'[t] = "threw"
  /\ Goto(t, IF pc[t] = "reduce" THEN "threwEarly" ELSE "threwLate")
  /\ UNCHANGED <<host, length, cells, offsets, latch, localVars>>

Return ==
  /\ Region!Return
  /\ UNCHANGED <<host, pc, length, cells, offsets, latch, localVars>>

-----------------------------------------------------------------------------
\* What the task on an index does by itself.
TaskStep(t) ==
  \/ Start(t) \/ Reduce(t) \/ Store(t) \/ Arrive(t) \/ Pass(t) \/ Scan(t) \/ End(t)

Next ==
  \/ Execute
  \/ \E t \in Threads : TaskStep(t) \/ Throw(t)
  \/ Return

Spec ==
  /\ Init
  /\ [][Next]_vars
  /\ WF_vars(Return)
  /\ \A t \in Threads : WF_vars(TaskStep(t))

-----------------------------------------------------------------------------
(* Properties *)

IsSum(b) == IsABag(b) /\ BagToSet(b) \subseteq 0 .. MaxLength

PastTheLatch == {"scan", "ended", "threwLate"}

Returned == phase = "idle" /\ used = N

ThrewEarly(t) == pc[t] = "threwEarly"

Shared == \E t, u \in Threads : t # u /\ host[t] = host[u]

\* The types; the latch in particular is never decremented below zero, which would be
\* undefined for a std::latch.
TypeOK ==
  /\ Region!TypeOK
  /\ host \in [Threads -> Threads]
  /\ pc \in [Threads -> {"unstarted", "reduce", "arrive", "wait", "threwEarly"} \cup PastTheLatch]
  /\ length \in 0 .. MaxLength
  /\ \A i \in Cells : IsSum(cells[i])
  /\ \A t \in Threads : IsSum(offsets[t]) /\ IsSum(acc[t])
  /\ latch \in 0 .. N
  /\ cursor \in [Threads -> 0 .. MaxLength]

\* A call that returns normally has replaced every cell by the sum of all cells up to it,
\* each added once.
ScanIsPrefixSum ==
  Returned /\ outcome = NoException => \A i \in Cells : cells[i] = SetToBag(0 .. i)

\* No thread reads the sums or overwrites a cell before all of them have published theirs.
LatchSeparates ==
  /\ TypeOK
  /\ (\E t \in Threads : pc[t] \in PastTheLatch) =>
       \A u \in Threads : pc[u] \in PastTheLatch \cup {"wait"} /\ offsets[u] # Junk

\* Two threads never work on the same cell.
CellsArePrivate ==
  \A t, u \in Threads :
    /\ t # u
    /\ {pc[t], pc[u]} \subseteq {"reduce", "scan"}
    /\ cursor[t] < Last(t) /\ cursor[u] < Last(u)
    => cursor[t] # cursor[u]

\* An exception before the latch, or a thread that has to run two of the tasks, leaves the
\* others at the latch for good: the call returns only if none or all of the tasks throw
\* before it, and in the first case only if each has a thread.
ReturnsTogether ==
  Returned =>
    \/ \A t \in Threads : ThrewEarly(t)
    \/ ~Shared /\ \A t \in Threads : pc[t] \in PastTheLatch

\* Without those, the call returns.
ScanReturns ==
  (phase = "running") ~> (phase = "idle" \/ Shared \/ \E t \in Threads : ThrewEarly(t))

=============================================================================

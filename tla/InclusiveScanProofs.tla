------------------------ MODULE InclusiveScanProofs ------------------------
(***************************************************************************)
(* Proofs about InclusiveScan for every number of threads and of cells and *)
(* every width of the type of the indices.                                 *)
(*                                                                         *)
(* Which cells a sum is of can be read off the program counter and the     *)
(* cursor: every bag of the state is the set of an interval of cells       *)
(* (OffsetsInv, AccInv, CellsInv), and the sums that are added up at the   *)
(* latch are of adjacent intervals.  That the latch separates the passes   *)
(* is a matter of counting who has not arrived (LatchInv), and that a      *)
(* thread with two tasks can not get them both to the latch one of the     *)
(* order in which it takes them up (OneAtATime, NoneShared).               *)
(***************************************************************************)
EXTENDS InclusiveScan, IndexSegmentationProofs, FiniteSetTheorems, WellFoundedInduction, TLAPS

Segment(t) == First(t) .. Last(t) - 1

Running == {"reduce", "arrive", "wait", "scan"}
Over == {"ended", "threwEarly", "threwLate"}
BeforeLatch == {"unstarted", "reduce", "arrive", "threwEarly"}

NotArrived == {t \in Threads : pc[t] \in BeforeLatch}

\* The types of what is no bag.
DataOK ==
  /\ Region!TypeOK
  /\ host \in [Threads -> Threads]
  /\ pc \in [Threads -> {"unstarted", "threwEarly"} \cup Running \cup PastTheLatch]
  /\ length \in 0 .. MaxLength
  /\ cursor \in [Threads -> 0 .. MaxLength]

\* The one call of the executor, and what it knows of the task on each index.
RegionInv ==
  /\ used = 0 => phase = "idle" /\ \A t \in Threads : pc[t] = "unstarted"
  /\ used # 0 => used = N
  /\ phase # "closed"
  /\ \A t \in Threads :
       /\ body[t] = "pending" <=> pc[t] = "unstarted"
       /\ body[t] = "running" <=> pc[t] \in Running
       /\ body[t] = "returned" <=> pc[t] = "ended"
  /\ Returned => \A t \in Threads : pc[t] \in Over
  /\ Returned /\ outcome = NoException => \A t \in Threads : pc[t] = "ended"

\* A thread has come to the end of one of its tasks before it takes up the next one.
OneAtATime ==
  \A t, u \in Threads :
    u < t /\ host[u] = host[t] /\ pc[t] # "unstarted" => pc[u] \in Over

LatchInv ==
  /\ latch = Cardinality(NotArrived)
  /\ (\E t \in Threads : pc[t] \in PastTheLatch) => latch = 0

NoneShared == latch = 0 => ~Shared

\* The cursor is within the segment, and at its end once a pass is over.
CursorInv ==
  \A t \in Threads :
    /\ pc[t] # "unstarted" => cursor[t] \in First(t) .. Last(t)
    /\ pc[t] \in {"arrive", "wait", "ended"} => cursor[t] = Last(t)

OffsetsInv ==
  offsets = [t \in Threads |-> IF pc[t] \in {"unstarted", "reduce", "threwEarly"}
                                 THEN Junk ELSE SetToBag(Segment(t))]

\* The cells a task has added up: those of its segment before the cursor and, once it is
\* past the latch, those of the segments before.
Summed(t) ==
  IF pc[t] = "unstarted" THEN {}
  ELSE IF pc[t] \in PastTheLatch THEN 0 .. cursor[t] - 1
  ELSE First(t) .. cursor[t] - 1

AccInv == acc = [t \in Threads |-> SetToBag(Summed(t))]

\* A cell that has been overwritten
Scanned(i) == \E t \in Threads : pc[t] \in PastTheLatch /\ i \in First(t) .. cursor[t] - 1

CellsInv == cells = [i \in Cells |-> SetToBag(IF Scanned(i) THEN 0 .. i ELSE {i})]

IInv ==
  /\ DataOK /\ RegionInv /\ OneAtATime /\ LatchInv /\ NoneShared
  /\ CursorInv /\ OffsetsInv /\ AccInv /\ CellsInv

-----------------------------------------------------------------------------
(* Bags of one copy of each element *)

LEMMA SumOfSets ==
  ASSUME NEW A, NEW B, A \cap B = {}
  PROVE  SetToBag(A) (+) SetToBag(B) = SetToBag(A \cup B)
BY SMT DEF (+), SetToBag

LEMMA NothingIsASet == EmptyBag = SetToBag({})
BY DEF EmptyBag

\* A set can be told from its bag.
LEMMA BagTellsTheSet ==
  ASSUME NEW A, NEW B, SetToBag(A) = SetToBag(B)
  PROVE  A = B
<1>1. DOMAIN SetToBag(A) = A /\ DOMAIN SetToBag(B) = B
  BY DEF SetToBag
<1> QED
  BY <1>1

LEMMA SetIsSum ==
  ASSUME NEW A \in SUBSET (0 .. MaxLength)
  PROVE  IsSum(SetToBag(A))
BY DEF IsSum, IsABag, BagToSet, SetToBag

-----------------------------------------------------------------------------
(* The segments *)

LEMMA LeastElement ==
  ASSUME NEW T \in SUBSET Nat, T # {}
  PROVE  \E x \in T : \A y \in T : x <= y
<1> DEFINE R == {p \in Nat \X Nat : p[1] < p[2]}
<1>1. IsWellFoundedOn(R, Nat)
  BY NatLessThanWellFounded, Zenon DEF OpToRel
<1>2. \A x, y \in Nat : y < x => <<y, x>> \in R
  OBVIOUS
<1> HIDE DEF R
<1>3. PICK x \in T : \A y \in T : ~ (<<y, x>> \in R)
  BY <1>1, WFMin
<1>4. \A y \in T : ~ (y < x)
  BY <1>2, <1>3, Zenon
<1> QED
  BY <1>4, SMT

LEMMA Segments ==
  ASSUME length \in 0 .. MaxLength
  PROVE  /\ First(0) = 0
         /\ \A t \in Threads :
              /\ First(t) \in Nat /\ Last(t) \in Nat
              /\ First(t) <= Last(t) /\ Last(t) <= length
              /\ Last(t) = First(t + 1)
<1>1. length \in Values /\ length \in Nat
  BY MaxLengthAssumption, ValueModAssumption DEF Values
<1>2. ASSUME NEW t \in Threads
      PROVE  /\ First(t) \in 0 .. length /\ Last(t) \in 0 .. length
             /\ First(t) <= Last(t)
  BY <1>1, NAssumption, UniformStartsAscend DEF Threads, First, Last
<1>3. First(0) = 0
  BY <1>1, NAssumption, UniformSegmentsPartition DEF First
<1> QED
  BY <1>1, <1>2, <1>3 DEF First, Last

\* No cell is in two segments.
LEMMA SegmentsAreDisjoint ==
  ASSUME length \in 0 .. MaxLength, NEW t \in Threads, NEW u \in Threads,
         NEW i \in Nat, First(t) <= i, i < Last(t), First(u) <= i, i < Last(u)
  PROVE  t = u
<1>1. length \in Values
  BY MaxLengthAssumption, ValueModAssumption DEF Values
<1> QED
  BY <1>1, NAssumption, UniformSegmentIsUnique DEF Threads, First, Last

\* Every cell is in one.
LEMMA SegmentsCover ==
  ASSUME length \in 0 .. MaxLength, NEW i \in Cells
  PROVE  \E t \in Threads : First(t) <= i /\ i < Last(t)
<1> DEFINE T == {s \in 0 .. N : i < First(s)}
<1>1. length \in Values /\ length \in Nat /\ i \in Nat /\ i < length
  BY MaxLengthAssumption, ValueModAssumption DEF Values, Cells
<1>2. First(N) = length /\ First(0) = 0
  BY <1>1, NAssumption, UniformSegmentsPartition DEF First
<1>3. \A s \in 0 .. N : First(s) \in Nat
  <2>1. ASSUME NEW s \in 0 .. N PROVE First(s) \in Nat
    <3>1. UniformStart(length, N, s) \in 0 .. length
      BY <1>1, NAssumption, UniformStartIs
    <3> QED
      BY <1>1, <3>1 DEF First
  <2> QED
    BY <2>1
<1>4. T \in SUBSET Nat /\ N \in T
  BY <1>1, <1>2, NAssumption
<1>5. PICK s \in T : \A r \in T : s <= r
  BY <1>4, LeastElement
<1>6. s \in 0 .. N /\ s # 0 /\ i < First(s)
  BY <1>1, <1>2, <1>5
<1>7. s - 1 \in 0 .. N /\ s - 1 \notin T
  BY <1>5, <1>6, NAssumption
<1>8. s - 1 \in Threads /\ First(s - 1) <= i
  BY <1>1, <1>3, <1>6, <1>7, NAssumption DEF Threads
<1>9. Last(s - 1) = First(s)
  BY <1>6, NAssumption DEF First, Last
<1> QED
  BY <1>6, <1>8, <1>9

\* What is not written is told from what is.
LEMMA JunkIsNoSum ==
  ASSUME length \in 0 .. MaxLength, NEW t \in Threads
  PROVE  SetToBag(Segment(t)) # Junk
<1>1. Last(t) \in Nat /\ Last(t) <= length /\ First(t) \in Nat
  BY Segments
<1>2. MaxLength \in Nat
  BY MaxLengthAssumption, ValueModAssumption DEF Values
<1>3. MaxLength \notin Segment(t)
  BY <1>1, <1>2 DEF Segment
<1> QED
  BY <1>3, BagTellsTheSet DEF Junk

\* The offsets of the segments before a thread's own are added up to all cells before it.
LEMMA SumBelowIs ==
  ASSUME length \in 0 .. MaxLength, NEW t \in Threads,
         \A u \in Threads : offsets[u] = SetToBag(Segment(u))
  PROVE  SumBelow(t) = SetToBag(0 .. First(t) - 1)
<1> DEFINE Eq(g) == g = [n \in 0 .. t |-> IF n = 0 THEN EmptyBag ELSE g[n - 1] (+) offsets[n - 1]]
           f == [n \in 0 .. t |-> SetToBag(0 .. First(n) - 1)]
           sum == CHOOSE g : Eq(g)
<1>1. t \in Nat /\ \A n \in 0 .. t : n \in Threads /\ First(n) \in Nat
  BY NAssumption, Segments DEF Threads
<1>2. First(0) = 0
  BY Segments
<1>3. ASSUME NEW n \in 1 .. t
      PROVE  SetToBag(0 .. First(n) - 1)
               = SetToBag(0 .. First(n - 1) - 1) (+) offsets[n - 1]
  <2>1. n - 1 \in Threads /\ n \in Threads
    BY <1>1
  <2>2. /\ First(n - 1) \in Nat /\ First(n) \in Nat /\ First(n - 1) <= First(n)
        /\ Last(n - 1) = First(n)
    BY <2>1, Segments
  <2>3. /\ (0 .. First(n - 1) - 1) \cap Segment(n - 1) = {}
        /\ (0 .. First(n - 1) - 1) \cup Segment(n - 1) = 0 .. First(n) - 1
    BY <2>2 DEF Segment
  <2> QED
    BY <2>1, <2>3, SumOfSets
<1>4. Eq(f)
  <2>1. ASSUME NEW n \in 0 .. t
        PROVE  f[n] = IF n = 0 THEN EmptyBag ELSE f[n - 1] (+) offsets[n - 1]
    <3>1. CASE n = 0
      <4>1. 0 .. First(0) - 1 = {}
        BY <1>2
      <4> QED
        BY <3>1, <4>1, <1>1, NothingIsASet
    <3>2. CASE n # 0
      <4>1. n \in 1 .. t /\ n - 1 \in 0 .. t
        BY <1>1, <3>2
      <4> QED
        BY <1>3, <3>2, <4>1
    <3> QED
      BY <3>1, <3>2
  <2> QED
    BY <2>1
<1>5. Eq(sum)
  BY <1>4
<1>6. SumBelow(t) = sum[t]
  BY DEF SumBelow
<1> HIDE DEF sum
<1>7. \A n \in 0 .. t : sum[n] = IF n = 0 THEN EmptyBag ELSE sum[n - 1] (+) offsets[n - 1]
  BY <1>5
<1> DEFINE T == {n \in 0 .. t : sum[n] # f[n]}
<1>8. T = {}
  <2> SUFFICES ASSUME T # {} PROVE FALSE
    OBVIOUS
  <2>1. T \in SUBSET Nat
    BY <1>1
  <2>2. PICK n \in T : \A m \in T : n <= m
    BY <2>1, LeastElement
  <2>3. n \in 0 .. t /\ sum[n] # f[n]
    BY <2>2
  <2>4. n # 0
    BY <1>4, <1>7, <2>3
  <2>5. n - 1 \in 0 .. t /\ n - 1 \notin T /\ n \in 1 .. t
    BY <1>1, <2>2, <2>3, <2>4
  <2>6. sum[n - 1] = SetToBag(0 .. First(n - 1) - 1)
    BY <2>5
  <2> QED
    BY <1>3, <1>7, <2>3, <2>4, <2>5, <2>6
<1>9. t \in 0 .. t
  BY <1>1
<1>10. sum[t] = f[t]
  BY <1>8, <1>9
<1> QED
  BY <1>6, <1>9, <1>10

-----------------------------------------------------------------------------
(* The executor and the order of the tasks *)

LEMMA InitInv == Init => IInv
<1> SUFFICES ASSUME Init PROVE IInv
  OBVIOUS
<1> USE NAssumption, MaxLengthAssumption, ValueModAssumption DEF Init, Threads, Values
<1>1. DataOK
  BY DEF DataOK, Region!TypeOK, Region!Init, Region!Threads
<1>2. RegionInv
  BY DEF RegionInv, Region!Init, Region!Threads, Returned, Running, Over
<1>3. OneAtATime /\ CursorInv
  BY DEF OneAtATime, CursorInv
<1>4. LatchInv /\ latch # 0
  <2>1. NotArrived = Threads
    BY DEF NotArrived, BeforeLatch
  <2>2. Cardinality(Threads) = N
    BY FS_Interval
  <2> QED
    BY <2>1, <2>2 DEF LatchInv, PastTheLatch, ExpectedArrivals
<1>5. NoneShared
  BY <1>4 DEF NoneShared
<1>6. OffsetsInv
  BY DEF OffsetsInv
<1>7. AccInv
  BY DEF AccInv, Summed, EmptyBag
<1>8. CellsInv
  BY DEF CellsInv, Scanned, PastTheLatch
<1> QED
  BY <1>1, <1>2, <1>3, <1>4, <1>5, <1>6, <1>7, <1>8 DEF IInv

\* The number of cells, and with it the segments, stay the same.
LEMMA LengthKept ==
  ASSUME [Next]_vars
  PROVE  /\ length' = length
         /\ \A t : First(t)' = First(t) /\ Last(t)' = Last(t) /\ Segment(t)' = Segment(t)
<1>1. length' = length
  BY DEF Next, TaskStep, Execute, Start, Reduce, Store, Arrive, Pass, Scan, End, Throw, Return, vars
<1> QED
  BY <1>1 DEF First, Last, Segment

LEMMA DataStep == DataOK /\ [Next]_vars => DataOK'
<1> SUFFICES ASSUME DataOK, [Next]_vars PROVE DataOK'
  OBVIOUS
<1> DEFINE Rest == /\ host' \in [Threads -> Threads]
                   /\ pc' \in [Threads -> {"unstarted", "threwEarly"} \cup Running \cup PastTheLatch]
                   /\ length' \in 0 .. MaxLength
                   /\ cursor' \in [Threads -> 0 .. MaxLength]
<1>1. Region!TypeOK'
  <2> USE DEF DataOK, Region!TypeOK, Region!Threads, Region!Ended, regionVars
  <2>1. CASE Execute
    BY <2>1, NAssumption DEF Execute, Region!Call
  <2>2. ASSUME NEW t \in Threads, Start(t) PROVE Region!TypeOK'
    BY <2>2 DEF Start, Region!Start
  <2>3. ASSUME NEW t \in Threads, End(t) \/ Throw(t) PROVE Region!TypeOK'
    BY <2>3 DEF End, Throw, Region!Finish
  <2>4. CASE Return
    BY <2>4 DEF Return, Region!Return, Region!Threw
  <2>5. ASSUME NEW t \in Threads,
               Reduce(t) \/ Store(t) \/ Arrive(t) \/ Pass(t) \/ Scan(t) \/ UNCHANGED vars
        PROVE  Region!TypeOK'
    BY <2>5 DEF Reduce, Store, Arrive, Pass, Scan, vars
  <2>6. CASE UNCHANGED vars
    BY <2>6 DEF vars
  <2> HIDE DEF DataOK, Region!TypeOK
  <2> QED
    BY <2>1, <2>2, <2>3, <2>4, <2>5, <2>6 DEF Next, TaskStep
<1>2. Rest
  <2> USE DEF DataOK, Running, PastTheLatch, Goto, localVars
  <2>1. CASE Execute \/ Return \/ UNCHANGED vars
    BY <2>1 DEF Execute, Return, vars
  <2>2. MaxLength \in Nat
    BY MaxLengthAssumption, ValueModAssumption DEF Values
  <2>3. \A t \in Threads : First(t) \in 0 .. MaxLength /\ Last(t) \in 0 .. MaxLength
    BY <2>2, Segments
  <2>4. ASSUME NEW t \in Threads, Start(t) \/ Pass(t) PROVE Rest
    BY <2>3, <2>4 DEF Start, Pass
  <2>5. ASSUME NEW t \in Threads, Reduce(t) \/ Scan(t) PROVE Rest
    BY <2>2, <2>3, <2>5 DEF Reduce, Scan
  <2>6. ASSUME NEW t \in Threads, Store(t) \/ Arrive(t) \/ End(t) \/ Throw(t) PROVE Rest
    BY <2>6 DEF Store, Arrive, End, Throw
  <2> HIDE DEF DataOK, Rest
  <2> QED
    BY <2>1, <2>4, <2>5, <2>6 DEF Next, TaskStep
<1> QED
  BY <1>1, <1>2 DEF DataOK

LEMMA RegionStep == DataOK /\ RegionInv /\ [Next]_vars => RegionInv'
<1> SUFFICES ASSUME DataOK, RegionInv, [Next]_vars PROVE RegionInv'
  OBVIOUS
<1> USE NAssumption DEF DataOK, RegionInv, Region!TypeOK, Region!Threads, Region!Ended, Threads,
                        Returned, Running, Over, PastTheLatch, Goto, regionVars
<1>1. CASE Execute
  BY <1>1 DEF Execute, Region!Call
<1>2. ASSUME NEW t \in Threads, Start(t) PROVE RegionInv'
  BY <1>2 DEF Start, Region!Start
<1>3. ASSUME NEW t \in Threads, End(t) PROVE RegionInv'
  BY <1>3 DEF End, Region!Finish
<1>4. ASSUME NEW t \in Threads, Throw(t) PROVE RegionInv'
  BY <1>4 DEF Throw, Region!Finish
<1>5. CASE Return
  <2>1. /\ phase = "running" /\ phase' = "idle" /\ UNCHANGED <<used, body, pc>>
        /\ Region!AllDone
    BY <1>5 DEF Return, Region!Return
  <2>2. used = N /\ \A t \in Threads : body[t] \in {"returned", "threw"}
    BY <2>1 DEF Region!AllDone
  <2>3. \A t \in Threads : pc[t] \in Over
    BY <2>2
  <2>4. ASSUME outcome' = NoException PROVE \A t \in Threads : pc[t] = "ended"
    <3>1. Region!Threw = {}
      BY <1>5, <2>4, NoExceptionAssumption DEF Return, Region!Return, Region!Threw
    <3> QED
      BY <2>2, <3>1 DEF Region!Threw
  <2> QED
    BY <2>1, <2>2, <2>3, <2>4
<1>6. ASSUME NEW t \in Threads, Reduce(t) \/ Scan(t) PROVE RegionInv'
  <2>1. UNCHANGED <<phase, used, body, outcome, pc>>
    BY <1>6 DEF Reduce, Scan
  <2> QED
    BY <2>1
<1>7. ASSUME NEW t \in Threads, Store(t) \/ Arrive(t) \/ Pass(t) PROVE RegionInv'
  <2>1. /\ UNCHANGED <<phase, used, body, outcome>>
        /\ pc[t] \in Running
        /\ \E label \in Running : Goto(t, label)
    BY <1>7 DEF Store, Arrive, Pass
  <2> QED
    BY <2>1
<1>8. CASE UNCHANGED vars
  BY <1>8 DEF vars
<1> HIDE DEF RegionInv
<1> QED
  BY <1>1, <1>2, <1>3, <1>4, <1>5, <1>6, <1>7, <1>8 DEF Next, TaskStep

LEMMA OneAtATimeStep == DataOK /\ RegionInv /\ OneAtATime /\ [Next]_vars => OneAtATime'
<1> SUFFICES ASSUME DataOK, RegionInv, OneAtATime, [Next]_vars PROVE OneAtATime'
  OBVIOUS
<1> USE DEF DataOK, OneAtATime, Over, Goto
<1>1. ASSUME NEW t \in Threads, Start(t) PROVE OneAtATime'
  BY <1>1 DEF Start, Region!Start, RegionInv, Region!Ended, Region!TypeOK, Region!Threads, Threads,
              Running, PastTheLatch
<1>2. ASSUME NEW t \in Threads, Store(t) \/ Arrive(t) \/ Pass(t) \/ End(t) \/ Throw(t)
      PROVE  OneAtATime'
  BY <1>2 DEF Store, Arrive, Pass, End, Throw
<1>3. ASSUME NEW t \in Threads, Reduce(t) \/ Scan(t) PROVE OneAtATime'
  BY <1>3 DEF Reduce, Scan
<1>4. CASE Execute \/ Return \/ UNCHANGED vars
  BY <1>4 DEF Execute, Return, vars
<1> HIDE DEF OneAtATime
<1> QED
  BY <1>1, <1>2, <1>3, <1>4 DEF Next, TaskStep

-----------------------------------------------------------------------------
(* The latch *)

\* How many have not arrived changes only by an arrival.
LEMMA NotArrivedStep ==
  ASSUME DataOK, RegionInv, [Next]_vars
  PROVE  \/ /\ NotArrived' = NotArrived
            /\ latch' = latch
            /\ \/ latch = 0
               \/ \A t \in Threads : pc'[t] \in PastTheLatch => pc[t] \in PastTheLatch
         \/ \E t \in Threads : Arrive(t) /\ t \in NotArrived /\ NotArrived' = NotArrived \ {t}
<1> DEFINE Goal ==
      \/ /\ NotArrived' = NotArrived
         /\ latch' = latch
         /\ \/ latch = 0
            \/ \A t \in Threads : pc'[t] \in PastTheLatch => pc[t] \in PastTheLatch
      \/ \E t \in Threads : Arrive(t) /\ t \in NotArrived /\ NotArrived' = NotArrived \ {t}
<1> SUFFICES Goal
  OBVIOUS
<1> USE DEF DataOK, NotArrived, BeforeLatch, PastTheLatch, Running, Goto
<1>1. ASSUME NEW t \in Threads, Arrive(t) PROVE Goal
  BY <1>1 DEF Arrive
<1>2. ASSUME NEW t \in Threads, Start(t) PROVE Goal
  BY <1>2 DEF Start, Region!Start, RegionInv, Region!TypeOK, Region!Threads, Threads
<1>3. ASSUME NEW t \in Threads, Store(t) \/ Pass(t) \/ End(t) PROVE Goal
  BY <1>3 DEF Store, Pass, End
<1>4. ASSUME NEW t \in Threads, Throw(t) PROVE Goal
  BY <1>4 DEF Throw
<1>5. ASSUME NEW t \in Threads, Reduce(t) \/ Scan(t) PROVE Goal
  BY <1>5 DEF Reduce, Scan
<1>6. CASE Execute \/ Return \/ UNCHANGED vars
  BY <1>6 DEF Execute, Return, vars
<1> HIDE DEF Goal
<1> QED
  BY <1>1, <1>2, <1>3, <1>4, <1>5, <1>6 DEF Next, TaskStep

LEMMA NotArrivedIsFinite ==
  /\ IsFiniteSet(NotArrived)
  /\ Cardinality(NotArrived) \in 0 .. N
  /\ Cardinality(NotArrived) = 0 <=> NotArrived = {}
<1>1. IsFiniteSet(Threads) /\ Cardinality(Threads) = N
  BY NAssumption, FS_Interval DEF Threads
<1>2. IsFiniteSet(NotArrived) /\ Cardinality(NotArrived) <= Cardinality(Threads)
  BY <1>1, FS_Subset DEF NotArrived
<1> QED
  BY <1>1, <1>2, FS_CardinalityType, FS_EmptySet

LEMMA LatchStep == DataOK /\ RegionInv /\ LatchInv /\ [Next]_vars => LatchInv'
<1> SUFFICES ASSUME DataOK, RegionInv, LatchInv, [Next]_vars PROVE LatchInv'
  OBVIOUS
<1> USE DEF LatchInv
<1>1. ASSUME NEW t \in Threads, Arrive(t), t \in NotArrived, NotArrived' = NotArrived \ {t}
      PROVE  LatchInv'
  <2>1. Cardinality(NotArrived') = Cardinality(NotArrived) - 1
    BY <1>1, NotArrivedIsFinite, FS_RemoveElement
  <2>2. latch' = Cardinality(NotArrived)'
    BY <1>1, <2>1 DEF Arrive
  <2>3. latch # 0
    BY <1>1, NotArrivedIsFinite
  <2>4. \A u \in Threads : pc'[u] \notin PastTheLatch
    BY <1>1, <2>3 DEF Arrive, Goto, DataOK, PastTheLatch
  <2> QED
    BY <2>2, <2>4
<1>2. CASE /\ NotArrived' = NotArrived
           /\ latch' = latch
           /\ \/ latch = 0
              \/ \A t \in Threads : pc'[t] \in PastTheLatch => pc[t] \in PastTheLatch
  BY <1>2
<1> QED
  BY <1>1, <1>2, NotArrivedStep

\* When the last thread arrives, all the others wait, and a thread with two tasks would
\* have had to end one of them.
LEMMA NoneSharedStep ==
  DataOK /\ RegionInv /\ OneAtATime /\ LatchInv /\ LatchInv' /\ NoneShared /\ [Next]_vars
    => NoneShared'
<1> SUFFICES ASSUME DataOK, RegionInv, OneAtATime, LatchInv, LatchInv', NoneShared, [Next]_vars
             PROVE  NoneShared'
  OBVIOUS
<1>1. host' = host
  BY DEF Next, TaskStep, Execute, Start, Reduce, Store, Arrive, Pass, Scan, End, Throw, Return, vars
<1>2. ASSUME NEW t \in Threads, Arrive(t), t \in NotArrived, NotArrived' = NotArrived \ {t}
      PROVE  NoneShared'
  <2> SUFFICES ASSUME latch' = 0, NEW x \in Threads, NEW y \in Threads, x < y, host[x] = host[y]
               PROVE  FALSE
    BY <1>1 DEF NoneShared, Shared, Threads
  <2>1. latch # 0
    BY <1>2, NotArrivedIsFinite DEF LatchInv
  <2>2. NotArrived = {t}
    <3>1. Cardinality(NotArrived \ {t}) = 0
      BY <1>2 DEF LatchInv
    <3>2. IsFiniteSet(NotArrived \ {t})
      BY NotArrivedIsFinite, FS_RemoveElement
    <3> QED
      BY <1>2, <3>1, <3>2, FS_EmptySet
  <2>3. pc[y] # "unstarted"
    BY <1>2, <2>2 DEF NotArrived, BeforeLatch, Arrive
  <2>4. pc[x] \in Over
    BY <2>3 DEF OneAtATime
  <2>5. pc[x] = "threwEarly"
    BY <2>1, <2>4 DEF LatchInv, Over, PastTheLatch
  <2>6. x = t
    BY <2>2, <2>5 DEF NotArrived, BeforeLatch
  <2> QED
    BY <1>2, <2>5, <2>6 DEF Arrive
<1>3. CASE latch' = latch
  BY <1>1, <1>3 DEF NoneShared, Shared
<1> QED
  BY <1>2, <1>3, NotArrivedStep

-----------------------------------------------------------------------------
(* The sums *)

LEMMA CursorStep == DataOK /\ RegionInv /\ CursorInv /\ [Next]_vars => CursorInv'
<1> SUFFICES ASSUME DataOK, RegionInv, CursorInv, [Next]_vars PROVE CursorInv'
  OBVIOUS
<1>1. \A t \in Threads : First(t) \in Nat /\ Last(t) \in Nat /\ First(t) <= Last(t)
  BY Segments DEF DataOK
<1>2. \A t \in Threads : First(t)' = First(t) /\ Last(t)' = Last(t)
  BY LengthKept
<1> SUFFICES \A t \in Threads :
               /\ pc'[t] # "unstarted" => cursor'[t] \in First(t) .. Last(t)
               /\ pc'[t] \in {"arrive", "wait", "ended"} => cursor'[t] = Last(t)
  BY <1>2 DEF CursorInv
<1> DEFINE Goal == \A t \in Threads :
                     /\ pc'[t] # "unstarted" => cursor'[t] \in First(t) .. Last(t)
                     /\ pc'[t] \in {"arrive", "wait", "ended"} => cursor'[t] = Last(t)
<1> SUFFICES Goal
  OBVIOUS
<1> USE DEF DataOK, CursorInv, Goto
<1>3. ASSUME NEW t \in Threads, Start(t) \/ Pass(t) PROVE Goal
  BY <1>1, <1>3 DEF Start, Pass
<1>4. ASSUME NEW t \in Threads, Reduce(t) PROVE Goal
  BY <1>1, <1>4 DEF Reduce
<1>5. ASSUME NEW t \in Threads, Scan(t) PROVE Goal
  BY <1>1, <1>5 DEF Scan
<1>6. ASSUME NEW t \in Threads, Store(t) \/ Arrive(t) \/ End(t) \/ Throw(t) PROVE Goal
  BY <1>1, <1>6 DEF Store, Arrive, End, Throw, localVars
<1>7. CASE Execute \/ Return \/ UNCHANGED vars
  BY <1>7 DEF Execute, Return, vars, localVars
<1> HIDE DEF Goal
<1> QED
  BY <1>3, <1>4, <1>5, <1>6, <1>7 DEF Next, TaskStep

\* A task publishes the sum of its segment as it comes to the latch.
LEMMA OffsetsStep ==
  DataOK /\ RegionInv /\ CursorInv /\ OffsetsInv /\ AccInv /\ [Next]_vars => OffsetsInv'
<1> SUFFICES ASSUME DataOK, RegionInv, CursorInv, OffsetsInv, AccInv, [Next]_vars
             PROVE  OffsetsInv'
  OBVIOUS
<1> DEFINE Goal == offsets' = [t \in Threads |->
                                IF pc'[t] \in {"unstarted", "reduce", "threwEarly"}
                                  THEN Junk ELSE SetToBag(Segment(t))]
<1> SUFFICES Goal
  BY LengthKept DEF OffsetsInv, Junk
<1> USE DEF DataOK, OffsetsInv, Goto
<1>1. ASSUME NEW t \in Threads, Store(t) PROVE Goal
  <2>1. acc[t] = SetToBag(Segment(t))
    BY <1>1 DEF Store, AccInv, Summed, PastTheLatch, Segment
  <2> QED
    BY <1>1, <2>1 DEF Store
<1>2. ASSUME NEW t \in Threads, Start(t) PROVE Goal
  BY <1>2 DEF Start, Region!Start, RegionInv, Region!TypeOK, Region!Threads, Threads
<1>3. ASSUME NEW t \in Threads, Arrive(t) \/ Pass(t) \/ End(t) \/ Throw(t) PROVE Goal
  BY <1>3 DEF Arrive, Pass, End, Throw
<1>4. ASSUME NEW t \in Threads, Reduce(t) \/ Scan(t) PROVE Goal
  BY <1>4 DEF Reduce, Scan
<1>5. CASE Execute \/ Return \/ UNCHANGED vars
  BY <1>5 DEF Execute, Return, vars
<1> HIDE DEF Goal
<1> QED
  BY <1>1, <1>2, <1>3, <1>4, <1>5 DEF Next, TaskStep

\* A cell that a task has come to is not overwritten.
LEMMA CellAtCursor ==
  ASSUME DataOK, LatchInv, CursorInv, CellsInv,
         NEW t \in Threads, pc[t] \in {"reduce", "scan"}, cursor[t] < Last(t)
  PROVE  /\ cursor[t] \in Cells
         /\ ~Scanned(cursor[t])
         /\ cells[cursor[t]] = SetToBag({cursor[t]})
<1>1. \A u \in Threads : First(u) \in Nat /\ Last(u) \in Nat /\ Last(u) <= length
  BY Segments DEF DataOK
<1>2. cursor[t] \in Cells /\ cursor[t] \in Nat /\ First(t) <= cursor[t]
  BY <1>1 DEF DataOK, CursorInv, Cells
<1>3. ASSUME NEW u \in Threads, pc[u] \in PastTheLatch, cursor[t] \in First(u) .. cursor[u] - 1
      PROVE  FALSE
  <2>1. cursor[u] \in First(u) .. Last(u)
    BY <1>3 DEF CursorInv, PastTheLatch
  <2>2. t = u
    <3>1. First(u) <= cursor[t] /\ cursor[t] < Last(u)
      BY <1>1, <1>2, <1>3, <2>1
    <3> QED
      BY <1>2, <3>1, SegmentsAreDisjoint DEF DataOK
  <2> QED
    BY <1>2, <1>3, <2>2
<1>4. ~Scanned(cursor[t])
  BY <1>3 DEF Scanned
<1> QED
  BY <1>2, <1>4 DEF CellsInv

LEMMA AccStep ==
  /\ DataOK /\ RegionInv /\ LatchInv /\ CursorInv /\ OffsetsInv /\ AccInv /\ CellsInv
  /\ [Next]_vars
  => AccInv'
<1> SUFFICES ASSUME DataOK, RegionInv, LatchInv, CursorInv, OffsetsInv, AccInv, CellsInv,
                    [Next]_vars
             PROVE  AccInv'
  OBVIOUS
<1> DEFINE After(t) == IF pc'[t] = "unstarted" THEN {}
                       ELSE IF pc'[t] \in PastTheLatch THEN 0 .. cursor'[t] - 1
                       ELSE First(t) .. cursor'[t] - 1
           Goal == acc' = [t \in Threads |-> SetToBag(After(t))]
<1>1. \A t \in Threads : Summed(t)' = After(t)
  BY LengthKept DEF Summed, PastTheLatch
<1> SUFFICES Goal
  BY <1>1 DEF AccInv
<1>2. \A t \in Threads : First(t) \in Nat /\ Last(t) \in Nat /\ First(t) <= Last(t)
  BY Segments DEF DataOK
\* A step on index t leaves the others alone.
<1>3. ASSUME NEW t \in Threads,
             \A u \in Threads \ {t} : pc'[u] = pc[u] /\ cursor'[u] = cursor[u],
             NEW sum, acc' = [acc EXCEPT ![t] = sum], sum = SetToBag(After(t))
      PROVE  Goal
  <2>1. \A u \in Threads \ {t} : After(u) = Summed(u)
    BY <1>3 DEF Summed
  <2> QED
    BY <1>3, <2>1 DEF AccInv
<1> HIDE DEF Goal
<1>4. ASSUME NEW t \in Threads, Reduce(t) PROVE Goal
  <2>1. cells[cursor[t]] = SetToBag({cursor[t]})
    BY <1>4, CellAtCursor DEF Reduce
  <2>2. cursor[t] \in Nat /\ First(t) <= cursor[t] /\ acc[t] = SetToBag(First(t) .. cursor[t] - 1)
    BY <1>2, <1>4 DEF Reduce, DataOK, CursorInv, AccInv, Summed, PastTheLatch
  <2>3. /\ (First(t) .. cursor[t] - 1) \cap {cursor[t]} = {}
        /\ (First(t) .. cursor[t] - 1) \cup {cursor[t]} = First(t) .. cursor[t]
    BY <1>2, <2>2
  <2>4. acc[t] (+) cells[cursor[t]] = SetToBag(First(t) .. cursor[t])
    BY <2>1, <2>2, <2>3, SumOfSets
  <2>5. After(t) = First(t) .. cursor[t]
    BY <1>4, <2>2 DEF Reduce, DataOK, PastTheLatch
  <2>6. \A u \in Threads \ {t} : pc'[u] = pc[u] /\ cursor'[u] = cursor[u]
    BY <1>4 DEF Reduce, DataOK
  <2>7. acc' = [acc EXCEPT ![t] = acc[t] (+) cells[cursor[t]]]
    BY <1>4 DEF Reduce
  <2> QED
    BY <1>3, <2>4, <2>5, <2>6, <2>7
<1>5. ASSUME NEW t \in Threads, Scan(t) PROVE Goal
  <2>1. cells[cursor[t]] = SetToBag({cursor[t]})
    BY <1>5, CellAtCursor DEF Scan
  <2>2. cursor[t] \in Nat /\ acc[t] = SetToBag(0 .. cursor[t] - 1)
    BY <1>2, <1>5 DEF Scan, DataOK, CursorInv, AccInv, Summed, PastTheLatch
  <2>3. /\ (0 .. cursor[t] - 1) \cap {cursor[t]} = {}
        /\ (0 .. cursor[t] - 1) \cup {cursor[t]} = 0 .. cursor[t]
    BY <2>2
  <2>4. acc[t] (+) cells[cursor[t]] = SetToBag(0 .. cursor[t])
    BY <2>1, <2>2, <2>3, SumOfSets
  <2>5. After(t) = 0 .. cursor[t]
    BY <1>5, <2>2 DEF Scan, DataOK, PastTheLatch
  <2>6. \A u \in Threads \ {t} : pc'[u] = pc[u] /\ cursor'[u] = cursor[u]
    BY <1>5 DEF Scan, DataOK
  <2>7. acc' = [acc EXCEPT ![t] = acc[t] (+) cells[cursor[t]]]
    BY <1>5 DEF Scan
  <2> QED
    BY <1>3, <2>4, <2>5, <2>6, <2>7
<1>6. ASSUME NEW t \in Threads, Pass(t) PROVE Goal
  <2>1. NotArrived = {}
    BY <1>6, NotArrivedIsFinite DEF Pass, LatchInv
  <2>2. \A u \in Threads : offsets[u] = SetToBag(Segment(u))
    BY <2>1 DEF NotArrived, BeforeLatch, OffsetsInv
  <2>3. SumBelow(t) = SetToBag(0 .. First(t) - 1)
    BY <2>2, SumBelowIs DEF DataOK
  <2>4. After(t) = 0 .. First(t) - 1
    BY <1>6 DEF Pass, DataOK, PastTheLatch, Goto
  <2>5. \A u \in Threads \ {t} : pc'[u] = pc[u] /\ cursor'[u] = cursor[u]
    BY <1>6 DEF Pass, DataOK, Goto
  <2>6. acc' = [acc EXCEPT ![t] = SumBelow(t)]
    BY <1>6 DEF Pass
  <2> QED
    BY <1>3, <2>3, <2>4, <2>5, <2>6
<1>7. ASSUME NEW t \in Threads, Start(t) PROVE Goal
  <2>1. pc[t] = "unstarted"
    BY <1>7 DEF Start, Region!Start, RegionInv
  <2>2. First(t) .. First(t) - 1 = {}
    BY <1>2
  <2>3. After(t) = {} /\ Summed(t) = {}
    BY <1>7, <2>1, <2>2 DEF Start, DataOK, PastTheLatch, Goto, Summed
  <2>4. \A u \in Threads \ {t} : pc'[u] = pc[u] /\ cursor'[u] = cursor[u]
    BY <1>7 DEF Start, DataOK, Goto
  <2>5. acc' = [acc EXCEPT ![t] = acc[t]]
    BY <1>7 DEF Start, AccInv
  <2> QED
    BY <1>3, <2>3, <2>4, <2>5 DEF AccInv
<1>8. ASSUME NEW t \in Threads, Store(t) \/ Arrive(t) \/ End(t) \/ Throw(t) PROVE Goal
  <2>1. After(t) = Summed(t)
    BY <1>8 DEF Store, Arrive, End, Throw, DataOK, PastTheLatch, Goto, Summed, localVars
  <2>2. \A u \in Threads \ {t} : pc'[u] = pc[u] /\ cursor'[u] = cursor[u]
    BY <1>8 DEF Store, Arrive, End, Throw, DataOK, Goto, localVars
  <2>3. acc' = [acc EXCEPT ![t] = acc[t]]
    BY <1>8 DEF Store, Arrive, End, Throw, localVars, AccInv
  <2> QED
    BY <1>3, <2>1, <2>2, <2>3 DEF AccInv
<1>9. CASE Execute \/ Return \/ UNCHANGED vars
  <2>1. UNCHANGED <<pc, cursor, acc>>
    BY <1>9 DEF Execute, Return, vars, localVars
  <2> QED
    BY <2>1 DEF Goal, AccInv, Summed
<1> QED
  BY <1>4, <1>5, <1>6, <1>7, <1>8, <1>9 DEF Next, TaskStep

LEMMA CellsStep ==
  /\ DataOK /\ RegionInv /\ LatchInv /\ CursorInv /\ AccInv /\ CellsInv /\ [Next]_vars
  => CellsInv'
<1> SUFFICES ASSUME DataOK, RegionInv, LatchInv, CursorInv, AccInv, CellsInv, [Next]_vars
             PROVE  CellsInv'
  OBVIOUS
<1> DEFINE ScannedNext(i) ==
             \E t \in Threads : pc'[t] \in PastTheLatch /\ i \in First(t) .. cursor'[t] - 1
           Goal == cells' = [i \in Cells |-> SetToBag(IF ScannedNext(i) THEN 0 .. i ELSE {i})]
<1>1. Cells' = Cells /\ \A i : Scanned(i)' <=> ScannedNext(i)
  BY LengthKept DEF Cells, Scanned, PastTheLatch
<1> SUFFICES Goal
  BY <1>1 DEF CellsInv
<1>2. \A t \in Threads : First(t) \in Nat /\ Last(t) \in Nat /\ First(t) <= Last(t)
  BY Segments DEF DataOK
<1>3. ASSUME cells' = cells, \A i \in Cells : ScannedNext(i) <=> Scanned(i) PROVE Goal
  BY <1>3 DEF CellsInv
<1> HIDE DEF Goal
<1>4. ASSUME NEW t \in Threads, Scan(t) PROVE Goal
  <2>1. /\ cursor[t] \in Cells /\ cells[cursor[t]] = SetToBag({cursor[t]})
        /\ acc[t] = SetToBag(0 .. cursor[t] - 1)
    BY <1>4, CellAtCursor DEF Scan, AccInv, Summed, PastTheLatch
  <2>2. /\ cursor[t] \in Nat /\ First(t) <= cursor[t]
    BY <1>2, <1>4 DEF Scan, DataOK, CursorInv
  <2>3. /\ (0 .. cursor[t] - 1) \cap {cursor[t]} = {}
        /\ (0 .. cursor[t] - 1) \cup {cursor[t]} = 0 .. cursor[t]
    BY <2>2
  <2>4. acc[t] (+) cells[cursor[t]] = SetToBag(0 .. cursor[t])
    BY <2>1, <2>3, SumOfSets
  <2>5. cells' = [cells EXCEPT ![cursor[t]] = SetToBag(0 .. cursor[t])]
    BY <1>4, <2>4 DEF Scan
  <2>6. /\ pc' = pc /\ pc[t] = "scan"
        /\ cursor'[t] = cursor[t] + 1
        /\ \A u \in Threads \ {t} : cursor'[u] = cursor[u]
    BY <1>4 DEF Scan, DataOK
  <2>7. ScannedNext(cursor[t])
    BY <2>2, <2>6 DEF PastTheLatch
  <2>8. ASSUME NEW i \in Cells, i # cursor[t] PROVE ScannedNext(i) <=> Scanned(i)
    <3>1. ASSUME NEW u \in Threads
          PROVE  i \in First(u) .. cursor'[u] - 1 <=> i \in First(u) .. cursor[u] - 1
      <4>1. CASE u = t
        BY <1>2, <2>2, <2>6, <2>8, <4>1 DEF Cells, DataOK
      <4>2. CASE u # t
        BY <2>6, <4>2
      <4> QED
        BY <4>1, <4>2
    <3> QED
      BY <2>6, <3>1 DEF Scanned
  <2> HIDE DEF ScannedNext
  <2> QED
    BY <2>1, <2>5, <2>7, <2>8 DEF Goal, CellsInv
<1>5. ASSUME NEW t \in Threads, Pass(t) PROVE Goal
  <2>1. First(t) .. First(t) - 1 = {} /\ cursor'[t] = First(t) /\ pc[t] \notin PastTheLatch
    BY <1>2, <1>5 DEF Pass, DataOK, PastTheLatch
  <2>2. \A u \in Threads \ {t} : pc'[u] = pc[u] /\ cursor'[u] = cursor[u]
    BY <1>5 DEF Pass, DataOK, Goto
  <2>3. \A i \in Cells : ScannedNext(i) <=> Scanned(i)
    BY <2>1, <2>2 DEF Scanned
  <2>4. cells' = cells
    BY <1>5 DEF Pass
  <2> QED
    BY <1>3, <2>3, <2>4
<1>6. ASSUME NEW t \in Threads, Start(t) \/ Reduce(t) \/ Store(t) \/ Arrive(t) PROVE Goal
  <2>1. pc[t] \notin PastTheLatch /\ pc'[t] \notin PastTheLatch
    BY <1>6 DEF Start, Region!Start, RegionInv, Reduce, Store, Arrive, DataOK, PastTheLatch, Goto
  <2>2. \A u \in Threads \ {t} : pc'[u] = pc[u] /\ cursor'[u] = cursor[u]
    BY <1>6 DEF Start, Reduce, Store, Arrive, DataOK, Goto, localVars
  <2>3. \A i \in Cells : ScannedNext(i) <=> Scanned(i)
    BY <2>1, <2>2 DEF Scanned
  <2>4. cells' = cells
    BY <1>6 DEF Start, Reduce, Store, Arrive
  <2> QED
    BY <1>3, <2>3, <2>4
<1>7. ASSUME NEW t \in Threads, End(t) \/ Throw(t) PROVE Goal
  <2>1. pc[t] \in PastTheLatch <=> pc'[t] \in PastTheLatch
    BY <1>7 DEF End, Throw, DataOK, PastTheLatch, Goto
  <2>2. /\ \A u \in Threads \ {t} : pc'[u] = pc[u]
        /\ UNCHANGED <<cells, cursor>>
    BY <1>7 DEF End, Throw, DataOK, Goto, localVars
  <2>3. \A i \in Cells : ScannedNext(i) <=> Scanned(i)
    BY <2>1, <2>2 DEF Scanned
  <2> QED
    BY <1>3, <2>2, <2>3
<1>8. CASE Execute \/ Return \/ UNCHANGED vars
  <2>1. UNCHANGED <<pc, cursor, cells>>
    BY <1>8 DEF Execute, Return, vars, localVars
  <2> QED
    BY <1>3, <2>1 DEF Scanned
<1> QED
  BY <1>4, <1>5, <1>6, <1>7, <1>8 DEF Next, TaskStep

-----------------------------------------------------------------------------
(* What the invariant implies *)

LEMMA NextInv == IInv /\ [Next]_vars => IInv'
<1> SUFFICES ASSUME IInv, [Next]_vars PROVE IInv'
  OBVIOUS
<1>1. DataOK' /\ RegionInv' /\ OneAtATime' /\ LatchInv'
  BY DataStep, RegionStep, OneAtATimeStep, LatchStep DEF IInv
<1>2. NoneShared'
  BY <1>1, NoneSharedStep DEF IInv
<1>3. CursorInv' /\ OffsetsInv' /\ AccInv' /\ CellsInv'
  BY CursorStep, OffsetsStep, AccStep, CellsStep DEF IInv
<1> QED
  BY <1>1, <1>2, <1>3 DEF IInv

LEMMA Invariance == Spec => []IInv
<1>1. Init => IInv
  BY InitInv
<1>2. IInv /\ [Next]_vars => IInv'
  BY NextInv
<1> QED
  BY <1>1, <1>2, PTL DEF Spec

LEMMA Types == IInv => TypeOK
<1> SUFFICES ASSUME IInv PROVE TypeOK
  OBVIOUS
<1> USE DEF IInv
<1>1. MaxLength \in Nat /\ length \in Nat /\ length <= MaxLength
  BY MaxLengthAssumption, ValueModAssumption DEF Values, DataOK
<1>2. \A t \in Threads : First(t) \in Nat /\ Last(t) \in Nat /\ Last(t) <= length
  BY Segments DEF DataOK
<1>3. \A i \in Cells : IsSum(cells[i])
  <2>1. ASSUME NEW i \in Cells PROVE IsSum(cells[i])
    <3>1. 0 .. i \in SUBSET (0 .. MaxLength) /\ {i} \in SUBSET (0 .. MaxLength)
      BY <1>1 DEF Cells
    <3> QED
      BY <3>1, SetIsSum DEF CellsInv
  <2> QED
    BY <2>1
<1>4. \A t \in Threads : IsSum(offsets[t])
  <2>1. ASSUME NEW t \in Threads PROVE IsSum(offsets[t])
    <3>1. {MaxLength} \in SUBSET (0 .. MaxLength) /\ Segment(t) \in SUBSET (0 .. MaxLength)
      BY <1>1, <1>2 DEF Segment
    <3> QED
      BY <3>1, SetIsSum DEF OffsetsInv, Junk
  <2> QED
    BY <2>1
<1>5. \A t \in Threads : IsSum(acc[t])
  <2>1. ASSUME NEW t \in Threads PROVE IsSum(acc[t])
    <3>1. cursor[t] \in 0 .. MaxLength
      BY DEF DataOK
    <3>2. Summed(t) \in SUBSET (0 .. MaxLength)
      BY <1>1, <1>2, <3>1 DEF Summed
    <3> QED
      BY <3>2, SetIsSum DEF AccInv
  <2> QED
    BY <2>1
<1>6. latch \in 0 .. N
  BY NotArrivedIsFinite DEF LatchInv
<1>7. pc \in [Threads -> {"unstarted", "reduce", "arrive", "wait", "threwEarly"} \cup PastTheLatch]
  BY DEF DataOK, Running, PastTheLatch
<1> QED
  BY <1>3, <1>4, <1>5, <1>6, <1>7 DEF DataOK, TypeOK

\* A scan that returns normally has written the sum of all cells up to it, each added once,
\* to every cell: for every number of threads, more threads than cells included.
THEOREM ScansToPrefixSums == Spec => []ScanIsPrefixSum
<1>1. IInv => ScanIsPrefixSum
  <2> SUFFICES ASSUME IInv, Returned, outcome = NoException, NEW i \in Cells
               PROVE  cells[i] = SetToBag(0 .. i)
    BY DEF ScanIsPrefixSum
  <2> USE DEF IInv
  <2>1. PICK t \in Threads : First(t) <= i /\ i < Last(t)
    BY SegmentsCover DEF DataOK
  <2>2. pc[t] = "ended"
    BY DEF RegionInv
  <2>3. cursor[t] = Last(t)
    BY <2>2 DEF CursorInv
  <2>4. First(t) \in Nat /\ Last(t) \in Nat /\ i \in Nat
    BY Segments DEF DataOK, Cells
  <2>5. Scanned(i)
    BY <2>1, <2>2, <2>3, <2>4 DEF Scanned, PastTheLatch
  <2> QED
    BY <2>5 DEF CellsInv
<1> QED
  BY <1>1, Invariance, PTL

\* No thread reads an offset or overwrites a cell before every thread has arrived at the
\* latch, which is never decremented below zero.
THEOREM LatchHolds == Spec => []LatchSeparates
<1>1. IInv => LatchSeparates
  <2> SUFFICES ASSUME IInv, NEW t \in Threads, pc[t] \in PastTheLatch, NEW u \in Threads
               PROVE  pc[u] \in PastTheLatch \cup {"wait"} /\ offsets[u] # Junk
    BY Types DEF LatchSeparates
  <2> USE DEF IInv
  <2>1. NotArrived = {}
    BY NotArrivedIsFinite DEF LatchInv
  <2>2. pc[u] \in PastTheLatch \cup {"wait"}
    BY <2>1 DEF NotArrived, BeforeLatch, DataOK, Running, PastTheLatch
  <2>3. offsets[u] = SetToBag(Segment(u))
    BY <2>2 DEF OffsetsInv, PastTheLatch
  <2> QED
    BY <2>2, <2>3, JunkIsNoSum DEF DataOK
<1> QED
  BY <1>1, Invariance, PTL

\* Two threads never read or write the same cell.
THEOREM CellsAreNotShared == Spec => []CellsArePrivate
<1>1. IInv => CellsArePrivate
  <2> SUFFICES ASSUME IInv, NEW t \in Threads, NEW u \in Threads, t # u,
                      {pc[t], pc[u]} \subseteq {"reduce", "scan"},
                      cursor[t] < Last(t), cursor[u] < Last(u), cursor[t] = cursor[u]
               PROVE  FALSE
    BY DEF CellsArePrivate
  <2> USE DEF IInv
  <2>1. /\ First(t) \in Nat /\ Last(t) \in Nat /\ First(u) \in Nat /\ Last(u) \in Nat
    BY Segments DEF DataOK
  <2>2. cursor[t] \in First(t) .. Last(t) /\ cursor[u] \in First(u) .. Last(u)
    BY DEF CursorInv
  <2>3. cursor[t] \in Nat /\ First(t) <= cursor[t] /\ First(u) <= cursor[t]
    BY <2>1, <2>2
  <2> QED
    BY <2>3, SegmentsAreDisjoint DEF DataOK
<1> QED
  BY <1>1, Invariance, PTL

\* The call only returns if every thread has come past the latch, each with one task, or if
\* every task threw before it.
THEOREM AllOrNothing == Spec => []ReturnsTogether
<1>1. IInv => ReturnsTogether
  <2> SUFFICES ASSUME IInv, Returned, NEW t \in Threads, ~ThrewEarly(t)
               PROVE  ~Shared /\ \A u \in Threads : pc[u] \in PastTheLatch
    BY DEF ReturnsTogether
  <2> USE DEF IInv
  <2>1. \A u \in Threads : pc[u] \in Over
    BY DEF RegionInv
  <2>2. pc[t] \in PastTheLatch
    BY <2>1 DEF Over, ThrewEarly, PastTheLatch
  <2>3. latch = 0 /\ NotArrived = {}
    BY <2>2, NotArrivedIsFinite DEF LatchInv
  <2>4. \A u \in Threads : pc[u] \in PastTheLatch
    BY <2>1, <2>3 DEF NotArrived, BeforeLatch, Over, PastTheLatch
  <2> QED
    BY <2>3, <2>4 DEF NoneShared
<1> QED
  BY <1>1, Invariance, PTL
=============================================================================

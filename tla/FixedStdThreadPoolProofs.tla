---------------------- MODULE FixedStdThreadPoolProofs ----------------------
(***************************************************************************)
(* Proofs about FixedStdThreadPool for every number of workers and calls   *)
(* and every width of the id, a single bit included.                       *)
(*                                                                         *)
(* The inductive invariant says of which call everything that is shared or *)
(* copied is (TaskInv, SeenInv), that unfinished_ counts the workers that  *)
(* have not reported (CountInv), what has become of the task on each index *)
(* (BodyInv, ThrowInv), and who is about to wake whom (NoLostWakeup).      *)
(***************************************************************************)
EXTENDS FixedStdThreadPool, FiniteSetTheorems, TLAPS

CallerPcs ==
  {"spawning", "unwinding", "failed", "idle", "notifyWork", "await", "waiting",
   "notifyStop", "join", "gone"}
WorkerPcs ==
  {"unborn", "check", "waiting", "taken", "body", "report", "notify", "exited"}

PcOK == main \in CallerPcs /\ pc \in [Workers -> WorkerPcs]

\* The types of the data but for the flag, which only Zenon types, and with the counter
\* merely an integer: its range follows from CountInv.
DataOK ==
  /\ taskId \in 0 .. IdMod - 1
  /\ task \in Jobs \cup {NoTask}
  /\ unfinished \in Int
  /\ lastId \in [Workers -> 0 .. IdMod - 1]
  /\ job \in [Workers -> Jobs \cup {NoTask}]
  /\ call \in 0 .. MaxCalls
  /\ used \in 0 .. N
  /\ body \in [Workers -> {"pending", "running", "returned", "threw"}]

Opening == {"spawning", "unwinding", "failed"}
Closing == {"notifyStop", "join", "gone"}

\* The task is there for as long as its call is in progress.
TaskInv ==
  /\ Calling => task = [call |-> call, used |-> used]
  /\ ~Calling => task = NoTask

\* An id that differs from the last one means one new task, or that there is none to come.
SeenInv ==
  /\ main \in Opening \cup {"idle"} => \A w \in Workers : lastId[w] = taskId
  /\ main \in Closing => \A w \in Workers : lastId[w] # taskId
  /\ \A w \in Workers :
       /\ pc[w] \in {"taken", "body", "report"} => Calling /\ lastId[w] = taskId
       /\ pc[w] \in {"taken", "body"} => job[w] = task
       /\ pc[w] = "exited" => main \in Closing

CountInv ==
  /\ Calling => unfinished = Cardinality(Unreported)
  /\ ~Calling => unfinished = 0

\* The task has run on a needed index once its worker has come to report, and not before
\* the worker has taken it.
BodyInv ==
  \A w \in Workers :
    /\ w >= used => body[w] = "pending"
    /\ Calling /\ (lastId[w] # taskId \/ pc[w] = "taken") => body[w] = "pending"
    /\ pc[w] = "body" => w < used /\ body[w] \in {"running", "threw"}
    /\ Calling /\ w < used /\ lastId[w] = taskId /\ pc[w] \notin {"taken", "body"}
         => body[w] \in {"returned", "threw"}

\* Nothing happens once a task has thrown.
ThrowInv == aborted \in BOOLEAN /\ (aborted = FALSE => \A w \in Workers : body[w] # "threw")

IInv ==
  PcOK /\ DataOK /\ TaskInv /\ SeenInv /\ CountInv /\ BodyInv /\ ThrowInv /\ NoLostWakeup

-----------------------------------------------------------------------------
(* Types *)

LEMMA InitInv == Init => IInv
<1> SUFFICES ASSUME Init PROVE IInv
  OBVIOUS
<1> USE NAssumption, IdModAssumption, MaxCallsAssumption DEF Init, Workers
<1>1. PcOK /\ DataOK
  BY DEF PcOK, DataOK, CallerPcs, WorkerPcs
<1>2. TaskInv /\ SeenInv
  BY DEF TaskInv, SeenInv, Calling, Opening, Closing
<1>3. CountInv
  BY DEF CountInv, Calling
<1>4. BodyInv
  BY DEF BodyInv, Calling
<1>5. ThrowInv
  BY Zenon DEF ThrowInv
<1>6. NoLostWakeup
  BY DEF NoLostWakeup
<1> QED
  BY <1>1, <1>2, <1>3, <1>4, <1>5, <1>6 DEF IInv

LEMMA PcStep == PcOK /\ [Next]_vars => PcOK'
<1> SUFFICES ASSUME PcOK, [Next]_vars PROVE PcOK'
  OBVIOUS
<1> USE DEF PcOK, CallerPcs, WorkerPcs, Goto
<1>1. CASE \/ \E w \in Workers : SpawnWorker(w)
           \/ SpawnFails \/ EndUnwinding
  BY <1>1 DEF SpawnWorker, SpawnFails, EndUnwinding
<1>2. CASE (\E u \in 0 .. N : Execute(u)) \/ Await \/ Destroy \/ JoinWorkers
  BY <1>2 DEF Execute, Await, Destroy, JoinWorkers
<1>3. CASE NotifyWork \/ NotifyStop
  BY <1>3 DEF NotifyWork, NotifyStop, WokenWorkers
<1>4. ASSUME NEW w \in Workers, WorkerStep(w) PROVE PcOK'
  BY <1>4 DEF WorkerStep, Block, Exit, Take, Begin, Skip, End, Throw, Report, NotifyEnd
<1>5. CASE WakeSpuriously \/ Terminated \/ UNCHANGED vars
  BY <1>5 DEF WakeSpuriously, Terminated, vars
<1> HIDE DEF PcOK
<1> QED
  BY <1>1, <1>2, <1>3, <1>4, <1>5 DEF Next, CallerStep, Choice

LEMMA DataStep == DataOK /\ [Next]_vars => DataOK'
<1> SUFFICES ASSUME DataOK, [Next]_vars PROVE DataOK'
  OBVIOUS
<1> USE NAssumption, IdModAssumption, MaxCallsAssumption DEF DataOK, Jobs, guarded, callVars
<1>1. CASE \/ \E w \in Workers : SpawnWorker(w)
           \/ SpawnFails \/ EndUnwinding \/ NotifyWork \/ NotifyStop \/ JoinWorkers
  BY <1>1 DEF SpawnWorker, SpawnFails, EndUnwinding, NotifyWork, NotifyStop, JoinWorkers
<1>2. ASSUME NEW u \in 0 .. N, Execute(u) PROVE DataOK'
  BY <1>2 DEF Execute
<1>3. CASE Await \/ Destroy
  BY <1>3 DEF Await, Destroy
<1>4. ASSUME NEW w \in Workers, WorkerStep(w) PROVE DataOK'
  BY <1>4 DEF WorkerStep, Block, Exit, Take, Begin, Skip, End, Throw, Report, NotifyEnd
<1>5. CASE WakeSpuriously \/ Terminated \/ UNCHANGED vars
  BY <1>5 DEF WakeSpuriously, Terminated, vars
<1> HIDE DEF DataOK
<1> QED
  BY <1>1, <1>2, <1>3, <1>4, <1>5 DEF Next, CallerStep, Choice

-----------------------------------------------------------------------------
(* The task, and which call a worker has come to *)

LEMMA TaskStep == PcOK /\ TaskInv /\ [Next]_vars => TaskInv'
<1> SUFFICES ASSUME PcOK, TaskInv, [Next]_vars PROVE TaskInv'
  OBVIOUS
<1> USE DEF PcOK, CallerPcs, TaskInv, Calling, guarded, callVars
<1>1. CASE \/ \E w \in Workers : SpawnWorker(w)
           \/ SpawnFails \/ EndUnwinding \/ NotifyWork \/ NotifyStop \/ JoinWorkers
  BY <1>1 DEF SpawnWorker, SpawnFails, EndUnwinding, NotifyWork, NotifyStop, JoinWorkers
<1>2. ASSUME NEW u \in 0 .. N, Execute(u) PROVE TaskInv'
  BY <1>2 DEF Execute
<1>3. CASE Await \/ Destroy
  BY <1>3 DEF Await, Destroy
<1>4. ASSUME NEW w \in Workers, WorkerStep(w) PROVE TaskInv'
  BY <1>4 DEF WorkerStep, Block, Exit, Take, Begin, Skip, End, Throw, Report, NotifyEnd
<1>5. CASE WakeSpuriously \/ Terminated \/ UNCHANGED vars
  BY <1>5 DEF WakeSpuriously, Terminated, vars
<1> HIDE DEF TaskInv
<1> QED
  BY <1>1, <1>2, <1>3, <1>4, <1>5 DEF Next, CallerStep, Choice

\* The next id differs from the last one, however few there are.
LEMMA NextIdDiffers ==
  ASSUME NEW id \in 0 .. IdMod - 1
  PROVE  (id + 1) % IdMod \in 0 .. IdMod - 1 /\ (id + 1) % IdMod # id
<1>1. CASE id + 1 = IdMod
  <2>1. (id + 1) % IdMod = 0
    BY <1>1, IdModAssumption
  <2> QED
    BY <1>1, <2>1, IdModAssumption
<1>2. CASE id + 1 < IdMod
  <2>1. (id + 1) % IdMod = id + 1
    BY <1>2, IdModAssumption
  <2> QED
    BY <1>2, <2>1, IdModAssumption
<1> QED
  BY <1>1, <1>2, IdModAssumption

LEMMA UnreportedIsFinite ==
  /\ IsFiniteSet(Workers) /\ Cardinality(Workers) = N
  /\ IsFiniteSet(Unreported) /\ Cardinality(Unreported) \in 0 .. N
<1>1. IsFiniteSet(Workers) /\ Cardinality(Workers) = N
  BY NAssumption, FS_Interval DEF Workers
<1>2. Unreported \subseteq Workers
  BY DEF Unreported
<1> QED
  BY NAssumption, <1>1, <1>2, FS_Subset, FS_CardinalityType

\* When everybody has reported, everybody has seen the id and nobody has the task.
LEMMA AllReported ==
  ASSUME CountInv, Calling, unfinished = 0
  PROVE  Unreported = {}
BY UnreportedIsFinite, FS_EmptySet DEF CountInv

LEMMA SeenStep == PcOK /\ DataOK /\ TaskInv /\ SeenInv /\ CountInv /\ [Next]_vars => SeenInv'
<1> SUFFICES ASSUME PcOK, DataOK, TaskInv, SeenInv, CountInv, [Next]_vars PROVE SeenInv'
  OBVIOUS
<1> USE DEF SeenInv, PcOK, CallerPcs, WorkerPcs, Opening, Closing, Calling, Goto, guarded, callVars
<1>1. CASE \/ \E w \in Workers : SpawnWorker(w)
           \/ SpawnFails \/ EndUnwinding \/ JoinWorkers
  BY <1>1 DEF SpawnWorker, SpawnFails, EndUnwinding, JoinWorkers
<1>2. ASSUME NEW u \in 0 .. N, Execute(u) PROVE SeenInv'
  BY <1>2 DEF Execute
<1>3. CASE NotifyWork \/ NotifyStop
  BY <1>3 DEF NotifyWork, NotifyStop, WokenWorkers
<1>4. CASE Await
  <2>1. CASE unfinished = 0
    <3>1. \A w \in Workers : lastId[w] = taskId /\ pc[w] \notin {"taken", "body", "report"}
      BY <1>4, <2>1, AllReported DEF Await, Unreported
    <3> QED
      BY <1>4, <2>1, <3>1 DEF Await
  <2>2. CASE unfinished # 0
    BY <1>4, <2>2 DEF Await
  <2> QED
    BY <2>1, <2>2
<1>5. CASE Destroy
  BY <1>5, NextIdDiffers DEF Destroy, DataOK
<1>6. ASSUME NEW w \in Workers, WorkerStep(w) PROVE SeenInv'
  <2>1. CASE Block(w) \/ Skip(w) \/ Begin(w) \/ End(w) \/ Throw(w) \/ Report(w) \/ NotifyEnd(w)
    BY <2>1 DEF Block, Skip, Begin, End, Throw, Report, NotifyEnd
  <2>2. CASE Exit(w)
    <3>1. ~Calling
      BY <2>2, NoTaskAssumption DEF Exit, TaskInv, DataOK
    <3> QED
      BY <2>2, <3>1 DEF Exit
  <2>3. CASE Take(w)
    BY <2>3 DEF Take, TaskInv, DataOK
  <2> QED
    BY <1>6, <2>1, <2>2, <2>3 DEF WorkerStep
<1>7. CASE WakeSpuriously \/ Terminated \/ UNCHANGED vars
  BY <1>7 DEF WakeSpuriously, Terminated, vars
<1> HIDE DEF SeenInv
<1> QED
  BY <1>1, <1>2, <1>3, <1>4, <1>5, <1>6, <1>7 DEF Next, CallerStep, Choice

-----------------------------------------------------------------------------
(* The count of workers that have not reported *)

\* Only a new call and a report change who has not reported.
LEMMA UnreportedStep ==
  ASSUME PcOK, DataOK, SeenInv, [Next]_vars
  PROVE  \/ \E u \in 0 .. N : Execute(u)
         \/ Destroy
         \/ \E w \in Workers : Report(w)
         \/ Unreported' = Unreported /\ unfinished' = unfinished
<1> DEFINE Same == Unreported' = Unreported /\ unfinished' = unfinished
           Goal == \/ \E u \in 0 .. N : Execute(u)
                   \/ Destroy
                   \/ \E w \in Workers : Report(w)
                   \/ Same
<1> SUFFICES Goal
  OBVIOUS
<1> USE DEF PcOK, DataOK, WorkerPcs, Unreported, Goto, guarded, callVars
<1>1. CASE \/ \E w \in Workers : SpawnWorker(w)
           \/ SpawnFails \/ EndUnwinding \/ JoinWorkers \/ Await
  <2>1. Same
    BY <1>1 DEF SpawnWorker, Unborn, SpawnFails, EndUnwinding, JoinWorkers, Await
  <2> QED
    BY <2>1
<1>2. CASE NotifyWork \/ NotifyStop
  <2>1. Same
    BY <1>2 DEF NotifyWork, NotifyStop, WokenWorkers
  <2> QED
    BY <2>1
<1>3. ASSUME NEW w \in Workers, Block(w) \/ Exit(w) \/ NotifyEnd(w) PROVE Same
  BY <1>3 DEF Block, Exit, NotifyEnd
<1>4. ASSUME NEW w \in Workers, Take(w) PROVE Same
  BY <1>4 DEF Take
<1>5. ASSUME NEW w \in Workers, Begin(w) \/ Skip(w) \/ End(w) \/ Throw(w) PROVE Same
  BY <1>5 DEF Begin, Skip, End, Throw
<1>6. CASE WakeSpuriously \/ Terminated \/ UNCHANGED vars
  <2>1. Same
    BY <1>6 DEF WakeSpuriously, Terminated, vars
  <2> QED
    BY <2>1
<1> HIDE DEF Same
<1> QED
  BY <1>1, <1>2, <1>3, <1>4, <1>5, <1>6 DEF Next, CallerStep, WorkerStep, Choice

LEMMA CountStep == PcOK /\ DataOK /\ TaskInv /\ SeenInv /\ CountInv /\ [Next]_vars => CountInv'
<1> SUFFICES ASSUME PcOK, DataOK, TaskInv, SeenInv, CountInv, [Next]_vars PROVE CountInv'
  OBVIOUS
<1>1. ASSUME NEW u \in 0 .. N, Execute(u) PROVE CountInv'
  <2>1. Unreported' = Workers
    BY <1>1, NextIdDiffers DEF Execute, Unreported, SeenInv, DataOK
  <2> QED
    BY <1>1, <2>1, UnreportedIsFinite DEF Execute, CountInv, Calling
<1>2. CASE Destroy
  BY <1>2 DEF Destroy, CountInv, Calling, guarded
<1>3. ASSUME NEW w \in Workers, Report(w) PROVE CountInv'
  <2>1. Calling /\ Calling'
    BY <1>3 DEF Report, SeenInv, Calling
  <2>2. w \in Unreported /\ Unreported' = Unreported \ {w}
    BY <1>3 DEF Report, Goto, Unreported, SeenInv, PcOK, DataOK
  <2>3. Cardinality(Unreported') = Cardinality(Unreported) - 1
    BY <2>2, UnreportedIsFinite, FS_RemoveElement
  <2> QED
    BY <1>3, <2>1, <2>3 DEF Report, CountInv
<1>4. CASE Unreported' = Unreported /\ unfinished' = unfinished
  <2>1. CASE Calling' = Calling
    BY <1>4, <2>1 DEF CountInv
  <2>2. ASSUME NEW u \in 0 .. N, Execute(u) PROVE CountInv'
    BY <1>1, <2>2
  <2>3. CASE Await
    BY <1>4, <2>3 DEF Await, CountInv, Calling
  <2>4. ASSUME ~(\E u \in 0 .. N : Execute(u)), ~Await PROVE Calling' = Calling
    <3> USE DEF Calling, guarded, callVars
    <3>1. CASE \/ \E w \in Workers : SpawnWorker(w)
               \/ SpawnFails \/ EndUnwinding \/ NotifyWork \/ NotifyStop \/ JoinWorkers
               \/ Destroy
      BY <3>1
      DEF SpawnWorker, SpawnFails, EndUnwinding, NotifyWork, NotifyStop, JoinWorkers, Destroy
    <3>2. ASSUME NEW w \in Workers, WorkerStep(w) PROVE Calling' = Calling
      BY <3>2 DEF WorkerStep, Block, Exit, Take, Begin, Skip, End, Throw, Report, NotifyEnd
    <3>3. CASE WakeSpuriously \/ Terminated \/ UNCHANGED vars
      BY <3>3 DEF WakeSpuriously, Terminated, vars
    <3> HIDE DEF Calling
    <3> QED
      BY <2>4, <3>1, <3>2, <3>3 DEF Next, CallerStep, Choice
  <2> QED
    BY <2>1, <2>2, <2>3, <2>4
<1> QED
  BY <1>1, <1>2, <1>3, <1>4, UnreportedStep

-----------------------------------------------------------------------------
(* What has become of the task on each index *)

LEMMA BodyStep == PcOK /\ DataOK /\ TaskInv /\ SeenInv /\ CountInv /\ BodyInv /\ [Next]_vars => BodyInv'
<1> SUFFICES ASSUME PcOK, DataOK, TaskInv, SeenInv, CountInv, BodyInv, [Next]_vars PROVE BodyInv'
  OBVIOUS
<1> USE DEF BodyInv, PcOK, CallerPcs, WorkerPcs, Calling, Goto, guarded, callVars
<1>1. CASE \/ \E w \in Workers : SpawnWorker(w)
           \/ SpawnFails \/ EndUnwinding \/ JoinWorkers
  BY <1>1 DEF SpawnWorker, Unborn, SpawnFails, EndUnwinding, JoinWorkers
<1>2. ASSUME NEW u \in 0 .. N, Execute(u) PROVE BodyInv'
  BY <1>2, NextIdDiffers DEF Execute, SeenInv, DataOK
<1>3. CASE NotifyWork \/ NotifyStop
  BY <1>3 DEF NotifyWork, NotifyStop, WokenWorkers
<1>4. CASE Await \/ Destroy
  BY <1>4 DEF Await, Destroy, SeenInv
<1>5. ASSUME NEW w \in Workers, Block(w) \/ Exit(w) \/ Report(w) \/ NotifyEnd(w) PROVE BodyInv'
  BY <1>5 DEF Block, Exit, Report, NotifyEnd
<1>6. ASSUME NEW w \in Workers, Take(w) PROVE BodyInv'
  BY <1>6 DEF Take, DataOK
<1>7. ASSUME NEW w \in Workers, Begin(w) \/ Skip(w) PROVE BodyInv'
  <2>1. job[w].used = used /\ w \in Int /\ used \in Int
    BY <1>7, NAssumption DEF Begin, Skip, SeenInv, TaskInv, DataOK, Workers
  <2> QED
    BY <1>7, <2>1 DEF Begin, Skip, DataOK, SeenInv
<1>8. ASSUME NEW w \in Workers, End(w) \/ Throw(w) PROVE BodyInv'
  <2>1. \A v \in Workers : ~(v < used /\ v >= used)
    BY NAssumption DEF DataOK, Workers
  <2> QED
    BY <1>8, <2>1 DEF End, Throw, DataOK, SeenInv
<1>9. CASE WakeSpuriously \/ Terminated \/ UNCHANGED vars
  BY <1>9 DEF WakeSpuriously, Terminated, vars
<1> HIDE DEF BodyInv
<1> QED
  BY <1>1, <1>2, <1>3, <1>4, <1>5, <1>6, <1>7, <1>8, <1>9
  DEF Next, CallerStep, WorkerStep, Choice

LEMMA ThrowStep == DataOK /\ ThrowInv /\ [Next]_vars => ThrowInv'
<1> SUFFICES ASSUME DataOK, ThrowInv, [Next]_vars PROVE ThrowInv'
  OBVIOUS
<1>1. ASSUME UNCHANGED <<aborted, body>> PROVE ThrowInv'
  BY <1>1, Zenon DEF ThrowInv
<1>2. CASE \/ \E w \in Workers : SpawnWorker(w)
           \/ SpawnFails \/ EndUnwinding \/ NotifyWork \/ NotifyStop \/ JoinWorkers
           \/ Await \/ Destroy \/ WakeSpuriously \/ Terminated \/ UNCHANGED vars
  BY <1>1, <1>2, Zenon
  DEF SpawnWorker, SpawnFails, EndUnwinding, NotifyWork, NotifyStop, JoinWorkers, Await,
      Destroy, WakeSpuriously, Terminated, vars, callVars
<1>3. ASSUME NEW w \in Workers,
             \/ Block(w) \/ Exit(w) \/ Take(w) \/ Skip(w) \/ Report(w) \/ NotifyEnd(w)
      PROVE  ThrowInv'
  BY <1>1, <1>3, Zenon DEF Block, Exit, Take, Skip, Report, NotifyEnd, callVars
<1>4. ASSUME NEW u \in 0 .. N, Execute(u) PROVE ThrowInv'
  <2>1. \A w \in Workers : body'[w] # "threw"
    BY <1>4 DEF Execute
  <2>2. aborted' = aborted
    BY <1>4 DEF Execute
  <2> QED
    BY <2>1, <2>2, Zenon DEF ThrowInv
<1>5. ASSUME NEW w \in Workers, Begin(w) \/ End(w) PROVE ThrowInv'
  <2>1. \A v \in Workers : body'[v] = body[v] \/ body'[v] # "threw"
    BY <1>5 DEF Begin, End, DataOK
  <2>2. aborted' = aborted
    BY <1>5, Zenon DEF Begin, End
  <2> QED
    BY <2>1, <2>2, Zenon DEF ThrowInv
<1>6. ASSUME NEW w \in Workers, Throw(w) PROVE ThrowInv'
  BY <1>6, Zenon DEF Throw, ThrowInv
<1> QED
  BY <1>2, <1>3, <1>4, <1>5, <1>6 DEF Next, CallerStep, WorkerStep, Choice

-----------------------------------------------------------------------------
(* Who waits, and who is about to notify *)

LEMMA WakeStep == PcOK /\ DataOK /\ SeenInv /\ NoLostWakeup /\ [Next]_vars => NoLostWakeup'
<1> SUFFICES ASSUME PcOK, DataOK, SeenInv, NoLostWakeup, [Next]_vars PROVE NoLostWakeup'
  OBVIOUS
<1> USE DEF NoLostWakeup, PcOK, CallerPcs, WorkerPcs, Goto, guarded, callVars
<1>1. CASE \/ \E w \in Workers : SpawnWorker(w)
           \/ SpawnFails \/ EndUnwinding \/ JoinWorkers
  BY <1>1 DEF SpawnWorker, Unborn, SpawnFails, EndUnwinding, JoinWorkers, SeenInv, Opening
<1>2. CASE (\E u \in 0 .. N : Execute(u)) \/ Destroy
  BY <1>2 DEF Execute, Destroy
<1>3. CASE NotifyWork \/ NotifyStop
  BY <1>3 DEF NotifyWork, NotifyStop, WokenWorkers
<1>4. CASE Await
  BY <1>4 DEF Await
<1>5. ASSUME NEW w \in Workers, Block(w) \/ Exit(w) \/ Take(w) \/ Begin(w) \/ Skip(w) \/ End(w) \/ Throw(w)
      PROVE  NoLostWakeup'
  BY <1>5 DEF Block, Exit, Take, Begin, Skip, End, Throw, DataOK
<1>6. ASSUME NEW w \in Workers, Report(w) PROVE NoLostWakeup'
  BY <1>6 DEF Report
<1>7. ASSUME NEW w \in Workers, NotifyEnd(w) PROVE NoLostWakeup'
  BY <1>7 DEF NotifyEnd
<1>8. CASE WakeSpuriously \/ Terminated \/ UNCHANGED vars
  BY <1>8 DEF WakeSpuriously, Terminated, vars
<1> HIDE DEF NoLostWakeup
<1> QED
  BY <1>1, <1>2, <1>3, <1>4, <1>5, <1>6, <1>7, <1>8
  DEF Next, CallerStep, WorkerStep, Choice

LEMMA Invariance == Spec => []IInv
<1>1. IInv /\ [Next]_vars => IInv'
  BY PcStep, DataStep, TaskStep, SeenStep, CountStep, BodyStep, ThrowStep, WakeStep DEF IInv
<1> QED
  BY <1>1, InitInv, PTL DEF Spec

LEMMA TypesHold == IInv => TypeOK
<1> SUFFICES ASSUME IInv PROVE TypeOK
  OBVIOUS
<1>1. unfinished \in 0 .. N
  BY NAssumption, UnreportedIsFinite DEF IInv, CountInv
<1>2. PcOK /\ DataOK /\ ThrowInv
  BY DEF IInv
<1> QED
  BY <1>1, <1>2, Zenon DEF TypeOK, PcOK, DataOK, ThrowInv, CallerPcs, WorkerPcs

\* Every worker reports each call once, whichever ids the calls have: unfinished_ is the
\* number of workers that have not, never wraps below zero, and outside a call nobody is
\* behind.
THEOREM ReportsAreCounted == Spec => []CountsUnreported
<1>1. IInv => CountsUnreported
  <2> SUFFICES ASSUME IInv PROVE CountsUnreported
    OBVIOUS
  <2>1. main = "idle" => unfinished = 0 /\ Unreported = {}
    BY DEF IInv, CountInv, SeenInv, Calling, Unreported
  <2>2. Calling => unfinished = Cardinality(Unreported)
    BY DEF IInv, CountInv
  <2> QED
    BY <2>1, <2>2, TypesHold DEF CountsUnreported
<1> QED
  BY <1>1, Invariance, PTL

\* No worker runs the task of another call than the one in progress, or leaves before the
\* destructor has asked it to.
THEOREM JobsAreCurrent == Spec => []JobIsCurrent
<1>1. IInv => JobIsCurrent
  BY DEF IInv, SeenInv, TaskInv, DataOK, JobIsCurrent, Closing
<1> QED
  BY <1>1, Invariance, PTL

\* Neither the caller nor a worker blocks for good on a condition variable whose
\* condition holds, although each notification is made after the mutex is released.
THEOREM WakeupsArrive == Spec => []NoLostWakeup
<1>1. IInv => NoLostWakeup
  BY DEF IInv
<1> QED
  BY <1>1, Invariance, PTL

-----------------------------------------------------------------------------
(* The pool implements the abstract executor *)

LEMMA RegionStep == IInv /\ [Next]_vars => [Region!Next]_(Region!vars)
<1> SUFFICES ASSUME IInv, [Next]_vars PROVE [Region!Next]_(Region!vars)
  OBVIOUS
<1> DEFINE Goal == [Region!Next]_(Region!vars)
<1> SUFFICES Goal
  OBVIOUS
<1>a. PcOK /\ PcOK'
  BY PcStep DEF IInv
<1>b. Region!Threads = Workers /\ Region!Ended = {"returned", "threw"}
  BY DEF Region!Threads, Workers, Region!Ended
<1>c. ASSUME UNCHANGED <<used, body>>, Phase' = Phase PROVE Goal
  BY <1>c DEF Region!vars
<1>d. ASSUME UNCHANGED <<main, used, body>> PROVE Goal
  BY <1>c, <1>d DEF Phase, Calling
<1>e. ASSUME ~aborted PROVE \A w \in Workers : body[w] # "threw"
  BY <1>e, Zenon DEF IInv, ThrowInv
<1>1. CASE \/ \E w \in Workers : SpawnWorker(w)
           \/ SpawnFails \/ EndUnwinding \/ NotifyWork \/ NotifyStop \/ JoinWorkers
  <2>1. UNCHANGED <<used, body>>
    BY <1>1
    DEF SpawnWorker, SpawnFails, EndUnwinding, NotifyWork, NotifyStop, JoinWorkers, callVars
  <2>2. Phase' = Phase
    BY <1>1
    DEF SpawnWorker, SpawnFails, EndUnwinding, NotifyWork, NotifyStop, JoinWorkers, Phase, Calling
  <2> QED
    BY <1>c, <2>1, <2>2
<1>2. ASSUME NEW u \in 0 .. N, Execute(u) PROVE Goal
  <2>1. Phase = "idle" /\ Phase' = "running"
    BY <1>2 DEF Execute, Phase, Calling
  <2>2. Region!Call(u)
    BY <1>2, <1>b, <2>1 DEF Execute, Region!Call
  <2> QED
    BY <2>2 DEF Region!Next
<1>3. ASSUME ~aborted, Await PROVE Goal
  <2>1. CASE unfinished # 0
    BY <1>3, <2>1, <1>c DEF Await, Phase, Calling, callVars
  <2>2. CASE unfinished = 0
    <3>1. Phase = "running" /\ Phase' = "idle" /\ UNCHANGED <<used, body>>
      BY <1>3, <2>2 DEF Await, Phase, Calling, callVars
    <3>2. \A w \in Workers : lastId[w] = taskId /\ pc[w] \notin {"taken", "body"}
      BY <1>3, <2>2, AllReported DEF Await, Unreported, IInv, Calling
    <3>3. Region!AllDone
      BY <1>3, <1>b, <3>2, NAssumption
      DEF IInv, DataOK, BodyInv, Await, Calling, Region!AllDone, Workers
    <3>4. Region!Threw = {}
      BY <1>3, <1>b, <1>e DEF Region!Threw
    <3>5. Region!Return
      BY <3>1, <3>3, <3>4 DEF Region!Return
    <3> QED
      BY <3>5 DEF Region!Next
  <2> QED
    BY <2>1, <2>2
<1>4. CASE Destroy
  <2>1. Phase = "idle" /\ Phase' = "closed" /\ UNCHANGED <<used, body>>
    BY <1>4 DEF Destroy, Phase, Calling, callVars
  <2>2. Region!Close
    BY <2>1 DEF Region!Close
  <2> QED
    BY <2>2 DEF Region!Next
<1>5. ASSUME NEW w \in Workers, Block(w) \/ Exit(w) \/ Take(w) \/ Skip(w) \/ Report(w) PROVE Goal
  BY <1>5, <1>d DEF Block, Exit, Take, Skip, Report, callVars
<1>6. ASSUME NEW w \in Workers, NotifyEnd(w) PROVE Goal
  BY <1>6, <1>c DEF NotifyEnd, Phase, Calling, callVars
<1>7. ASSUME NEW w \in Workers, Begin(w) PROVE Goal
  <2>1. Calling /\ w < used /\ body[w] = "pending"
    BY <1>7 DEF Begin, IInv, SeenInv, TaskInv, BodyInv
  <2>2. Phase = "running" /\ Phase' = "running"
    BY <1>7, <2>1 DEF Begin, Phase, Calling
  <2>3. Region!Start(w)
    BY <1>7, <2>1, <2>2 DEF Begin, Region!Start
  <2> QED
    BY <1>b, <2>3 DEF Region!Next
<1>8. ASSUME ~aborted, NEW w \in Workers, End(w) \/ Throw(w) PROVE Goal
  <2>1. body[w] = "running"
    BY <1>8, <1>e DEF End, Throw, IInv, BodyInv
  <2>2. Phase' = Phase
    BY <1>8 DEF End, Throw, Phase, Calling
  <2>3. Region!Finish(w)
    BY <1>8, <1>b, <2>1, <2>2 DEF End, Throw, Region!Finish
  <2> QED
    BY <1>b, <2>3 DEF Region!Next
<1>9. CASE WakeSpuriously \/ Terminated \/ UNCHANGED vars
  BY <1>9, <1>c DEF WakeSpuriously, Terminated, vars, Phase, Calling, callVars
<1> HIDE DEF Goal
<1>10. ASSUME CallerStep PROVE Goal
  BY <1>1, <1>3, <1>10 DEF CallerStep
<1>11. ASSUME NEW w \in Workers, WorkerStep(w) PROVE Goal
  BY <1>5, <1>6, <1>7, <1>8, <1>11 DEF WorkerStep
<1>12. ASSUME Choice PROVE Goal
  BY <1>1, <1>2, <1>4, <1>9, <1>12 DEF Choice
<1> QED
  BY <1>9, <1>10, <1>11, <1>12 DEF Next

\* The pool is an executor whose calls never throw, for every number of workers and calls
\* and every width of the id: a call returns after each index it asked for ran once and no
\* other did.
THEOREM StdPoolIsExecutor == Spec => ImplementsParallelRegion
<1>1. Init => Region!Init
  BY DEF Init, Region!Init, Phase, Region!Threads, Workers
<1> QED
  BY <1>1, RegionStep, Invariance, PTL DEF Spec, ImplementsParallelRegion, Region!Spec
=============================================================================

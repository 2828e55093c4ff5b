------------------------ MODULE FixedThreadPoolProofs -----------------------
(***************************************************************************)
(* Proofs about FixedThreadPool for every number of threads and calls and  *)
(* every width of the epoch, wrapping or not.                              *)
(*                                                                         *)
(* The inductive invariant is built in layers, each proved with the help   *)
(* of those before it: the types (PcOK, DataOK, FlagsOK), what goes with   *)
(* stop_ (StopInv), what the dispatch word and unfinished_ say about the   *)
(* workers (CountInv), what has become of the task on each index (BodyInv),*)
(* who holds an exception (ExceptionInv) and who waits for what (WaitInv). *)
(***************************************************************************)
EXTENDS FixedThreadPool, FiniteSetTheorems, TLAPS

PcOK ==
  /\ pc \in [Threads -> CallerPcs \cup WorkerPcs]
  /\ pc[Caller] \in CallerPcs
  /\ \A w \in Workers : pc[w] \in WorkerPcs

\* The types of the data but for the flags, which only Zenon types, and with the two
\* counters merely integers: their range follows from CountInv.
DataOK ==
  /\ state \in [epoch : Nat, used : 0 .. N]
  /\ task \in 0 .. MaxCalls
  /\ unfinished \in Int
  /\ exception \in Threads \cup {NoException}
  /\ last \in [Workers -> [epoch : Nat, used : 0 .. N]]
  /\ left \in Int
  /\ call \in 0 .. MaxCalls
  /\ used \in 0 .. N
  /\ body \in [Threads -> {"pending", "running"} \cup Ended]
  /\ outcome \in Threads \cup {NoException}

FlagsOK == stop \in BOOLEAN /\ stored \in BOOLEAN

\* What the caller does while it destroys the pool.
Stopped == {"stopDispatch", "stopNotify", "join", "gone"}

StopInv ==
  /\ (stop = TRUE) => pc[Caller] \in Stopped
  /\ pc[Caller] \in Stopped => (stop = TRUE)
  /\ \A w \in Workers : pc[w] = "exited" => pc[Caller] \in Stopped

-----------------------------------------------------------------------------
\* What a worker does while it takes part in a region.
Busy == {"begin", "body", "claim", "save", "finish"}

\* No worker knows of a dispatch to come, and one that knows of the last dispatch
\* knows its whole word.
SeenInv ==
  \A w \in Workers :
    /\ last[w].epoch <= state.epoch
    /\ last[w].epoch = state.epoch => last[w] = state

BusyInv ==
  \A w \in Workers :
    /\ pc[w] \in Busy => Dispatched /\ last[w] = state /\ w < state.used
    /\ pc[w] = "loaded" /\ w < last[w].used
         => stop = TRUE \/ (Dispatched /\ last[w] = state)

DispatchInv ==
  /\ pc[Caller] \in {"setTask", "setUnfinished", "dispatch"} => used >= 2
  /\ pc[Caller] \in {"setUnfinished", "dispatch"} => task = call
  /\ pc[Caller] = "dispatch" => unfinished = used - 1
  /\ Dispatched => task = call /\ used = state.used /\ used >= 2

\* Between regions nobody is pending.
QuietInv == Dispatched \/ stop = TRUE \/ Pending = {}

CountInv == SeenInv /\ BusyInv /\ DispatchInv /\ QuietInv /\ CountsPending

-----------------------------------------------------------------------------
InRegion == Dispatched \/ pc[Caller] \in {"collect", "rethrow"}

BodyOfThreads ==
  \A t \in Threads :
    /\ t >= used => body[t] = "pending"
    /\ pc[Caller] \in {"empty", "inline", "setTask", "setUnfinished", "dispatch"}
         => body[t] = "pending"
    /\ pc[t] = "body" => body[t] = "running"
    /\ pc[t] \in {"claim", "save"} => body[t] = "threw"

BodyOfWorkers ==
  \A w \in Workers :
    /\ pc[w] = "finish" => body[w] \in Ended
    /\ InRegion /\ w \in Pending /\ pc[w] \notin Busy \ {"begin"} => body[w] = "pending"
    /\ InRegion /\ w < used /\ w \notin Pending => body[w] \in Ended

BodyOfCaller ==
  /\ pc[Caller] \in {"notify", "begin"} => body[Caller] = "pending"
  /\ pc[Caller] \in {"drain", "load", "wait", "parked", "collect", "rethrow", "inlined"}
       => body[Caller] \in Ended
  /\ pc[Caller] = "inlineBody" => body[Caller] = "running"
  /\ pc[Caller] = "empty" => used = 0
  /\ pc[Caller] \in {"inline", "inlineBody", "inlined"} => used = 1
  /\ pc[Caller] \in {"collect", "rethrow"} => used >= 2

BodyInv == BodyOfThreads /\ BodyOfWorkers /\ BodyOfCaller

\* The flag is raised in a region by the first thread to claim it, which then stores
\* its exception; whoever threw and has not come that far is about to claim.
ExceptionInv ==
  /\ (stored = TRUE) => Dispatched \/ pc[Caller] = "collect"
  /\ \A t \in Threads :
       /\ (Dispatched \/ pc[Caller] = "collect") /\ body[t] = "threw"
            => stored = TRUE \/ pc[t] = "claim"
       /\ pc[t] = "save" => stored = TRUE
       /\ \A s \in Threads : pc[s] = "save" /\ pc[t] = "save" => s = t
  /\ (stored = TRUE /\ \A t \in Threads : pc[t] # "save") \/ pc[Caller] = "rethrow"
       => exception \in Threads /\ body[exception] = "threw"

LeftInv == pc[Caller] \in {"wait", "parked"} => left # 0

-----------------------------------------------------------------------------
(* Types *)

LEMMA TypesInit == Init => PcOK /\ DataOK /\ FlagsOK /\ StopInv
<1> SUFFICES ASSUME Init PROVE PcOK /\ DataOK /\ FlagsOK /\ StopInv
  OBVIOUS
<1>1. PcOK /\ StopInv
  BY NAssumption
  DEF Init, PcOK, StopInv, Stopped, Threads, Workers, Caller, CallerPcs, WorkerPcs
<1>2. DataOK
  BY NAssumption, MaxCallsAssumption
  DEF Init, DataOK, Threads, Workers, Initially, Ended
<1>3. FlagsOK
  BY DEF Init, FlagsOK
<1> QED
  BY <1>1, <1>2, <1>3

LEMMA PcStep == PcOK /\ [Next]_vars => PcOK'
<1> SUFFICES ASSUME PcOK, [Next]_vars PROVE PcOK'
  OBVIOUS
<1> USE NAssumption DEF PcOK, Threads, Workers, Caller, CallerPcs, WorkerPcs, Goto
<1>1. CASE \E w \in Workers : SpawnWorker(w)
  BY <1>1 DEF SpawnWorker, Unborn
<1>2. CASE SpawnFails \/ EndUnwinding \/ ReturnEmpty \/ BeginInline \/ EndInline \/ ReturnInline
  BY <1>2 DEF SpawnFails, EndUnwinding, ReturnEmpty, BeginInline, EndInline, ReturnInline
<1>3. CASE \E u \in 0 .. N : Execute(u)
  BY <1>3 DEF Execute
<1>4. CASE SetTask \/ SetUnfinished \/ Dispatch
  BY <1>4 DEF SetTask, SetUnfinished, Dispatch
<1>5. CASE NotifyWorkers \/ StopNotify
  BY <1>5 DEF NotifyWorkers, StopNotify, WakeWorkers
<1>6. CASE SpinCompletion \/ StopSpinningForCompletion \/ LoadUnfinished \/ WaitCompletion
  BY <1>6 DEF SpinCompletion, StopSpinningForCompletion, LoadUnfinished, WaitCompletion
<1>7. CASE CollectException \/ Rethrow
  BY <1>7 DEF CollectException, Rethrow
<1>8. CASE SetStop \/ StopDispatch \/ JoinWorkers
  BY <1>8 DEF SetStop, StopDispatch, JoinWorkers
<1>9. ASSUME NEW t \in Threads, RunStep(t) PROVE PcOK'
  BY <1>9 DEF RunStep, Begin, EndBody, ClaimException, SaveException, AfterRun
<1>10. ASSUME NEW w \in Workers,
              SpinState(w) \/ StopSpinningForState(w) \/ WaitState(w) \/ ReloadState(w)
       PROVE  PcOK'
  BY <1>10 DEF SpinState, StopSpinningForState, WaitState, ReloadState
<1>11. ASSUME NEW w \in Workers, Exit(w) \/ Decide(w) \/ FinishRegion(w) \/ SignalCaller(w)
       PROVE  PcOK'
  BY <1>11 DEF Exit, Decide, FinishRegion, SignalCaller
<1>12. CASE (\E t \in Threads : WakeSpuriously(t)) \/ Terminated \/ UNCHANGED vars
  BY <1>12 DEF WakeSpuriously, Terminated, vars
<1> QED
  BY <1>1, <1>2, <1>3, <1>4, <1>5, <1>6, <1>7, <1>8, <1>9, <1>10, <1>11, <1>12
  DEF Next, CallerStep, WorkerStep

LEMMA DataStep == PcOK /\ DataOK /\ [Next]_vars => DataOK'
<1> SUFFICES ASSUME PcOK, DataOK, [Next]_vars PROVE DataOK'
  OBVIOUS
<1> USE NAssumption, MaxCallsAssumption
    DEF DataOK, Threads, Workers, Caller, Ended, dispatchVars, exceptionVars, callVars
<1>1. CASE \E w \in Workers : SpawnWorker(w)
  BY <1>1 DEF SpawnWorker
<1>2. CASE SpawnFails \/ EndUnwinding \/ JoinWorkers
  BY <1>2 DEF SpawnFails, EndUnwinding, JoinWorkers
<1>3. CASE \E u \in 0 .. N : Execute(u)
  BY <1>3 DEF Execute
<1>4. CASE ReturnEmpty
  BY <1>4 DEF ReturnEmpty
<1>19. CASE ReturnInline
  BY <1>19 DEF ReturnInline
<1>5. CASE BeginInline
  BY <1>5 DEF BeginInline
<1>20. CASE EndInline
  BY <1>20 DEF EndInline
<1>6. CASE SetTask
  BY <1>6 DEF SetTask
<1>7. CASE Dispatch
  BY <1>7 DEF Dispatch
<1>8. CASE NotifyWorkers \/ StopNotify \/ SetStop
  BY <1>8 DEF NotifyWorkers, StopNotify, SetStop
<1>9. CASE SpinCompletion \/ StopSpinningForCompletion \/ LoadUnfinished \/ WaitCompletion
  BY <1>9 DEF SpinCompletion, StopSpinningForCompletion, LoadUnfinished, WaitCompletion
<1>10. CASE CollectException \/ Rethrow
  BY <1>10 DEF CollectException, Rethrow
<1>11. ASSUME NEW t \in Threads, RunStep(t) PROVE DataOK'
  BY <1>11 DEF RunStep, Begin, EndBody, ClaimException, SaveException
<1>12. ASSUME NEW w \in Workers,
              SpinState(w) \/ StopSpinningForState(w) \/ WaitState(w) \/ ReloadState(w)
       PROVE  DataOK'
  BY <1>12 DEF SpinState, StopSpinningForState, WaitState, ReloadState
<1>13. ASSUME NEW w \in Workers, Exit(w) \/ Decide(w) PROVE DataOK'
  BY <1>13 DEF Exit, Decide
<1>14. ASSUME NEW w \in Workers, FinishRegion(w) PROVE DataOK'
  BY <1>14 DEF FinishRegion
<1>16. ASSUME NEW w \in Workers, SignalCaller(w) PROVE DataOK'
  BY <1>16 DEF SignalCaller
<1>17. CASE SetUnfinished
  BY <1>17 DEF SetUnfinished
<1>18. CASE StopDispatch
  BY <1>18 DEF StopDispatch
<1>15. CASE (\E t \in Threads : WakeSpuriously(t)) \/ Terminated \/ UNCHANGED vars
  BY <1>15 DEF WakeSpuriously, Terminated, vars
<1> HIDE DEF DataOK
<1> QED
  BY <1>1, <1>2, <1>3, <1>4, <1>5, <1>6, <1>7, <1>8, <1>9, <1>10, <1>11, <1>12, <1>13,
     <1>14, <1>15, <1>16, <1>17, <1>18, <1>19, <1>20
  DEF Next, CallerStep, WorkerStep

LEMMA FlagsStep == FlagsOK /\ [Next]_vars => FlagsOK'
<1> SUFFICES ASSUME FlagsOK, [Next]_vars PROVE FlagsOK'
  OBVIOUS
<1> USE DEF FlagsOK, dispatchVars, exceptionVars
<1>1. CASE SetStop \/ CollectException \/ \E t \in Threads : ClaimException(t)
  BY <1>1, Zenon DEF SetStop, CollectException, ClaimException
<1>2. CASE \/ \E w \in Workers : SpawnWorker(w)
           \/ SpawnFails \/ EndUnwinding \/ ReturnEmpty
           \/ BeginInline \/ EndInline \/ ReturnInline \/ SetTask \/ SetUnfinished
           \/ Dispatch \/ NotifyWorkers
           \/ \E u \in 0 .. N : Execute(u)
  BY <1>2, Zenon
  DEF SpawnWorker, SpawnFails, EndUnwinding, ReturnEmpty, BeginInline, EndInline, ReturnInline,
      SetTask, SetUnfinished, Dispatch, NotifyWorkers, Execute
<1>3. CASE \/ SpinCompletion \/ StopSpinningForCompletion \/ LoadUnfinished
           \/ WaitCompletion \/ Rethrow \/ StopDispatch \/ StopNotify \/ JoinWorkers
           \/ Terminated \/ UNCHANGED vars
  BY <1>3, Zenon
  DEF SpinCompletion, StopSpinningForCompletion, LoadUnfinished, WaitCompletion, Rethrow,
      StopDispatch, StopNotify, JoinWorkers, Terminated, vars
<1>4. ASSUME NEW t \in Threads,
             Begin(t) \/ EndBody(t) \/ SaveException(t) \/ WakeSpuriously(t)
      PROVE  FlagsOK'
  BY <1>4, Zenon DEF Begin, EndBody, SaveException, WakeSpuriously
<1>5. ASSUME NEW w \in Workers,
             \/ SpinState(w) \/ StopSpinningForState(w) \/ WaitState(w) \/ ReloadState(w)
             \/ Exit(w) \/ Decide(w) \/ FinishRegion(w) \/ SignalCaller(w)
      PROVE  FlagsOK'
  BY <1>5, Zenon
  DEF SpinState, StopSpinningForState, WaitState, ReloadState, Exit, Decide, FinishRegion,
      SignalCaller
<1>6. Caller \in Threads /\ Workers \subseteq Threads
  BY NAssumption DEF Caller, Threads, Workers
<1> HIDE DEF FlagsOK
<1> QED
  BY <1>1, <1>2, <1>3, <1>4, <1>5, <1>6 DEF Next, CallerStep, WorkerStep, RunStep

LEMMA StopStep == PcOK /\ StopInv /\ [Next]_vars => StopInv'
<1> SUFFICES ASSUME PcOK, StopInv, [Next]_vars PROVE StopInv'
  OBVIOUS
<1> USE NAssumption
    DEF PcOK, StopInv, Stopped, Threads, Workers, Caller, CallerPcs, WorkerPcs, Goto,
        dispatchVars
<1>1. CASE \E w \in Workers : SpawnWorker(w)
  BY <1>1 DEF SpawnWorker
<1>2. CASE SpawnFails \/ EndUnwinding \/ JoinWorkers
  BY <1>2 DEF SpawnFails, EndUnwinding, JoinWorkers
<1>3. CASE \E u \in 0 .. N : Execute(u)
  BY <1>3 DEF Execute
<1>4. CASE ReturnEmpty \/ BeginInline \/ EndInline \/ ReturnInline
  BY <1>4 DEF ReturnEmpty, BeginInline, EndInline, ReturnInline
<1>5. CASE SetTask \/ SetUnfinished \/ Dispatch
  BY <1>5 DEF SetTask, SetUnfinished, Dispatch
<1>6. CASE NotifyWorkers \/ StopNotify
  BY <1>6 DEF NotifyWorkers, StopNotify, WakeWorkers
<1>7. CASE SpinCompletion \/ StopSpinningForCompletion \/ LoadUnfinished \/ WaitCompletion
  BY <1>7 DEF SpinCompletion, StopSpinningForCompletion, LoadUnfinished, WaitCompletion
<1>8. CASE CollectException \/ Rethrow
  BY <1>8 DEF CollectException, Rethrow
<1>9. CASE SetStop \/ StopDispatch
  BY <1>9 DEF SetStop, StopDispatch
<1>10. ASSUME NEW t \in Threads, RunStep(t) PROVE StopInv'
  BY <1>10 DEF RunStep, Begin, EndBody, ClaimException, SaveException, AfterRun
<1>11. ASSUME NEW w \in Workers,
              SpinState(w) \/ StopSpinningForState(w) \/ WaitState(w) \/ ReloadState(w)
       PROVE  StopInv'
  BY <1>11 DEF SpinState, StopSpinningForState, WaitState, ReloadState
<1>12. ASSUME NEW w \in Workers, Exit(w) \/ Decide(w) \/ FinishRegion(w) \/ SignalCaller(w)
       PROVE  StopInv'
  BY <1>12 DEF Exit, Decide, FinishRegion, SignalCaller
<1>13. CASE (\E t \in Threads : WakeSpuriously(t)) \/ Terminated \/ UNCHANGED vars
  BY <1>13 DEF WakeSpuriously, Terminated, vars
<1> HIDE DEF StopInv
<1> QED
  BY <1>1, <1>2, <1>3, <1>4, <1>5, <1>6, <1>7, <1>8, <1>9, <1>10, <1>11, <1>12, <1>13
  DEF Next, CallerStep, WorkerStep

-----------------------------------------------------------------------------
(* The dispatch word and the count of pending workers *)

LEMMA PendingFinite == IsFiniteSet(Pending)
  <1>1. IsFiniteSet(1 .. N - 1)
    BY NAssumption, FS_Interval
  <1> QED
    BY <1>1, FS_Subset DEF Pending, Workers

LEMMA CountInit == Init => CountInv
<1> SUFFICES ASSUME Init PROVE CountInv
  OBVIOUS
<1> USE NAssumption DEF Init, Initially, Caller, Threads, Workers
<1>1. SeenInv /\ BusyInv /\ DispatchInv
  BY DEF SeenInv, BusyInv, DispatchInv, Dispatched, Busy
<1>2. QuietInv
  BY DEF QuietInv, Pending
<1>3. CountsPending
  BY DEF CountsPending, Dispatched
<1> QED
  BY <1>1, <1>2, <1>3 DEF CountInv

LEMMA WordFrame ==
  ASSUME [Next]_vars
  PROVE  \/ Dispatch \/ StopDispatch
         \/ \E w \in Workers : SpinState(w) \/ ReloadState(w)
         \/ UNCHANGED <<state, last>>
<1> DEFINE Goal == \/ Dispatch \/ StopDispatch
                   \/ \E w \in Workers : SpinState(w) \/ ReloadState(w)
                   \/ UNCHANGED <<state, last>>
<1>1. CASE \/ \E w \in Workers : SpawnWorker(w)
           \/ SpawnFails \/ EndUnwinding \/ ReturnEmpty
           \/ BeginInline \/ EndInline \/ ReturnInline \/ SetTask \/ SetUnfinished
           \/ NotifyWorkers
           \/ \E u \in 0 .. N : Execute(u)
  BY <1>1, Zenon
  DEF SpawnWorker, SpawnFails, EndUnwinding, ReturnEmpty, BeginInline, EndInline, ReturnInline,
      SetTask, SetUnfinished, NotifyWorkers, Execute, dispatchVars
<1>2. CASE \/ SpinCompletion \/ StopSpinningForCompletion \/ LoadUnfinished
           \/ WaitCompletion \/ CollectException \/ Rethrow \/ SetStop \/ StopNotify
           \/ JoinWorkers \/ Terminated \/ UNCHANGED vars
  BY <1>2, Zenon
  DEF SpinCompletion, StopSpinningForCompletion, LoadUnfinished, WaitCompletion,
      CollectException, Rethrow, SetStop, StopNotify, JoinWorkers, Terminated, vars,
      dispatchVars
<1>3. ASSUME NEW t \in Threads,
             RunStep(t) \/ WakeSpuriously(t)
      PROVE  Goal
  BY <1>3, Zenon
  DEF RunStep, Begin, EndBody, ClaimException, SaveException, WakeSpuriously, dispatchVars
<1>4. ASSUME NEW w \in Workers,
             \/ StopSpinningForState(w) \/ WaitState(w) \/ Exit(w) \/ Decide(w)
             \/ FinishRegion(w) \/ SignalCaller(w)
      PROVE  Goal
  BY <1>4, Zenon
  DEF StopSpinningForState, WaitState, Exit, Decide, FinishRegion, SignalCaller, dispatchVars
<1>5. Caller \in Threads /\ Workers \subseteq Threads
  BY NAssumption DEF Caller, Threads, Workers
<1> QED
  BY <1>1, <1>2, <1>3, <1>4, <1>5 DEF Next, CallerStep, WorkerStep

LEMMA SeenStep == PcOK /\ DataOK /\ SeenInv /\ [Next]_vars => SeenInv'
<1> SUFFICES ASSUME PcOK, DataOK, SeenInv, [Next]_vars PROVE SeenInv'
  OBVIOUS
<1> USE DEF SeenInv, DataOK
<1>1. CASE Dispatch \/ StopDispatch
  BY <1>1 DEF Dispatch, StopDispatch
<1>2. ASSUME NEW w \in Workers, SpinState(w) \/ ReloadState(w) PROVE SeenInv'
  BY <1>2 DEF SpinState, ReloadState, dispatchVars
<1>3. CASE UNCHANGED <<state, last>>
  BY <1>3
<1> QED
  BY <1>1, <1>2, <1>3, WordFrame

\* Every step but four kinds leaves the set of pending workers alone: a worker that
\* loads a word or decides what to do about it stays pending or stays not.
LEMMA PendingStep ==
  ASSUME PcOK, DataOK, StopInv, SeenInv, BusyInv, [Next]_vars
  PROVE  \/ Dispatch \/ StopDispatch
         \/ \E w \in Workers : FinishRegion(w) \/ Exit(w)
         \/ Pending' = Pending
<1>types. /\ pc \in [Threads -> CallerPcs \cup WorkerPcs]
          /\ state \in [epoch : Nat, used : 0 .. N]
          /\ last \in [Workers -> [epoch : Nat, used : 0 .. N]]
          /\ 0 \in Threads /\ Workers \subseteq Threads /\ Workers \subseteq Int
          /\ \A w \in Workers : w # 0
  BY NAssumption DEF PcOK, DataOK, Threads, Workers
<1> USE <1>types DEF Caller, Goto, dispatchVars
<1> DEFINE Taking == {"loaded", "begin", "body", "claim", "save", "finish"}
           Kept == \A w \in Workers : pc'[w] \in Taking <=> pc[w] \in Taking
<1>a. ASSUME UNCHANGED <<state, last>>, Kept PROVE Pending' = Pending
  BY <1>a DEF Pending
<1>b. ASSUME NEW l, Goto(Caller, l) PROVE Kept
  BY <1>b
<1>c. ASSUME NEW t \in Threads, NEW l, Goto(t, l),
             t = Caller \/ (pc[t] \in Taking <=> l \in Taking)
      PROVE  Kept
  BY <1>c
<1>1. ASSUME NEW w \in Workers, SpawnWorker(w) PROVE Pending' = Pending
  <2>1. pc[w] = "unborn" /\ w # Caller
    BY <1>1 DEF SpawnWorker, Unborn
  <2>2. Kept
    BY <1>1, <2>1 DEF SpawnWorker
  <2> QED
    BY <1>1, <1>a, <2>2 DEF SpawnWorker
<1> HIDE DEF Kept, Goto
<1>2. CASE SpawnFails \/ EndUnwinding \/ JoinWorkers \/ ReturnEmpty
  BY <1>2, <1>a, <1>b DEF SpawnFails, EndUnwinding, JoinWorkers, ReturnEmpty
<1>3. CASE \E u \in 0 .. N : Execute(u)
  BY <1>3, <1>a, <1>b DEF Execute
<1>4. CASE BeginInline \/ EndInline \/ ReturnInline
  BY <1>4, <1>a, <1>b DEF BeginInline, EndInline, ReturnInline
<1>5. CASE SetTask \/ SetUnfinished \/ SetStop
  BY <1>5, <1>a, <1>b DEF SetTask, SetUnfinished, SetStop
<1>6. CASE SpinCompletion \/ StopSpinningForCompletion \/ LoadUnfinished \/ WaitCompletion
  BY <1>6, <1>a, <1>b
  DEF SpinCompletion, StopSpinningForCompletion, LoadUnfinished, WaitCompletion
<1>7. CASE CollectException \/ Rethrow
  BY <1>7, <1>a, <1>b DEF CollectException, Rethrow
<1> USE DEF Kept, Goto
<1>8. CASE NotifyWorkers \/ StopNotify
  <2>1. Kept
    BY <1>8 DEF NotifyWorkers, StopNotify, WakeWorkers
  <2> QED
    BY <1>8, <1>a, <2>1 DEF NotifyWorkers, StopNotify
<1>9. ASSUME NEW t \in Threads, RunStep(t) PROVE Pending' = Pending
  <2>1. Kept
    <3>1. CASE Begin(t)
      BY <3>1, <1>c DEF Begin
    <3>2. CASE EndBody(t)
      BY <3>2, <1>c DEF EndBody, AfterRun
    <3>3. CASE ClaimException(t) \/ SaveException(t)
      BY <3>3, <1>c DEF ClaimException, SaveException, AfterRun
    <3> QED
      BY <1>9, <3>1, <3>2, <3>3 DEF RunStep
  <2> QED
    BY <1>9, <1>a, <2>1 DEF RunStep, Begin, EndBody, ClaimException, SaveException
<1>10. ASSUME NEW w \in Workers, StopSpinningForState(w) \/ WaitState(w) \/ SignalCaller(w)
       PROVE  Pending' = Pending
  <2>1. Kept
    <3>1. CASE StopSpinningForState(w)
      BY <3>1, <1>c DEF StopSpinningForState
    <3>2. CASE WaitState(w)
      BY <3>2, <1>c DEF WaitState
    <3>3. CASE SignalCaller(w)
      BY <3>3 DEF SignalCaller
    <3> QED
      BY <1>10, <3>1, <3>2, <3>3
  <2> QED
    BY <1>10, <1>a, <2>1 DEF StopSpinningForState, WaitState, SignalCaller
<1>11. ASSUME NEW w \in Workers, last[w] # state, pc[w] \in {"spin", "reload"},
              Goto(w, "loaded"), last' = [last EXCEPT ![w] = state], UNCHANGED state
       PROVE  Pending' = Pending
  BY <1>11 DEF Pending
<1>12. ASSUME NEW w \in Workers, SpinState(w) PROVE Pending' = Pending
  BY <1>12, <1>11 DEF SpinState
<1>13. ASSUME NEW w \in Workers, ReloadState(w) PROVE Pending' = Pending
  <2>1. CASE Word(state) = Word(last[w])
    <3>1. pc[w] = "reload" /\ Goto(w, "wait")
      BY <1>13, <2>1 DEF ReloadState
    <3>2. Kept
      BY <1>c, <3>1
    <3> QED
      BY <1>13, <1>a, <2>1, <3>2 DEF ReloadState
  <2>2. CASE Word(state) # Word(last[w])
    BY <1>13, <1>11, <2>2 DEF ReloadState
  <2> QED
    BY <2>1, <2>2
<1>14. ASSUME NEW w \in Workers, Decide(w) PROVE Pending' = Pending
  BY <1>14 DEF Decide, SeenInv, Pending
<1>15. ASSUME NEW t \in Threads, WakeSpuriously(t) PROVE Pending' = Pending
  <2>1. Kept
    BY <1>15 DEF WakeSpuriously
  <2> QED
    BY <1>15, <1>a, <2>1 DEF WakeSpuriously
<1>16. CASE Terminated \/ UNCHANGED vars
  BY <1>16, <1>a DEF Terminated, vars
<1>17. Caller \in Threads /\ Workers \subseteq Threads
  OBVIOUS
<1> QED
  BY <1>1, <1>2, <1>3, <1>4, <1>5, <1>6, <1>7, <1>8, <1>9, <1>10, <1>12, <1>13, <1>14,
     <1>15, <1>16, <1>17
  DEF Next, CallerStep, WorkerStep

\* A region starts with Dispatch, and the caller leaves it when it has read zero from
\* unfinished_.
LEMMA DispatchedStep ==
  ASSUME PcOK, [Next]_vars
  PROVE  /\ Dispatched' => Dispatched \/ Dispatch
         /\ Dispatched /\ ~Dispatched' => unfinished = 0 /\ unfinished' = 0
<1> DEFINE Goal == /\ Dispatched' => Dispatched \/ Dispatch
                   /\ Dispatched /\ ~Dispatched' => unfinished = 0 /\ unfinished' = 0
<1> USE NAssumption DEF PcOK, Dispatched, Threads, Workers, Caller, Goto
<1>1. ASSUME NEW w \in Workers, SpawnWorker(w) PROVE Goal
  BY <1>1 DEF SpawnWorker
<1>2. CASE SpawnFails \/ EndUnwinding \/ JoinWorkers \/ ReturnEmpty
  BY <1>2 DEF SpawnFails, EndUnwinding, JoinWorkers, ReturnEmpty
<1>3. CASE \E u \in 0 .. N : Execute(u)
  BY <1>3 DEF Execute
<1>4. CASE BeginInline \/ EndInline \/ ReturnInline
  BY <1>4 DEF BeginInline, EndInline, ReturnInline
<1>5. CASE SetTask \/ SetUnfinished \/ SetStop \/ StopDispatch
  BY <1>5 DEF SetTask, SetUnfinished, SetStop, StopDispatch
<1>6. CASE NotifyWorkers \/ StopNotify
  BY <1>6 DEF NotifyWorkers, StopNotify, WakeWorkers
<1>7. CASE SpinCompletion \/ StopSpinningForCompletion \/ LoadUnfinished \/ WaitCompletion
  BY <1>7 DEF SpinCompletion, StopSpinningForCompletion, LoadUnfinished, WaitCompletion
<1>8. CASE CollectException \/ Rethrow
  BY <1>8 DEF CollectException, Rethrow
<1>9. ASSUME NEW t \in Threads, RunStep(t) PROVE Goal
  BY <1>9 DEF RunStep, Begin, EndBody, ClaimException, SaveException, AfterRun
<1>10. ASSUME NEW w \in Workers,
              SpinState(w) \/ StopSpinningForState(w) \/ WaitState(w) \/ ReloadState(w)
       PROVE  Goal
  BY <1>10 DEF SpinState, StopSpinningForState, WaitState, ReloadState
<1>11. ASSUME NEW w \in Workers, Exit(w) \/ Decide(w) \/ FinishRegion(w) PROVE Goal
  BY <1>11 DEF Exit, Decide, FinishRegion
<1>12. ASSUME NEW w \in Workers, SignalCaller(w) PROVE Goal
  BY <1>12 DEF SignalCaller
<1>13. CASE (\E t \in Threads : WakeSpuriously(t)) \/ Terminated \/ UNCHANGED vars
  BY <1>13 DEF WakeSpuriously, Terminated, vars
<1>14. Caller \in Threads /\ Workers \subseteq Threads
  OBVIOUS
<1>15. CASE Dispatch
  BY <1>15 DEF Dispatch
<1> HIDE DEF PcOK, Dispatched, Threads, Workers, Caller, Goto
<1> QED
  BY <1>1, <1>2, <1>3, <1>4, <1>5, <1>6, <1>7, <1>8, <1>9, <1>10, <1>11, <1>12, <1>13,
     <1>14, <1>15
  DEF Next, CallerStep, WorkerStep

LEMMA UnfinishedFrame ==
  ASSUME [Next]_vars
  PROVE  SetUnfinished \/ (\E w \in Workers : FinishRegion(w)) \/ unfinished' = unfinished
<1> DEFINE Goal ==
      SetUnfinished \/ (\E w \in Workers : FinishRegion(w)) \/ unfinished' = unfinished
<1>1. CASE \/ \E w \in Workers : SpawnWorker(w)
           \/ SpawnFails \/ EndUnwinding \/ ReturnEmpty
           \/ BeginInline \/ EndInline \/ ReturnInline \/ SetTask \/ Dispatch
           \/ NotifyWorkers
           \/ \E u \in 0 .. N : Execute(u)
  BY <1>1, Zenon
  DEF SpawnWorker, SpawnFails, EndUnwinding, ReturnEmpty, BeginInline, EndInline, ReturnInline,
      SetTask, Dispatch, NotifyWorkers, Execute
<1>2. CASE \/ SpinCompletion \/ StopSpinningForCompletion \/ LoadUnfinished
           \/ WaitCompletion \/ CollectException \/ Rethrow \/ SetStop \/ StopDispatch
           \/ StopNotify \/ JoinWorkers \/ Terminated \/ UNCHANGED vars
  BY <1>2, Zenon
  DEF SpinCompletion, StopSpinningForCompletion, LoadUnfinished, WaitCompletion,
      CollectException, Rethrow, SetStop, StopDispatch, StopNotify, JoinWorkers, Terminated, vars
<1>3. ASSUME NEW t \in Threads, RunStep(t) \/ WakeSpuriously(t) PROVE Goal
  BY <1>3, Zenon
  DEF RunStep, Begin, EndBody, ClaimException, SaveException, WakeSpuriously
<1>4. ASSUME NEW w \in Workers,
             \/ SpinState(w) \/ StopSpinningForState(w) \/ WaitState(w) \/ ReloadState(w)
             \/ Exit(w) \/ Decide(w) \/ SignalCaller(w)
      PROVE  Goal
  BY <1>4, Zenon
  DEF SpinState, StopSpinningForState, WaitState, ReloadState, Exit, Decide, SignalCaller
<1>5. Caller \in Threads /\ Workers \subseteq Threads
  BY NAssumption DEF Caller, Threads, Workers
<1> QED
  BY <1>1, <1>2, <1>3, <1>4, <1>5 DEF Next, CallerStep, WorkerStep

LEMMA DispatchInvStep ==
  ASSUME PcOK, DataOK, DispatchInv, BusyInv, [Next]_vars PROVE DispatchInv'
<1>types. /\ pc \in [Threads -> CallerPcs \cup WorkerPcs]
          /\ 0 \in Threads /\ Workers \subseteq Threads /\ Workers \subseteq Int
          /\ \A w \in Workers : w # 0
          /\ used \in Int /\ unfinished \in Int
  BY NAssumption DEF PcOK, DataOK, Threads, Workers
<1> USE <1>types DEF DispatchInv, Dispatched, Caller, Goto, dispatchVars, callVars
<1>a. ASSUME UNCHANGED <<state, task, unfinished, call, used>>,
             pc'[Caller] = pc[Caller] \/ (Dispatched /\ Dispatched')
      PROVE  DispatchInv'
  BY <1>a
<1>1. ASSUME NEW w \in Workers, SpawnWorker(w) PROVE DispatchInv'
  BY <1>1 DEF SpawnWorker
<1>2. CASE SpawnFails \/ EndUnwinding
  BY <1>2 DEF SpawnFails, EndUnwinding
<1>24. CASE JoinWorkers \/ ReturnEmpty
  BY <1>24 DEF JoinWorkers, ReturnEmpty
<1>3. ASSUME NEW u \in 0 .. N, Execute(u) PROVE DispatchInv'
  BY <1>3 DEF Execute
<1>4. CASE BeginInline \/ EndInline \/ ReturnInline
  BY <1>4 DEF BeginInline, EndInline, ReturnInline
<1>5. CASE SetTask
  BY <1>5 DEF SetTask
<1>6. CASE SetUnfinished
  BY <1>6 DEF SetUnfinished
<1>7. CASE Dispatch
  BY <1>7 DEF Dispatch
<1>8. CASE SetStop \/ StopDispatch
  BY <1>8 DEF SetStop, StopDispatch
<1>9. CASE NotifyWorkers
  BY <1>9 DEF NotifyWorkers, WakeWorkers
<1>23. CASE StopNotify
  BY <1>23 DEF StopNotify, WakeWorkers
<1>10. CASE SpinCompletion \/ StopSpinningForCompletion
  BY <1>10 DEF SpinCompletion, StopSpinningForCompletion
<1>11. CASE LoadUnfinished \/ WaitCompletion
  BY <1>11 DEF LoadUnfinished, WaitCompletion
<1>12. CASE CollectException \/ Rethrow
  BY <1>12 DEF CollectException, Rethrow
<1>13. ASSUME NEW t \in Threads, Begin(t) \/ EndBody(t) PROVE DispatchInv'
  <2>1. pc'[Caller] = pc[Caller] \/ (Dispatched /\ Dispatched')
    BY <1>13 DEF Begin, EndBody, AfterRun
  <2> QED
    BY <1>13, <1>a, <2>1 DEF Begin, EndBody
<1>14. ASSUME NEW t \in Threads, ClaimException(t) \/ SaveException(t) PROVE DispatchInv'
  <2>1. pc'[Caller] = pc[Caller] \/ (Dispatched /\ Dispatched')
    BY <1>14 DEF ClaimException, SaveException, AfterRun
  <2> QED
    BY <1>14, <1>a, <2>1 DEF ClaimException, SaveException
<1>15. ASSUME NEW w \in Workers,
              SpinState(w) \/ StopSpinningForState(w) \/ WaitState(w) \/ ReloadState(w)
       PROVE  DispatchInv'
  <2>1. CASE SpinState(w) \/ StopSpinningForState(w)
    BY <1>a, <2>1 DEF SpinState, StopSpinningForState
  <2>2. CASE WaitState(w)
    BY <1>a, <2>2 DEF WaitState
  <2>3. CASE ReloadState(w)
    BY <1>a, <2>3 DEF ReloadState
  <2> QED
    BY <1>15, <2>1, <2>2, <2>3
<1>16. ASSUME NEW w \in Workers, Exit(w) PROVE DispatchInv'
  BY <1>16 DEF Exit
<1>17. ASSUME NEW w \in Workers, Decide(w) PROVE DispatchInv'
  BY <1>17 DEF Decide
\* A worker reports only while the region runs, when no one reads used - 1 any more.
<1>18. ASSUME NEW w \in Workers, FinishRegion(w) PROVE DispatchInv'
  BY <1>18 DEF FinishRegion, BusyInv, Busy
<1>19. ASSUME NEW w \in Workers, SignalCaller(w) PROVE DispatchInv'
  BY <1>19 DEF SignalCaller
<1>20. ASSUME NEW t \in Threads, WakeSpuriously(t) PROVE DispatchInv'
  BY <1>20 DEF WakeSpuriously
<1>21. CASE Terminated \/ UNCHANGED vars
  BY <1>21 DEF Terminated, vars
<1>22. Caller \in Threads /\ Workers \subseteq Threads
  OBVIOUS
<1> HIDE DEF DispatchInv, Dispatched, Caller, Goto
<1> QED
  BY <1>1, <1>2, <1>3, <1>4, <1>5, <1>6, <1>7, <1>8, <1>9, <1>10, <1>11, <1>12, <1>13,
     <1>14, <1>15, <1>16, <1>17, <1>18, <1>19, <1>20, <1>21, <1>22,
     <1>23, <1>24
  DEF Next, CallerStep, WorkerStep, RunStep

\* When the caller leaves a region, nobody is pending and so nobody is busy.
LEMMA NobodyPending ==
  ASSUME PcOK, CountsPending, BusyInv, Dispatched, unfinished = 0
  PROVE  Pending = {} /\ \A w \in Workers : pc[w] \notin Busy
<1>1. Pending = {}
  BY PendingFinite, FS_EmptySet DEF CountsPending
<1> QED
  BY <1>1 DEF BusyInv, Pending, Busy

LEMMA BusyStep ==
  ASSUME PcOK, DataOK, StopInv, CountInv, [Next]_vars PROVE BusyInv'
<1>types. /\ pc \in [Threads -> CallerPcs \cup WorkerPcs]
          /\ state \in [epoch : Nat, used : 0 .. N]
          /\ last \in [Workers -> [epoch : Nat, used : 0 .. N]]
          /\ 0 \in Threads /\ Workers \subseteq Threads /\ Workers \subseteq Int
          /\ \A w \in Workers : w # 0
  BY NAssumption DEF PcOK, DataOK, Threads, Workers
<1> USE <1>types DEF Busy, Caller, Goto, dispatchVars
\* Nobody joins a region or loads a word.
<1> DEFINE Mild == \A w \in Workers :
                     \/ pc'[w] = pc[w]
                     \/ pc'[w] # "loaded" /\ (pc'[w] \in Busy => pc[w] \in Busy)
<1>a. BusyInv
  BY DEF CountInv
<1>b. Dispatched /\ ~Dispatched'
        => Pending = {} /\ (\A w \in Workers : pc[w] \notin Busy) /\ stop # TRUE
  <2>1. Dispatched => pc[Caller] \notin Stopped
    BY DEF Dispatched, Stopped
  <2> QED
    BY <2>1, DispatchedStep, NobodyPending DEF CountInv, StopInv
<1>c. ASSUME UNCHANGED <<state, last, stop>>, Mild PROVE BusyInv'
  BY <1>a, <1>b, <1>c DEF BusyInv, Pending
<1>d. ASSUME NEW l, Goto(Caller, l) PROVE Mild
  BY <1>d
<1>e. ASSUME NEW t \in Threads, NEW l, Goto(t, l),
             t = Caller \/ (l # "loaded" /\ (l \in Busy => pc[t] \in Busy))
      PROVE  Mild
  BY <1>e
<1>1. ASSUME NEW w \in Workers, SpawnWorker(w) PROVE BusyInv'
  <2>1. Mild
    BY <1>1 DEF SpawnWorker
  <2> QED
    BY <1>1, <1>c, <2>1 DEF SpawnWorker
<1>3. CASE Dispatch
  BY <1>3, <1>a DEF Dispatch, Dispatched, CountInv, QuietInv, Pending, StopInv, Stopped, BusyInv
<1>4. CASE SetStop
  BY <1>4, <1>a DEF SetStop, Dispatched, BusyInv
<1>5. CASE StopDispatch
  BY <1>5, <1>a DEF StopDispatch, Dispatched, StopInv, Stopped, BusyInv
<1>6. CASE NotifyWorkers \/ StopNotify
  <2>1. Mild
    BY <1>6 DEF NotifyWorkers, StopNotify, WakeWorkers
  <2> QED
    BY <1>6, <1>c, <2>1 DEF NotifyWorkers, StopNotify
<1>7. ASSUME NEW t \in Threads, RunStep(t) PROVE BusyInv'
  <2>1. CASE Begin(t)
    BY <2>1, <1>c, <1>e DEF Begin
  <2>2. CASE EndBody(t)
    BY <2>2, <1>c, <1>e DEF EndBody, AfterRun
  <2>3. CASE ClaimException(t)
    BY <2>3, <1>c, <1>e DEF ClaimException, AfterRun
  <2>4. CASE SaveException(t)
    BY <2>4, <1>c, <1>e DEF SaveException, AfterRun
  <2> QED
    BY <1>7, <2>1, <2>2, <2>3, <2>4 DEF RunStep
<1>8. ASSUME NEW w \in Workers, Word(state) # Word(last[w]),
             Goto(w, "loaded"), last' = [last EXCEPT ![w] = state], UNCHANGED <<state, stop>>
      PROVE  BusyInv'
  <2>1. last[w] # state
    BY <1>8
  <2>2. Dispatched' = Dispatched
    BY <1>8 DEF Dispatched
  <2>3. w < state.used => stop = TRUE \/ Dispatched
    BY <2>1 DEF CountInv, QuietInv, Pending
  <2> QED
    BY <1>8, <1>a, <2>2, <2>3 DEF BusyInv
<1>9. ASSUME NEW w \in Workers, SpinState(w) PROVE BusyInv'
  BY <1>9, <1>8 DEF SpinState
<1>10. ASSUME NEW w \in Workers, ReloadState(w) PROVE BusyInv'
  <2>1. CASE Word(state) = Word(last[w])
    BY <1>10, <2>1, <1>c, <1>e DEF ReloadState
  <2>2. CASE Word(state) # Word(last[w])
    BY <1>10, <2>2, <1>8 DEF ReloadState
  <2> QED
    BY <2>1, <2>2
<1>11. ASSUME NEW w \in Workers, StopSpinningForState(w) PROVE BusyInv'
  BY <1>11, <1>c, <1>e DEF StopSpinningForState
<1>12. ASSUME NEW w \in Workers, WaitState(w) PROVE BusyInv'
  BY <1>12, <1>c, <1>e DEF WaitState
<1>13. ASSUME NEW w \in Workers, Exit(w) PROVE BusyInv'
  BY <1>13, <1>c, <1>e DEF Exit
<1>14. ASSUME NEW w \in Workers, Decide(w) PROVE BusyInv'
  BY <1>14, <1>a DEF Decide, Dispatched, BusyInv
<1>15. ASSUME NEW w \in Workers, FinishRegion(w) PROVE BusyInv'
  BY <1>15, <1>c, <1>e DEF FinishRegion
<1>16. ASSUME NEW w \in Workers, SignalCaller(w) PROVE BusyInv'
  <2>1. Mild
    BY <1>16 DEF SignalCaller
  <2> QED
    BY <1>16, <1>c, <2>1 DEF SignalCaller
<1>17. ASSUME NEW t \in Threads, WakeSpuriously(t) PROVE BusyInv'
  BY <1>17, <1>c, <1>e DEF WakeSpuriously
<1>18. CASE Terminated \/ UNCHANGED vars
  BY <1>18, <1>c DEF Terminated, vars
<1>19. Caller \in Threads /\ Workers \subseteq Threads
  OBVIOUS
<1> HIDE DEF Mild, Caller, Goto
<1>20. CASE SpawnFails \/ EndUnwinding \/ JoinWorkers \/ ReturnEmpty
  BY <1>20, <1>c, <1>d DEF SpawnFails, EndUnwinding, JoinWorkers, ReturnEmpty
<1>21. CASE (\E u \in 0 .. N : Execute(u)) \/ BeginInline \/ EndInline \/ ReturnInline
  BY <1>21, <1>c, <1>d DEF Execute, BeginInline, EndInline, ReturnInline
<1>22. CASE SetTask \/ SetUnfinished \/ CollectException \/ Rethrow
  BY <1>22, <1>c, <1>d DEF SetTask, SetUnfinished, CollectException, Rethrow
<1>23. CASE SpinCompletion \/ StopSpinningForCompletion \/ LoadUnfinished \/ WaitCompletion
  BY <1>23, <1>c, <1>d
  DEF SpinCompletion, StopSpinningForCompletion, LoadUnfinished, WaitCompletion
<1> QED
  BY <1>1, <1>3, <1>4, <1>5, <1>6, <1>7, <1>9, <1>10, <1>11, <1>12, <1>13, <1>14, <1>15,
     <1>16, <1>17, <1>18, <1>19, <1>20, <1>21, <1>22, <1>23
  DEF Next, CallerStep, WorkerStep

\* The caller never takes back that the pool is being destroyed.
LEMMA StopMonotone ==
  ASSUME stop = TRUE, [Next]_vars PROVE stop' = TRUE
<1> USE DEF dispatchVars
<1>1. CASE \/ \E w \in Workers : SpawnWorker(w)
           \/ SpawnFails \/ EndUnwinding \/ ReturnEmpty
           \/ BeginInline \/ EndInline \/ ReturnInline \/ SetTask \/ SetUnfinished
           \/ Dispatch \/ NotifyWorkers
           \/ \E u \in 0 .. N : Execute(u)
  BY <1>1, Zenon
  DEF SpawnWorker, SpawnFails, EndUnwinding, ReturnEmpty, BeginInline, EndInline, ReturnInline,
      SetTask, SetUnfinished, Dispatch, NotifyWorkers, Execute
<1>2. CASE \/ SpinCompletion \/ StopSpinningForCompletion \/ LoadUnfinished
           \/ WaitCompletion \/ CollectException \/ Rethrow \/ SetStop \/ StopDispatch
           \/ StopNotify \/ JoinWorkers \/ Terminated \/ UNCHANGED vars
  BY <1>2, Zenon
  DEF SpinCompletion, StopSpinningForCompletion, LoadUnfinished, WaitCompletion,
      CollectException, Rethrow, SetStop, StopDispatch, StopNotify, JoinWorkers, Terminated,
      vars
<1>3. ASSUME NEW t \in Threads, RunStep(t) \/ WakeSpuriously(t) PROVE stop' = TRUE
  BY <1>3, Zenon
  DEF RunStep, Begin, EndBody, ClaimException, SaveException, WakeSpuriously
<1>4. ASSUME NEW w \in Workers,
             \/ SpinState(w) \/ StopSpinningForState(w) \/ WaitState(w) \/ ReloadState(w)
             \/ Exit(w) \/ Decide(w) \/ FinishRegion(w) \/ SignalCaller(w)
      PROVE  stop' = TRUE
  BY <1>4, Zenon
  DEF SpinState, StopSpinningForState, WaitState, ReloadState, Exit, Decide, FinishRegion,
      SignalCaller
<1>5. Caller \in Threads /\ Workers \subseteq Threads
  BY NAssumption DEF Caller, Threads, Workers
<1> QED
  BY <1>1, <1>2, <1>3, <1>4, <1>5 DEF Next, CallerStep, WorkerStep

LEMMA QuietStep ==
  ASSUME PcOK, DataOK, StopInv, CountInv, [Next]_vars PROVE QuietInv'
<1> USE DEF PcOK, DataOK
<1>1. CASE Dispatch \/ StopDispatch
  BY <1>1, NAssumption
  DEF Dispatch, StopDispatch, QuietInv, Dispatched, StopInv, Stopped, Goto, Caller, Threads
<1>2. ASSUME NEW w \in Workers, FinishRegion(w) PROVE QuietInv'
  BY <1>2, NAssumption
  DEF FinishRegion, CountInv, BusyInv, Busy, QuietInv, Dispatched, Goto, Caller, Threads, Workers
<1>3. ASSUME NEW w \in Workers, Exit(w) PROVE QuietInv'
  BY <1>3 DEF Exit, QuietInv, dispatchVars
<1>4. CASE Pending' = Pending
  <2>1. CASE Dispatched /\ ~Dispatched'
    BY <1>4, <2>1, DispatchedStep, NobodyPending DEF CountInv, QuietInv
  <2>2. CASE stop = TRUE
    BY <2>2, StopMonotone DEF QuietInv
  <2> QED
    BY <1>4, <2>1, <2>2 DEF CountInv, QuietInv
<1> QED
  BY <1>1, <1>2, <1>3, <1>4, PendingStep DEF CountInv

LEMMA CountsStep ==
  ASSUME PcOK, DataOK, StopInv, CountInv, [Next]_vars PROVE CountsPending'
<1>types. /\ pc \in [Threads -> CallerPcs \cup WorkerPcs]
          /\ Workers = 1 .. N - 1 /\ Workers \subseteq Threads
          /\ N \in Nat /\ used \in 0 .. N
          /\ state \in [epoch : Nat, used : 0 .. N]
          /\ last \in [Workers -> [epoch : Nat, used : 0 .. N]]
  BY NAssumption DEF PcOK, DataOK, Threads, Workers
<1> USE <1>types
<1> SUFFICES ASSUME Dispatched' PROVE unfinished' = Cardinality(Pending')
  BY DEF CountsPending
<1>1. CASE Dispatch
  <2>1. used >= 2 /\ unfinished' = used - 1
    BY <1>1 DEF Dispatch, CountInv, DispatchInv
  <2>2. \A w \in Workers : last'[w] # state'
    BY <1>1 DEF Dispatch, CountInv, SeenInv
  <2>3. state'.used = used
    BY <1>1 DEF Dispatch
  <2>4. Pending' = 1 .. used - 1
    BY <2>2, <2>3 DEF Pending
  <2> QED
    BY <2>1, <2>4, FS_Interval
<1>2. CASE StopDispatch
  BY <1>2 DEF StopDispatch, Dispatched, Goto
<1>3. CASE Dispatched /\ \E w \in Workers : FinishRegion(w)
  <2> PICK w \in Workers : FinishRegion(w)
    BY <1>3
  <2>1. w \in Pending /\ Pending' = Pending \ {w}
    <3>1. pc[w] = "finish" /\ UNCHANGED <<state, last>>
      BY DEF FinishRegion, dispatchVars
    <3>2. pc'[w] \in {"signal", "spin"} /\ \A v \in Workers : v # w => pc'[v] = pc[v]
      BY DEF FinishRegion, Goto
    <3>3. last[w] = state /\ w < state.used
      BY <3>1 DEF CountInv, BusyInv, Busy
    <3> QED
      BY <3>1, <3>2, <3>3 DEF Pending
  <2>2. unfinished' = unfinished - 1
    BY DEF FinishRegion
  <2> QED
    BY <1>3, <2>1, <2>2, PendingFinite, FS_RemoveElement, FS_CardinalityType
    DEF CountInv, CountsPending
<1>4. CASE Dispatched /\ ~(\E w \in Workers : FinishRegion(w) \/ Exit(w))
  <2>1. ~Dispatch /\ ~StopDispatch /\ ~SetUnfinished
    BY <1>4 DEF Dispatched, Dispatch, StopDispatch, SetUnfinished
  <2>2. Pending' = Pending
    BY <1>4, <2>1, PendingStep DEF CountInv
  <2>3. unfinished' = unfinished
    BY <1>4, <2>1, UnfinishedFrame
  <2> QED
    BY <1>4, <2>2, <2>3 DEF CountInv, CountsPending
<1>5. ASSUME NEW w \in Workers, Exit(w) PROVE ~Dispatched
  BY <1>5 DEF Exit, StopInv, Stopped, Dispatched
<1> QED
  BY <1>1, <1>2, <1>3, <1>4, <1>5, DispatchedStep

LEMMA CountStep ==
  PcOK /\ DataOK /\ StopInv /\ CountInv /\ [Next]_vars => CountInv'
<1> SUFFICES ASSUME PcOK, DataOK, StopInv, CountInv, [Next]_vars PROVE CountInv'
  OBVIOUS
<1>1. SeenInv'
  BY SeenStep DEF CountInv
<1>2. BusyInv'
  BY BusyStep
<1>3. DispatchInv'
  BY DispatchInvStep DEF CountInv
<1>4. QuietInv'
  BY QuietStep
<1>5. CountsPending'
  BY CountsStep
<1> QED
  BY <1>1, <1>2, <1>3, <1>4, <1>5 DEF CountInv

-----------------------------------------------------------------------------
(* What has become of the task on each index *)

LEMMA BodyInit == Init => BodyInv
  BY NAssumption
  DEF Init, BodyInv, BodyOfThreads, BodyOfWorkers, BodyOfCaller, InRegion, Dispatched, Caller,
      Threads, Workers

LEMMA BodyStep ==
  PcOK /\ DataOK /\ StopInv /\ CountInv /\ BodyInv /\ [Next]_vars => BodyInv'
<1> SUFFICES ASSUME PcOK, DataOK, StopInv, CountInv, BodyInv, [Next]_vars PROVE BodyInv'
  OBVIOUS
<1>types. /\ pc \in [Threads -> CallerPcs \cup WorkerPcs]
          /\ body \in [Threads -> {"pending", "running"} \cup Ended]
          /\ used \in 0 .. N
          /\ 0 \in Threads /\ Workers \subseteq Threads /\ Threads \subseteq Int
          /\ \A t \in Threads : t # 0 => t \in Workers
          /\ \A w \in Workers : w # 0
  BY NAssumption DEF PcOK, DataOK, Threads, Workers
<1> USE <1>types DEF Caller, Goto, Ended, callVars
<1> DEFINE Fresh == {"empty", "inline", "setTask", "setUnfinished", "dispatch"}
           Inside == {"body", "claim", "save", "finish"}
<1>a. BodyOfThreads /\ BodyOfWorkers /\ BodyOfCaller
  BY DEF BodyInv
<1>b. DispatchInv /\ BusyInv
  BY DEF CountInv
<1>c. CountInv'
  BY CountStep
\* Steps of the caller that neither run the task nor start a call or a region.
<1>d. ASSUME NEW l, Goto(Caller, l), UNCHANGED <<used, body>>, BodyOfCaller',
             Pending' = Pending, InRegion' => InRegion, l \notin Inside,
             l \in Fresh => pc[Caller] \in Fresh
      PROVE  BodyInv'
  <2>1. \A w \in Workers : pc'[w] = pc[w]
    BY <1>d
  <2>2. BodyOfThreads'
    BY <1>a, <1>d DEF BodyOfThreads
  <2>3. BodyOfWorkers'
    BY <1>a, <1>d, <2>1 DEF BodyOfWorkers
  <2> QED
    BY <1>d, <2>2, <2>3 DEF BodyInv
\* Steps of a worker outside the task.
<1>e. ASSUME UNCHANGED <<used, body>>, Pending' = Pending,
             \/ pc'[Caller] = pc[Caller]
             \/ pc[Caller] \in {"wait", "parked"} /\ pc'[Caller] \in {"wait", "parked"},
             \A w \in Workers : \/ pc'[w] = pc[w]
                                \/ pc[w] \notin Inside /\ pc'[w] \notin Inside
      PROVE  BodyInv'
  <2>1. BodyOfThreads'
    BY <1>a, <1>e DEF BodyOfThreads
  <2>2. BodyOfWorkers'
    BY <1>a, <1>e DEF BodyOfWorkers, InRegion, Dispatched, Busy
  <2>3. BodyOfCaller'
    BY <1>a, <1>e DEF BodyOfCaller
  <2> QED
    BY <2>1, <2>2, <2>3 DEF BodyInv
<1>1. ASSUME NEW w \in Workers, SpawnWorker(w), Pending' = Pending PROVE BodyInv'
  <2>1. pc[w] = "unborn" /\ w # Caller
    BY <1>1 DEF SpawnWorker, Unborn
  <2>2. /\ \A v \in Workers : pc'[v] = pc[v] \/ (pc[v] = "unborn" /\ pc'[v] = "spin")
        /\ pc[Caller] = "spawning" /\ pc'[Caller] \in {"idle", "spawning"}
        /\ UNCHANGED <<used, body>>
    BY <1>1, <2>1 DEF SpawnWorker
  <2>3. BodyOfThreads'
    BY <1>a, <2>2 DEF BodyOfThreads
  <2>4. BodyOfWorkers' /\ BodyOfCaller'
    BY <1>a, <2>2 DEF BodyOfWorkers, BodyOfCaller, InRegion, Dispatched
  <2> QED
    BY <2>3, <2>4 DEF BodyInv
<1>2. ASSUME SpawnFails \/ EndUnwinding \/ JoinWorkers \/ ReturnEmpty \/ ReturnInline,
             Pending' = Pending
      PROVE  BodyInv'
  BY <1>2, <1>d
  DEF SpawnFails, EndUnwinding, JoinWorkers, ReturnEmpty, ReturnInline, BodyOfCaller, InRegion,
      Dispatched
<1>3. ASSUME NEW u \in 0 .. N, Execute(u) PROVE BodyInv'
  <2>1. BodyOfThreads'
    BY <1>3, <1>b DEF Execute, BodyOfThreads, BusyInv, Busy, Dispatched
  <2>2. BodyOfWorkers' /\ BodyOfCaller'
    BY <1>3, <1>b DEF Execute, BodyOfWorkers, BodyOfCaller, InRegion, Dispatched, BusyInv, Busy
  <2> QED
    BY <2>1, <2>2 DEF BodyInv
<1>4. ASSUME BeginInline \/ EndInline, Pending' = Pending PROVE BodyInv'
  <2>1. ~Dispatched /\ pc'[Caller] \in {"inlineBody", "inlined"} /\ used = 1
    BY <1>4, <1>a DEF BeginInline, EndInline, Dispatched, BodyOfCaller
  <2>2. BodyOfThreads'
    BY <1>4, <1>a, <1>b, <2>1 DEF BeginInline, EndInline, BodyOfThreads, BusyInv, Busy
  <2>3. BodyOfWorkers'
    BY <1>4, <1>a, <2>1 DEF BeginInline, EndInline, BodyOfWorkers, InRegion, Dispatched
  <2>4. BodyOfCaller'
    BY <1>4, <1>a, <2>1 DEF BeginInline, EndInline, BodyOfCaller
  <2> QED
    BY <2>2, <2>3, <2>4 DEF BodyInv
<1>5. ASSUME SetTask \/ SetUnfinished, Pending' = Pending PROVE BodyInv'
  BY <1>5, <1>d DEF SetTask, SetUnfinished, BodyOfCaller, InRegion, Dispatched
<1>6. CASE Dispatch
  <2>1. \A t \in Threads : body'[t] = "pending"
    BY <1>6, <1>a DEF Dispatch, BodyOfThreads
  <2>2. pc[Caller] = "dispatch" /\ pc'[Caller] = "notify" /\ UNCHANGED used
    BY <1>6 DEF Dispatch
  <2>3. \A w \in Workers : pc'[w] = pc[w] /\ pc[w] \notin Busy
    BY <1>6, <1>b DEF Dispatch, BusyInv, Dispatched
  <2>4. \A w \in Workers : w < used' => w \in Pending'
    BY <1>6 DEF Dispatch, Pending, CountInv, SeenInv, DataOK
  <2> QED
    BY <2>1, <2>2, <2>3, <2>4
    DEF BodyInv, BodyOfThreads, BodyOfWorkers, BodyOfCaller, InRegion, Dispatched, Busy
<1>7. CASE SetStop \/ StopDispatch
  BY <1>7, <1>a
  DEF SetStop, StopDispatch, BodyInv, BodyOfThreads, BodyOfWorkers, BodyOfCaller, InRegion,
      Dispatched
<1>8. ASSUME NotifyWorkers \/ StopNotify, Pending' = Pending PROVE BodyInv'
  <2>1. \A w \in Workers : pc'[w] = pc[w] \/ (pc[w] = "parked" /\ pc'[w] = "wait")
    BY <1>8 DEF NotifyWorkers, StopNotify, WakeWorkers
  <2>2. \/ pc[Caller] = "notify" /\ pc'[Caller] = "begin"
        \/ pc[Caller] = "stopNotify" /\ pc'[Caller] = "join"
    BY <1>8 DEF NotifyWorkers, StopNotify, WakeWorkers
  <2>3. UNCHANGED <<used, body>>
    BY <1>8 DEF NotifyWorkers, StopNotify
  <2>4. BodyOfThreads'
    BY <1>a, <2>1, <2>2, <2>3 DEF BodyOfThreads
  <2>5. BodyOfWorkers'
    BY <1>8, <1>a, <2>1, <2>2, <2>3 DEF BodyOfWorkers, InRegion, Dispatched, Busy
  <2>6. BodyOfCaller'
    BY <1>a, <2>2, <2>3 DEF BodyOfCaller
  <2> QED
    BY <2>4, <2>5, <2>6 DEF BodyInv
<1>9. ASSUME SpinCompletion \/ StopSpinningForCompletion \/ LoadUnfinished \/ WaitCompletion,
             Pending' = Pending
      PROVE  BodyInv'
  <2>1. BodyOfCaller'
    BY <1>9, <1>a, <1>b
    DEF SpinCompletion, StopSpinningForCompletion, LoadUnfinished, WaitCompletion,
        BodyOfCaller, DispatchInv, Dispatched
  <2> QED
    BY <1>9, <1>d, <2>1
    DEF SpinCompletion, StopSpinningForCompletion, LoadUnfinished, WaitCompletion, InRegion,
        Dispatched
<1>10. ASSUME CollectException \/ Rethrow, Pending' = Pending PROVE BodyInv'
  <2>1. BodyOfCaller'
    BY <1>10, <1>a DEF CollectException, Rethrow, BodyOfCaller
  <2> QED
    BY <1>10, <1>d, <2>1 DEF CollectException, Rethrow, InRegion, Dispatched

<1>11. ASSUME NEW t \in Threads, Begin(t), Pending' = Pending PROVE BodyInv'
  <2>1. /\ pc[t] = "begin" /\ Goto(t, "body") /\ UNCHANGED used
        /\ body' = [body EXCEPT ![t] = "running"]
    BY <1>11 DEF Begin
  <2>2. t < used
    BY <2>1, <1>b DEF BusyInv, Busy, DispatchInv, Dispatched
  <2>7. pc'[Caller] \notin Fresh
    BY <2>1, <1>b DEF BusyInv, Busy, Dispatched
  <2>3. BodyOfThreads'
    BY <2>1, <2>2, <2>7, <1>a DEF BodyOfThreads
  <2>4. t \in Workers => t \in Pending /\ Dispatched
    BY <2>1, <1>b DEF BusyInv, Busy, Pending
  <2>5. BodyOfWorkers'
    BY <1>11, <2>1, <2>4, <1>a DEF BodyOfWorkers, InRegion, Dispatched, Busy
  <2>6. BodyOfCaller'
    BY <2>1, <1>a DEF BodyOfCaller
  <2> QED
    BY <2>3, <2>5, <2>6 DEF BodyInv
<1>12. ASSUME NEW t \in Threads, EndBody(t), Pending' = Pending PROVE BodyInv'
  <2> PICK how \in {"returned", "threw"} :
        /\ pc[t] = "body" /\ UNCHANGED used
        /\ body' = [body EXCEPT ![t] = how]
        /\ Goto(t, IF how = "threw" THEN "claim" ELSE AfterRun(t))
    BY <1>12 DEF EndBody
  <2>1. t < used
    BY <1>b DEF BusyInv, Busy, DispatchInv, Dispatched
  <2>2. BodyOfThreads'
    BY <2>1, <1>a DEF BodyOfThreads, AfterRun
  <2>3. BodyOfWorkers'
    BY <1>12, <1>a, <1>b DEF BodyOfWorkers, InRegion, Dispatched, Busy, AfterRun, Pending, BusyInv
  <2>4. BodyOfCaller'
    BY <1>a DEF BodyOfCaller, AfterRun
  <2> QED
    BY <2>2, <2>3, <2>4 DEF BodyInv
<1>13. ASSUME NEW t \in Threads, ClaimException(t) \/ SaveException(t), Pending' = Pending
       PROVE  BodyInv'
  <2>1. BodyOfThreads'
    BY <1>13, <1>a DEF ClaimException, SaveException, BodyOfThreads, AfterRun
  <2>2. BodyOfWorkers'
    BY <1>13, <1>a
    DEF ClaimException, SaveException, BodyOfWorkers, BodyOfThreads, AfterRun, InRegion,
        Dispatched, Busy
  <2>3. BodyOfCaller'
    BY <1>13, <1>a DEF ClaimException, SaveException, BodyOfCaller, BodyOfThreads, AfterRun
  <2> QED
    BY <2>1, <2>2, <2>3 DEF BodyInv
<1>14. ASSUME NEW w \in Workers, NEW l \in {"spin", "wait", "parked", "reload", "loaded", "begin"},
              pc[w] \notin Inside, Goto(w, l), UNCHANGED <<used, body>>, Pending' = Pending
       PROVE  BodyInv'
  BY <1>14, <1>e
<1>15. ASSUME NEW w \in Workers, SpinState(w) \/ StopSpinningForState(w), Pending' = Pending
       PROVE  BodyInv'
  BY <1>15, <1>14 DEF SpinState, StopSpinningForState
<1>16. ASSUME NEW w \in Workers, WaitState(w) \/ ReloadState(w), Pending' = Pending
       PROVE  BodyInv'
  BY <1>16, <1>14 DEF WaitState, ReloadState
<1>17. ASSUME NEW w \in Workers, Decide(w), Pending' = Pending PROVE BodyInv'
  BY <1>17, <1>14 DEF Decide
<1>18. ASSUME NEW w \in Workers, Exit(w) PROVE BodyInv'
  <2>1. pc[Caller] \in Stopped /\ pc[w] = "loaded" /\ Goto(w, "exited") /\ UNCHANGED <<used, body>>
    BY <1>18 DEF Exit, StopInv
  <2> QED
    BY <2>1, <1>a
    DEF BodyInv, BodyOfThreads, BodyOfWorkers, BodyOfCaller, InRegion, Dispatched, Stopped
<1>19. ASSUME NEW w \in Workers, FinishRegion(w) PROVE BodyInv'
  <2>1. /\ pc[w] = "finish" /\ UNCHANGED <<used, body, state, last>>
        /\ Goto(w, "signal") \/ Goto(w, "spin")
    BY <1>19 DEF FinishRegion, dispatchVars
  <2>2. Pending' = Pending \ {w}
    BY <2>1, <1>b DEF Pending, BusyInv, Busy
  <2>3. BodyOfThreads'
    BY <2>1, <1>a DEF BodyOfThreads
  <2>4. BodyOfWorkers'
    BY <2>1, <2>2, <1>a DEF BodyOfWorkers, InRegion, Dispatched, Busy
  <2>5. BodyOfCaller'
    BY <2>1, <1>a DEF BodyOfCaller
  <2> QED
    BY <2>3, <2>4, <2>5 DEF BodyInv
<1>20. ASSUME NEW w \in Workers, SignalCaller(w), Pending' = Pending PROVE BodyInv'
  <2>1. /\ pc'[w] = "spin" /\ pc[w] = "signal"
        /\ \A v \in Workers : v # w => pc'[v] = pc[v]
        /\ pc'[Caller] = IF pc[Caller] = "parked" THEN "wait" ELSE pc[Caller]
        /\ UNCHANGED <<used, body>>
    BY <1>20 DEF SignalCaller
  <2> QED
    BY <1>20, <2>1, <1>e
<1>21. ASSUME NEW t \in Threads, WakeSpuriously(t), Pending' = Pending PROVE BodyInv'
  BY <1>21, <1>e DEF WakeSpuriously
<1>22. ASSUME Terminated \/ UNCHANGED vars, Pending' = Pending PROVE BodyInv'
  BY <1>22, <1>e DEF Terminated, vars
<1>23. Caller \in Threads /\ Workers \subseteq Threads
  OBVIOUS
<1>24. SeenInv /\ BusyInv
  BY DEF CountInv
<1> HIDE DEF Caller, Goto
<1>25. CASE Pending' = Pending
  BY <1>1, <1>2, <1>3, <1>4, <1>5, <1>6, <1>7, <1>8, <1>9, <1>10, <1>11, <1>12, <1>13, <1>15,
     <1>16, <1>17, <1>18, <1>19, <1>20, <1>21, <1>22, <1>23, <1>25
  DEF Next, CallerStep, WorkerStep, RunStep
<1> QED
  BY <1>6, <1>7, <1>18, <1>19, <1>24, <1>25, PendingStep

-----------------------------------------------------------------------------
(* Who holds an exception *)

LEMMA ExceptionInit == Init => ExceptionInv
  BY NAssumption DEF Init, ExceptionInv, Dispatched, Caller, Threads

\* A thread that is about to run the task has not run it in this region.
LEMMA NobodyRunsTwice ==
  ASSUME PcOK, DataOK, CountInv, BodyInv, NEW t \in Threads, pc[t] = "begin"
  PROVE  Dispatched /\ task = call /\ t < used /\ body[t] = "pending"
<1>types. /\ \A s \in Threads : s = 0 \/ s \in Workers
          /\ used \in Int
  BY DEF Threads, Workers, DataOK
<1>1. CASE t = 0
  <2>1. Dispatched
    BY <1>1 DEF Dispatched, Caller
  <2>2. task = call /\ used >= 2
    BY <2>1 DEF CountInv, DispatchInv
  <2> QED
    BY <1>types, <1>1, <2>1, <2>2 DEF BodyInv, BodyOfCaller, Caller
<1>2. CASE t \in Workers
  <2>1. Dispatched /\ t \in Pending /\ t < state.used
    BY <1>2 DEF CountInv, BusyInv, Busy, Pending
  <2> QED
    BY <1>2, <2>1 DEF CountInv, DispatchInv, BodyInv, BodyOfWorkers, InRegion, Busy
<1> QED
  BY <1>1, <1>2, <1>types

\* The two flags read as propositions, for the provers that do not mix the two.
LEMMA ReadStored ==
  ASSUME FlagsOK
  PROVE  /\ \A t \in Threads : ClaimException(t) =>
              /\ pc[t] = "claim" /\ stored' = TRUE /\ UNCHANGED <<exception, body>>
              /\ \/ stored = TRUE /\ Goto(t, AfterRun(t))
                 \/ stored # TRUE /\ Goto(t, "save")
         /\ CollectException =>
              /\ pc[Caller] = "collect" /\ stored' # TRUE
              /\ UNCHANGED <<exception, used, body>>
              /\ \/ stored = TRUE /\ Goto(Caller, "rethrow") /\ UNCHANGED outcome
                 \/ stored # TRUE /\ Goto(Caller, "idle") /\ outcome' = NoException
<1>1. stored = TRUE \/ stored = FALSE
  BY Zenon DEF FlagsOK
<1>2. CASE stored = TRUE
  BY <1>2, Zenon DEF ClaimException, CollectException, callVars
<1>3. CASE stored = FALSE
  BY <1>3, Zenon DEF ClaimException, CollectException, callVars
<1> QED
  BY <1>1, <1>2, <1>3, Zenon

LEMMA ExceptionStep ==
  PcOK /\ DataOK /\ FlagsOK /\ CountInv /\ BodyInv /\ ExceptionInv /\ [Next]_vars
    => ExceptionInv'
<1> SUFFICES ASSUME PcOK, DataOK, FlagsOK, CountInv, BodyInv, ExceptionInv, [Next]_vars
             PROVE  ExceptionInv'
  OBVIOUS
<1>types. /\ pc \in [Threads -> CallerPcs \cup WorkerPcs]
          /\ body \in [Threads -> {"pending", "running"} \cup Ended]
          /\ 0 \in Threads /\ Workers \subseteq Threads
          /\ \A t \in Threads : t # 0 => t \in Workers
          /\ \A w \in Workers : w # 0
  BY NAssumption DEF PcOK, DataOK, Threads, Workers
<1> USE <1>types DEF Caller, Goto, dispatchVars, exceptionVars, callVars
<1> DEFINE Collecting == Dispatched \/ pc[Caller] = "collect"
           Apart == {"claim", "save", "rethrow"}
<1>a. /\ \A w \in Workers : pc[w] \in Busy => Dispatched
      /\ \A t \in Threads : pc[t] = "save" => Dispatched
  BY DEF CountInv, BusyInv, Busy, Dispatched
<1>b. ASSUME UNCHANGED <<stored, exception, body>>, Collecting' <=> Collecting,
             \A t \in Threads : pc'[t] = pc[t] \/ (pc[t] \notin Apart /\ pc'[t] \notin Apart)
      PROVE  ExceptionInv'
  BY <1>b DEF ExceptionInv
<1>c. ASSUME UNCHANGED <<stored, exception, body>>, NEW l, Goto(Caller, l),
             pc[Caller] \notin Apart, l \notin Apart, Collecting' <=> Collecting
      PROVE  ExceptionInv'
  BY <1>b, <1>c
<1>d. ASSUME NEW w \in Workers, NEW l, Goto(w, l), pc[w] \notin Apart, l \notin Apart,
             UNCHANGED <<stored, exception, body>>
      PROVE  ExceptionInv'
  BY <1>b, <1>d DEF Dispatched
\* No exception is held outside a region, whatever happens to the bodies there.
<1>e. ASSUME ~Collecting, ~Collecting', pc[Caller] \notin Apart, pc'[Caller] \notin Apart,
             UNCHANGED <<stored, exception>>, \A w \in Workers : pc'[w] = pc[w]
      PROVE  ExceptionInv'
  BY <1>a, <1>e DEF ExceptionInv, Busy
<1>1. ASSUME NEW w \in Workers, SpawnWorker(w) PROVE ExceptionInv'
  <2>1. pc[w] = "unborn" /\ w # Caller
    BY <1>1 DEF SpawnWorker, Unborn
  <2>2. /\ pc[Caller] = "spawning" /\ pc'[Caller] \in {"idle", "spawning"}
        /\ \A v \in Workers : pc'[v] = pc[v] \/ (pc[v] = "unborn" /\ pc'[v] = "spin")
        /\ UNCHANGED <<stored, exception, body>>
    BY <1>1, <2>1 DEF SpawnWorker
  <2>3. ~Collecting /\ ~Collecting'
    BY <2>2 DEF Dispatched
  <2> QED
    BY <1>b, <2>2, <2>3
<1>2. CASE SpawnFails \/ EndUnwinding \/ JoinWorkers \/ ReturnEmpty
  BY <1>2, <1>c DEF SpawnFails, EndUnwinding, JoinWorkers, ReturnEmpty, Dispatched
<1>3. ASSUME NEW u \in 0 .. N, Execute(u) PROVE ExceptionInv'
  BY <1>3, <1>e DEF Execute, Dispatched
<1>4. CASE BeginInline \/ EndInline \/ ReturnInline
  BY <1>4, <1>e DEF BeginInline, EndInline, ReturnInline, Dispatched
<1>5. CASE SetTask \/ SetUnfinished \/ SetStop \/ StopDispatch
  BY <1>5, <1>e DEF SetTask, SetUnfinished, SetStop, StopDispatch, Dispatched
<1>6. CASE Dispatch
  <2>1. \A t \in Threads : body'[t] = "pending"
    BY <1>6 DEF Dispatch, BodyInv, BodyOfThreads
  <2>2. /\ pc[Caller] = "dispatch" /\ pc'[Caller] = "notify"
        /\ \A w \in Workers : pc'[w] = pc[w]
        /\ UNCHANGED <<stored, exception>>
    BY <1>6 DEF Dispatch
  <2>3. \A t \in Threads : pc'[t] # "save"
    BY <1>a, <2>2 DEF Dispatched
  <2> QED
    BY <2>1, <2>2, <2>3 DEF ExceptionInv, Dispatched
<1>7. CASE NotifyWorkers \/ StopNotify
  <2>1. \A w \in Workers : pc'[w] = pc[w] \/ (pc[w] = "parked" /\ pc'[w] = "wait")
    BY <1>7 DEF NotifyWorkers, StopNotify, WakeWorkers
  <2>2. \/ pc[Caller] = "notify" /\ pc'[Caller] = "begin"
        \/ pc[Caller] = "stopNotify" /\ pc'[Caller] = "join"
    BY <1>7 DEF NotifyWorkers, StopNotify, WakeWorkers
  <2>3. UNCHANGED <<stored, exception, body>>
    BY <1>7 DEF NotifyWorkers, StopNotify
  <2>4. Collecting' <=> Collecting
    BY <2>2 DEF Dispatched
  <2> QED
    BY <1>b, <2>1, <2>2, <2>3, <2>4
<1>8. CASE SpinCompletion \/ StopSpinningForCompletion \/ LoadUnfinished \/ WaitCompletion
  BY <1>8, <1>c
  DEF SpinCompletion, StopSpinningForCompletion, LoadUnfinished, WaitCompletion, Dispatched
<1>9. CASE CollectException
  <2>1. ~Dispatched /\ ~Collecting'
    BY <1>9, ReadStored DEF Dispatched
  <2>2. \A t \in Threads : pc'[t] # "save"
    BY <1>9, <1>a, <2>1, ReadStored
  <2>3. stored' # TRUE
    BY <1>9, ReadStored
  <2>4. pc'[Caller] = "rethrow" => exception' \in Threads /\ body'[exception'] = "threw"
    BY <1>9, <1>a, <2>1, ReadStored DEF ExceptionInv
  <2> QED
    BY <2>1, <2>2, <2>3, <2>4 DEF ExceptionInv
<1>10. CASE Rethrow
  <2>1. pc[Caller] = "rethrow" /\ Goto(Caller, "idle") /\ UNCHANGED stored
    BY <1>10 DEF Rethrow
  <2>2. stored # TRUE /\ \A t \in Threads : pc'[t] # "save"
    BY <1>a, <2>1 DEF ExceptionInv, Dispatched
  <2> QED
    BY <2>1, <2>2 DEF ExceptionInv, Dispatched
<1>11. ASSUME NEW t \in Threads, Begin(t) PROVE ExceptionInv'
  <2>1. /\ pc[t] = "begin" /\ Goto(t, "body") /\ UNCHANGED <<stored, exception>>
        /\ body' = [body EXCEPT ![t] = "running"]
    BY <1>11 DEF Begin
  <2>2. Collecting' <=> Collecting
    BY <2>1 DEF Dispatched
  <2>3. Dispatched
    BY <2>1, <1>a DEF Dispatched, Busy
  <2>4. exception \in Threads /\ body[exception] = "threw" => exception # t
    BY <2>1, <2>3, NobodyRunsTwice DEF Dispatched
  <2> QED
    BY <2>1, <2>2, <2>4 DEF ExceptionInv
<1>12. ASSUME NEW t \in Threads, EndBody(t) PROVE ExceptionInv'
  <2> PICK how \in Ended :
        /\ pc[t] = "body" /\ UNCHANGED <<stored, exception>>
        /\ body' = [body EXCEPT ![t] = how]
        /\ Goto(t, IF how = "threw" THEN "claim" ELSE AfterRun(t))
    BY <1>12 DEF EndBody
  <2>1. Collecting' <=> Collecting
    BY DEF Dispatched, AfterRun
  <2>2. body[t] = "running"
    BY DEF BodyInv, BodyOfThreads
  <2>3. \A s \in Threads : s # t => pc'[s] = pc[s] /\ body'[s] = body[s]
    OBVIOUS
  <2>4. pc'[t] \notin {"save", "rethrow"} /\ (body'[t] = "threw" => pc'[t] = "claim")
    BY DEF AfterRun
  <2> QED
    BY <2>1, <2>2, <2>3, <2>4 DEF ExceptionInv
<1>13. ASSUME NEW t \in Threads, ClaimException(t) PROVE ExceptionInv'
  <2>1. /\ pc[t] = "claim" /\ stored' = TRUE /\ UNCHANGED <<exception, body>>
        /\ \/ stored = TRUE /\ Goto(t, AfterRun(t))
           \/ stored # TRUE /\ Goto(t, "save")
    BY <1>13, ReadStored
  <2>2. Dispatched /\ Dispatched'
    BY <2>1, <1>a DEF Dispatched, Busy, AfterRun
  <2>3. CASE stored = TRUE
    <3>1. \A s \in Threads : pc'[s] = "save" <=> pc[s] = "save"
      BY <2>1, <2>3 DEF AfterRun
    <3> QED
      BY <2>1, <2>2, <2>3, <3>1 DEF ExceptionInv, Dispatched
  <2>4. CASE stored # TRUE
    <3>1. \A s \in Threads : pc[s] # "save"
      BY <2>4 DEF ExceptionInv
    <3>2. \A s \in Threads : pc'[s] = "save" <=> s = t
      BY <2>1, <2>4, <3>1
    <3> QED
      BY <2>1, <2>2, <3>2 DEF ExceptionInv, Dispatched
  <2> QED
    BY <2>3, <2>4
<1>14. ASSUME NEW t \in Threads, SaveException(t) PROVE ExceptionInv'
  <2>1. /\ pc[t] = "save" /\ Goto(t, AfterRun(t)) /\ exception' = t /\ UNCHANGED <<stored, body>>
    BY <1>14 DEF SaveException
  <2>2. Dispatched /\ Dispatched'
    BY <2>1, <1>a DEF Dispatched, AfterRun
  <2>3. body[t] = "threw" /\ stored = TRUE
    BY <2>1 DEF BodyInv, BodyOfThreads, ExceptionInv
  <2>4. \A s \in Threads : pc'[s] = "save" => pc[s] = "save"
    BY <2>1 DEF AfterRun
  <2> QED
    BY <2>1, <2>2, <2>3, <2>4 DEF ExceptionInv
<1>15. ASSUME NEW w \in Workers, SpinState(w) \/ StopSpinningForState(w) PROVE ExceptionInv'
  BY <1>15, <1>d DEF SpinState, StopSpinningForState
<1>16. ASSUME NEW w \in Workers, WaitState(w) \/ ReloadState(w) PROVE ExceptionInv'
  BY <1>16, <1>d DEF WaitState, ReloadState
<1>17. ASSUME NEW w \in Workers, Exit(w) \/ Decide(w) PROVE ExceptionInv'
  BY <1>17, <1>d DEF Exit, Decide
<1>18. ASSUME NEW w \in Workers, FinishRegion(w) PROVE ExceptionInv'
  BY <1>18, <1>d DEF FinishRegion
<1>19. ASSUME NEW w \in Workers, SignalCaller(w) PROVE ExceptionInv'
  <2>1. /\ pc'[w] = "spin" /\ pc[w] = "signal"
        /\ \A v \in Workers : v # w => pc'[v] = pc[v]
        /\ pc'[Caller] = IF pc[Caller] = "parked" THEN "wait" ELSE pc[Caller]
        /\ UNCHANGED <<stored, exception, body>>
    BY <1>19 DEF SignalCaller
  <2> QED
    BY <1>b, <2>1 DEF Dispatched
<1>20. ASSUME NEW t \in Threads, WakeSpuriously(t) PROVE ExceptionInv'
  BY <1>20, <1>b DEF WakeSpuriously, Dispatched
<1>21. CASE Terminated \/ UNCHANGED vars
  BY <1>21, <1>b DEF Terminated, vars, Dispatched
<1> HIDE DEF Caller, Goto
<1>22. Caller \in Threads
  BY DEF Caller
<1> QED
  BY <1>1, <1>2, <1>3, <1>4, <1>5, <1>6, <1>7, <1>8, <1>9, <1>10, <1>11, <1>12, <1>13, <1>14,
     <1>15, <1>16, <1>17, <1>18, <1>19, <1>20, <1>21, <1>22
  DEF Next, CallerStep, WorkerStep, RunStep

-----------------------------------------------------------------------------
(* Waiting *)

\* How many participants can be missing, and the caller's copy of that number.
RangeInv == unfinished \in 0 .. N - 1 /\ left \in 0 .. N - 1

WaitInv == LeftInv /\ RangeInv /\ NoLostWakeup

LEMMA LeftFrame ==
  ASSUME [Next]_vars PROVE LoadUnfinished \/ left' = left
<1> DEFINE Goal == LoadUnfinished \/ left' = left
<1>1. CASE \/ \E w \in Workers : SpawnWorker(w)
           \/ SpawnFails \/ EndUnwinding \/ ReturnEmpty
           \/ BeginInline \/ EndInline \/ ReturnInline \/ SetTask \/ SetUnfinished \/ Dispatch
           \/ NotifyWorkers
           \/ \E u \in 0 .. N : Execute(u)
  BY <1>1, Zenon
  DEF SpawnWorker, SpawnFails, EndUnwinding, ReturnEmpty, BeginInline, EndInline, ReturnInline,
      SetTask, SetUnfinished, Dispatch, NotifyWorkers, Execute
<1>2. CASE \/ SpinCompletion \/ StopSpinningForCompletion \/ WaitCompletion
           \/ CollectException \/ Rethrow \/ SetStop \/ StopDispatch
           \/ StopNotify \/ JoinWorkers \/ Terminated \/ UNCHANGED vars
  BY <1>2, Zenon
  DEF SpinCompletion, StopSpinningForCompletion, WaitCompletion,
      CollectException, Rethrow, SetStop, StopDispatch, StopNotify, JoinWorkers, Terminated, vars
<1>3. ASSUME NEW t \in Threads, RunStep(t) \/ WakeSpuriously(t) PROVE Goal
  BY <1>3, Zenon
  DEF RunStep, Begin, EndBody, ClaimException, SaveException, WakeSpuriously
<1>4. ASSUME NEW w \in Workers,
             \/ SpinState(w) \/ StopSpinningForState(w) \/ WaitState(w) \/ ReloadState(w)
             \/ Exit(w) \/ Decide(w) \/ FinishRegion(w) \/ SignalCaller(w)
      PROVE  Goal
  BY <1>4, Zenon
  DEF SpinState, StopSpinningForState, WaitState, ReloadState, Exit, Decide, FinishRegion,
      SignalCaller
<1>5. Caller \in Threads /\ Workers \subseteq Threads
  BY NAssumption DEF Caller, Threads, Workers
<1> QED
  BY <1>1, <1>2, <1>3, <1>4, <1>5 DEF Next, CallerStep, WorkerStep

LEMMA RangeStep ==
  ASSUME PcOK, DataOK, CountInv, RangeInv, [Next]_vars PROVE RangeInv'
<1>1. unfinished' \in 0 .. N - 1
  <2>1. CASE SetUnfinished
    BY <2>1, NAssumption DEF SetUnfinished, CountInv, DispatchInv, DataOK
  <2>2. ASSUME NEW w \in Workers, FinishRegion(w) PROVE unfinished' \in 0 .. N - 1
    <3>1. Dispatched /\ w \in Pending
      BY <2>2 DEF FinishRegion, CountInv, BusyInv, Busy, Pending
    <3>2. unfinished # 0
      BY <3>1, PendingFinite, FS_EmptySet DEF CountInv, CountsPending
    <3> QED
      BY <2>2, <3>2, NAssumption DEF FinishRegion, RangeInv
  <2>3. CASE unfinished' = unfinished
    BY <2>3 DEF RangeInv
  <2> QED
    BY <2>1, <2>2, <2>3, UnfinishedFrame
<1>2. left' \in 0 .. N - 1
  BY LeftFrame DEF RangeInv, LoadUnfinished
<1> QED
  BY <1>1, <1>2 DEF RangeInv

LEMMA WaitStep ==
  PcOK /\ DataOK /\ CountInv /\ WaitInv /\ [Next]_vars => WaitInv'
<1> SUFFICES ASSUME PcOK, DataOK, CountInv, WaitInv, [Next]_vars PROVE WaitInv'
  OBVIOUS
<1>types. /\ pc \in [Threads -> CallerPcs \cup WorkerPcs]
          /\ last \in [Workers -> [epoch : Nat, used : 0 .. N]]
          /\ 0 \in Threads /\ Workers \subseteq Threads
          /\ \A w \in Workers : w # 0
          /\ left \in Int /\ unfinished \in Int
  BY NAssumption DEF PcOK, DataOK, Threads, Workers
<1> DEFINE WorkersWake ==
             \A w \in Workers : pc[w] = "parked" /\ Word(state) # Word(last[w])
               => pc[Caller] \in {"notify", "stopNotify"}
           CallerWakes ==
             pc[Caller] = "parked" /\ unfinished = 0 => \E w \in Workers : pc[w] = "signal"
           Wakes == LeftInv /\ WorkersWake /\ CallerWakes
           Asleep == {"wait", "parked"}
<1>a. Wakes
  BY DEF WaitInv, NoLostWakeup
<1>b. SUFFICES Wakes'
  BY RangeStep DEF WaitInv, NoLostWakeup
<1> HIDE DEF WaitInv
<1> USE <1>types DEF Caller, Goto, LeftInv, dispatchVars
\* Word stays as it is in memory unless a step stores another one.
<1>c. UNCHANGED state => UNCHANGED Word(state)
  BY DEF Word
<1>d. ASSUME NEW l, Goto(Caller, l), UNCHANGED <<state, last>>,
             pc[Caller] \notin {"notify", "stopNotify"}, l \notin Asleep
      PROVE  Wakes'
  BY <1>a, <1>c, <1>d
\* A worker's step leaves the caller's words alone and does not put the worker to sleep.
<1>e. ASSUME NEW w \in Workers, NEW l, Goto(w, l), pc[w] # "signal", l # "parked",
             UNCHANGED <<state, unfinished, left>>,
             \A v \in Workers : v # w => last'[v] = last[v]
      PROVE  Wakes'
  <2>1. \A v \in Workers : pc[v] = "signal" => pc'[v] = "signal"
    BY <1>e
  <2>2. \A v \in Workers : pc'[v] = "parked" => pc[v] = "parked" /\ last'[v] = last[v]
    BY <1>e
  <2>3. pc'[Caller] = pc[Caller]
    BY <1>e
  <2> QED
    BY <1>a, <1>c, <1>e, <2>1, <2>2, <2>3
<1>1. ASSUME NEW w \in Workers, SpawnWorker(w) PROVE Wakes'
  <2>1. pc[w] = "unborn" /\ w # Caller
    BY <1>1 DEF SpawnWorker, Unborn
  <2>2. /\ pc[Caller] = "spawning" /\ pc'[Caller] \in {"idle", "spawning"}
        /\ \A v \in Workers : pc'[v] = pc[v] \/ pc'[v] = "spin"
        /\ UNCHANGED <<state, last>>
    BY <1>1, <2>1 DEF SpawnWorker
  <2> QED
    BY <1>a, <1>c, <2>2
<1>6. CASE Dispatch \/ StopDispatch
  <2>1. pc'[Caller] \in {"notify", "stopNotify"}
    BY <1>6 DEF Dispatch, StopDispatch
  <2> QED
    BY <2>1
<1>7. CASE NotifyWorkers \/ StopNotify
  <2>1. \A w \in Workers : pc'[w] # "parked"
    BY <1>7 DEF NotifyWorkers, StopNotify, WakeWorkers
  <2>2. pc'[Caller] \in {"begin", "join"}
    BY <1>7 DEF NotifyWorkers, StopNotify, WakeWorkers
  <2> QED
    BY <2>1, <2>2
<1>9. CASE LoadUnfinished
  BY <1>9, <1>a, <1>c DEF LoadUnfinished
<1>10. CASE WaitCompletion
  BY <1>10, <1>a, <1>c DEF WaitCompletion
<1>13. ASSUME NEW t \in Threads, RunStep(t) PROVE Wakes'
  <2>1. \E l \in {"body", "claim", "save", "drain", "finish"} : Goto(t, l)
    BY <1>13 DEF RunStep, Begin, EndBody, ClaimException, SaveException, AfterRun
  <2>2. /\ pc[t] \in {"begin", "body", "claim", "save"}
        /\ UNCHANGED <<state, unfinished, left, last>>
    BY <1>13 DEF RunStep, Begin, EndBody, ClaimException, SaveException
  <2>3. CASE t = Caller
    BY <1>d, <2>1, <2>2, <2>3
  <2>4. CASE t \in Workers
    BY <1>e, <2>1, <2>2, <2>4
  <2>5. t = 0 \/ t \in Workers
    BY DEF Threads, Workers
  <2> QED
    BY <2>3, <2>4, <2>5
<1>14. ASSUME NEW w \in Workers, SpinState(w) \/ StopSpinningForState(w) PROVE Wakes'
  BY <1>14, <1>e DEF SpinState, StopSpinningForState
<1>15. ASSUME NEW w \in Workers, ReloadState(w) PROVE Wakes'
  BY <1>15, <1>e DEF ReloadState
<1>16. ASSUME NEW w \in Workers, WaitState(w) PROVE Wakes'
  <2>1. CASE Word(state) = Word(last[w])
    <3>1. \A v \in Workers : pc[v] = "signal" => pc'[v] = "signal"
      BY <1>16 DEF WaitState
    <3>2. \A v \in Workers : v # w /\ pc'[v] = "parked" => pc[v] = "parked"
      BY <1>16 DEF WaitState
    <3>3. pc'[Caller] = pc[Caller] /\ UNCHANGED <<state, unfinished, left, last>>
      BY <1>16 DEF WaitState
    <3>4. WorkersWake'
      BY <1>a, <1>c, <2>1, <3>2, <3>3
    <3> QED
      BY <1>a, <3>1, <3>3, <3>4
  <2>2. CASE Word(state) # Word(last[w])
    BY <1>16, <1>e, <2>2 DEF WaitState
  <2> QED
    BY <2>1, <2>2
<1>17. ASSUME NEW w \in Workers, Exit(w) \/ Decide(w) PROVE Wakes'
  BY <1>17, <1>e DEF Exit, Decide
<1>18. ASSUME NEW w \in Workers, FinishRegion(w) PROVE Wakes'
  <2>1. /\ pc[w] = "finish" /\ pc'[Caller] = pc[Caller]
        /\ pc'[w] = IF unfinished = 1 THEN "signal" ELSE "spin"
        /\ \A v \in Workers : v # w => pc'[v] = pc[v]
        /\ unfinished' = unfinished - 1
        /\ UNCHANGED <<state, left, last>>
    BY <1>18 DEF FinishRegion
  <2>2. WorkersWake'
    BY <1>a, <1>c, <2>1
  <2> QED
    BY <1>a, <2>1, <2>2
<1>19. ASSUME NEW w \in Workers, SignalCaller(w) PROVE Wakes'
  <2>1. /\ pc'[w] = "spin" /\ pc[w] = "signal"
        /\ \A v \in Workers : v # w => pc'[v] = pc[v]
        /\ pc'[Caller] = IF pc[Caller] = "parked" THEN "wait" ELSE pc[Caller]
        /\ UNCHANGED <<state, left, last>>
    BY <1>19 DEF SignalCaller
  <2> QED
    BY <1>a, <1>c, <2>1
<1>20. ASSUME NEW t \in Threads, WakeSpuriously(t) PROVE Wakes'
  <2>1. /\ pc[t] = "parked" /\ Goto(t, "wait")
        /\ UNCHANGED <<state, unfinished, left, last>>
    BY <1>20 DEF WakeSpuriously
  <2>2. \A s \in Threads : pc'[s] = pc[s] \/ (s = t /\ pc'[s] = "wait" /\ pc[s] = "parked")
    BY <2>1
  <2> QED
    BY <1>a, <1>c, <2>1, <2>2
<1>21. CASE Terminated \/ UNCHANGED vars
  BY <1>21, <1>a, <1>c DEF Terminated, vars
<1>22. Caller \in Threads
  BY DEF Caller
<1> HIDE DEF Caller, Goto, Wakes
<1>2. CASE SpawnFails \/ EndUnwinding \/ JoinWorkers \/ ReturnEmpty
  BY <1>2, <1>d DEF SpawnFails, EndUnwinding, JoinWorkers, ReturnEmpty
<1>3. ASSUME NEW u \in 0 .. N, Execute(u) PROVE Wakes'
  BY <1>3, <1>d DEF Execute
<1>4. CASE BeginInline \/ EndInline \/ ReturnInline
  BY <1>4, <1>d DEF BeginInline, EndInline, ReturnInline
<1>5. CASE SetTask \/ SetUnfinished \/ SetStop
  BY <1>5, <1>d DEF SetTask, SetUnfinished, SetStop
<1>8. CASE SpinCompletion \/ StopSpinningForCompletion
  BY <1>8, <1>d DEF SpinCompletion, StopSpinningForCompletion
<1>11. CASE CollectException
  BY <1>11, <1>d DEF CollectException
<1>12. CASE Rethrow
  BY <1>12, <1>d DEF Rethrow
<1> QED
  BY <1>1, <1>2, <1>3, <1>4, <1>5, <1>6, <1>7, <1>8, <1>9, <1>10, <1>11, <1>12, <1>13, <1>14,
     <1>15, <1>16, <1>17, <1>18, <1>19, <1>20, <1>21, <1>22
  DEF Next, CallerStep, WorkerStep

-----------------------------------------------------------------------------
(* What follows for the whole specification *)

IInv ==
  /\ PcOK /\ DataOK /\ FlagsOK /\ StopInv
  /\ CountInv /\ BodyInv /\ ExceptionInv /\ WaitInv

\* Numbers that are congruent and differ, differ by the modulus at least.
LEMMA CongruentAreApart ==
  ASSUME NEW a \in Nat, NEW b \in Nat, NEW m \in Nat \ {0}, b < a, a % m = b % m
  PROVE  a - b >= m
<1> DEFINE d == (a \div m) - (b \div m)
<1>1. a \div m \in Int /\ b \div m \in Int
  BY SMT
<1>2. a = m * (a \div m) + (a % m) /\ b = m * (b \div m) + (b % m)
  BY SMT
<1>3. m * d = m * (a \div m) - m * (b \div m)
  BY <1>1, SMT
<1>4. m * (a \div m) \in Int /\ m * (b \div m) \in Int /\ a % m \in Int
  BY <1>1, SMT
<1>5. a - b = m * d
  BY <1>2, <1>3, <1>4, SMT
<1>6. d \in Int
  BY <1>1, SMT
<1> HIDE DEF d
<1>7. d >= 1
  <2>1. ASSUME d <= 0 PROVE m * d <= 0
    BY <1>6, <2>1, SMT
  <2> QED
    BY <1>5, <1>6, <2>1, SMT
<1>8. m * d >= m
  BY <1>6, <1>7, SMT
<1> QED
  BY <1>5, <1>8, SMT

LEMMA Invariance == Spec => []IInv
<1>1. Init => IInv
  <2>1. Init => WaitInv
    BY NAssumption DEF Init, WaitInv, LeftInv, RangeInv, NoLostWakeup, Workers, Threads, Caller
  <2> QED
    BY <2>1, TypesInit, CountInit, BodyInit, ExceptionInit DEF IInv
<1>2. IInv /\ [Next]_vars => IInv'
  BY PcStep, DataStep, FlagsStep, StopStep, CountStep, BodyStep, ExceptionStep, WaitStep DEF IInv
<1> QED
  BY <1>1, <1>2, PTL DEF Spec

\* Every variable keeps its type; in particular unfinished_ never wraps below zero and
\* never exceeds the number of workers.
THEOREM TypeCorrect == Spec => []TypeOK
<1>1. IInv => TypeOK
  <2> SUFFICES ASSUME IInv PROVE TypeOK
    OBVIOUS
  <2>1. PcOK /\ DataOK /\ FlagsOK /\ RangeInv
    BY DEF IInv, WaitInv
  <2> QED
    BY <2>1, Zenon DEF TypeOK, PcOK, DataOK, FlagsOK, RangeInv
<1> QED
  BY <1>1, Invariance, PTL

\* unfinished_ is the number of participants that have not reported, for as long as
\* the region lasts.
THEOREM CountIsExact == Spec => []CountsPending
<1>1. IInv => CountsPending
  BY DEF IInv, CountInv
<1> QED
  BY <1>1, Invariance, PTL

\* No thread invokes a callable that is gone or belongs to another call, or on an index
\* the call did not ask for.
THEOREM TaskOutlivesItsUse == Spec => []TaskAlive
<1>1. IInv => TaskAlive
  <2> SUFFICES ASSUME IInv, NEW t \in Threads, Running(t)
               PROVE  Dispatched /\ task = call /\ t < used
    BY DEF TaskAlive
  <2>1. CASE t = Caller
    BY <2>1 DEF IInv, CountInv, DispatchInv, DataOK, Dispatched, Running, Caller
  <2>2. CASE t \in Workers
    BY <2>2 DEF IInv, CountInv, BusyInv, Busy, DispatchInv, Running
  <2>3. t = Caller \/ t \in Workers
    BY DEF Caller, Threads, Workers
  <2> QED
    BY <2>1, <2>2, <2>3
<1> QED
  BY <1>1, Invariance, PTL

\* exception_ has one writer at a time and none while the caller takes it out.
THEOREM ExceptionHasOneWriter == Spec => []ExceptionNotRaced
<1>1. IInv => ExceptionNotRaced
  <2> SUFFICES ASSUME IInv, NEW t \in Threads, pc[t] = "save"
               PROVE  pc[Caller] # "rethrow" /\ \A s \in Threads \ {t} : pc[s] # "save"
    BY DEF ExceptionNotRaced
  <2>1. \A s \in Threads \ {t} : pc[s] # "save"
    BY DEF IInv, ExceptionInv
  <2>2. t \in Workers => Dispatched
    BY DEF IInv, CountInv, BusyInv, Busy
  <2>3. t = Caller \/ t \in Workers
    BY DEF Caller, Threads, Workers
  <2> QED
    BY <2>1, <2>2, <2>3 DEF Dispatched
<1> QED
  BY <1>1, Invariance, PTL

\* No thread stays parked once the value it waits on has changed, unless a thread is
\* about to notify it.
THEOREM WakeupsArrive == Spec => []NoLostWakeup
<1>1. IInv => NoLostWakeup
  BY DEF IInv, WaitInv
<1> QED
  BY <1>1, Invariance, PTL

\* A worker can sleep through a region it is needed for only if the epochs have gone
\* round: nothing but a word that compares equal, of an earlier epoch, keeps it asleep.
THEOREM OnlyAWrapIsMissed == Spec => []MissedOnlyByWrap
<1>1. IInv => MissedOnlyByWrap
  <2> SUFFICES ASSUME IInv, NEW w \in Pending, pc[w] = "parked",
                      pc[Caller] \notin {"notify", "stopNotify"}
               PROVE  state.epoch - last[w].epoch >= EpochMod
    BY DEF MissedOnlyByWrap
  <2>1. w \in Workers /\ last[w] # state
    BY DEF Pending
  <2>2. Word(state) = Word(last[w])
    BY <2>1 DEF IInv, WaitInv, NoLostWakeup
  <2>3. state.epoch \in Nat /\ last[w].epoch \in Nat
    BY <2>1 DEF IInv, DataOK
  <2>4. last[w].epoch < state.epoch
    BY <2>1, <2>3 DEF IInv, CountInv, SeenInv
  <2>5. state.epoch % EpochMod = last[w].epoch % EpochMod
    BY <2>2 DEF Word
  <2> HIDE DEF IInv
  <2> QED
    BY <2>3, <2>4, <2>5, EpochModAssumption, CongruentAreApart
<1> QED
  BY <1>1, Invariance, PTL

\* Once a worker exists, a failed construction does not come back: no worker leaves
\* before the body of the destructor has run, and it does not run for an object that has
\* not been constructed.
THEOREM FailedSpawnStrands == Spec => StrandedByFailedSpawn
<1> DEFINE Stranded == pc[Caller] = "unwinding" /\ Unborn # Workers => pc'[Caller] = "unwinding"
<1>1. IInv /\ [Next]_vars => [Stranded]_vars
  <2> SUFFICES ASSUME IInv, [Next]_vars, pc[Caller] = "unwinding", Unborn # Workers
               PROVE  pc'[Caller] = "unwinding"
    OBVIOUS
  <2>1. PcOK /\ Caller \in Threads /\ Caller \notin Workers /\ Workers \subseteq Threads
    BY NAssumption DEF IInv, Caller, Threads, Workers
  <2>2. \E w \in Workers : pc[w] \notin {"unborn", "exited"}
    BY DEF IInv, StopInv, Stopped, Unborn
  <2> HIDE DEF IInv
  <2>3. CASE UNCHANGED vars
    BY <2>3 DEF vars
  <2>4. CASE \E t \in Threads : RunStep(t) \/ WakeSpuriously(t)
    BY <2>1, <2>4 DEF RunStep, Begin, EndBody, ClaimException, SaveException, AfterRun, WakeSpuriously, Goto, PcOK
  <2>5. CASE \E w \in Workers : WorkerStep(w)
    BY <2>1, <2>4, <2>5
    DEF WorkerStep, SpinState, StopSpinningForState, WaitState, ReloadState, Exit, Decide,
        FinishRegion, SignalCaller, Goto, PcOK
  <2>6. ~EndUnwinding
    BY <2>2 DEF EndUnwinding
  <2>7. pc[Caller] = "unwinding"
    OBVIOUS
  <2>8. ~(\/ (\E w \in Workers : SpawnWorker(w)) \/ SpawnFails
          \/ (\E u \in 0 .. N : Execute(u)) \/ ReturnEmpty
          \/ BeginInline \/ EndInline \/ ReturnInline)
    BY <2>7, Zenon
    DEF SpawnWorker, SpawnFails, Execute, ReturnEmpty, BeginInline, EndInline, ReturnInline
  <2>9. ~(SetTask \/ SetUnfinished \/ Dispatch \/ NotifyWorkers)
    BY <2>7, Zenon DEF SetTask, SetUnfinished, Dispatch, NotifyWorkers
  <2>10. ~(\/ SpinCompletion \/ StopSpinningForCompletion \/ LoadUnfinished \/ WaitCompletion
           \/ CollectException \/ Rethrow)
    BY <2>7, Zenon
    DEF SpinCompletion, StopSpinningForCompletion, LoadUnfinished, WaitCompletion,
        CollectException, Rethrow
  <2>11. ~(SetStop \/ StopDispatch \/ StopNotify \/ JoinWorkers)
    BY <2>7, Zenon DEF SetStop, StopDispatch, StopNotify, JoinWorkers
  <2>12. ~Terminated
    BY <2>7, Zenon DEF Terminated
  <2> QED
    BY <2>1, <2>3, <2>4, <2>5, <2>6, <2>8, <2>9, <2>10, <2>11, <2>12 DEF Next, CallerStep
<1> QED
  BY <1>1, Invariance, PTL DEF Spec, StrandedByFailedSpawn

-----------------------------------------------------------------------------
(* The pool implements the abstract executor *)

LEMMA PhaseIs ==
  ASSUME PcOK
  PROVE  /\ pc[Caller] \in {"spawning", "unwinding", "failed", "idle"} => Phase = "idle"
         /\ pc[Caller] \in Stopped => Phase = "closed"
         /\ pc[Caller] \in CallerPcs \ ({"spawning", "unwinding", "failed", "idle"} \cup Stopped)
              => Phase = "running"
BY DEF PcOK, Phase, CallerPcs, Stopped

\* When the caller takes stock, every index of the call is done and no other was touched.
LEMMA AllDoneAtEnd ==
  ASSUME IInv, pc[Caller] \in {"empty", "inlined", "collect", "rethrow"}
  PROVE  Region!AllDone
<1>types. /\ used \in Int
          /\ \A t \in Threads : t \in Int /\ (t = 0 \/ t \in Workers)
          /\ \A w \in Workers : w >= 1
  BY NAssumption DEF IInv, DataOK, Threads, Workers
<1>1. \A t \in Threads : t >= used => body[t] = "pending"
  BY DEF IInv, BodyInv, BodyOfThreads
<1>2. pc[Caller] # "empty" => body[Caller] \in Ended
  BY DEF IInv, BodyInv, BodyOfCaller
<1>3. pc[Caller] = "empty" => used = 0
  BY DEF IInv, BodyInv, BodyOfCaller
<1>4. pc[Caller] = "inlined" => used = 1
  BY DEF IInv, BodyInv, BodyOfCaller
<1>5. ASSUME pc[Caller] \in {"collect", "rethrow"}, NEW w \in Workers, w < used
      PROVE  body[w] \in Ended
  <2>1. ~Dispatched /\ stop # TRUE
    BY <1>5 DEF Dispatched, IInv, StopInv, Stopped
  <2>2. w \notin Pending
    BY <2>1 DEF IInv, CountInv, QuietInv
  <2> QED
    BY <1>5, <2>2 DEF IInv, BodyInv, BodyOfWorkers, InRegion
<1>6. ASSUME NEW t \in Threads, t < used PROVE body[t] \in Ended
  <2>1. CASE t = 0
    BY <1>types, <1>2, <1>3, <1>6, <2>1 DEF Caller
  <2>2. CASE t \in Workers
    BY <1>types, <1>3, <1>4, <1>5, <1>6, <2>2
  <2> QED
    BY <1>types, <2>1, <2>2
<1>7. \A t \in Threads : t < used \/ t >= used
  BY <1>types
<1>8. Region!Threads = Threads /\ Region!Ended = Ended
  BY DEF Region!Threads, Threads, Region!Ended, Ended
<1> QED
  BY <1>types, <1>1, <1>6, <1>7, <1>8 DEF Region!AllDone

LEMMA RegionStep == IInv /\ [Next]_vars => [Region!Next]_(Region!vars)
<1> SUFFICES ASSUME IInv, [Next]_vars PROVE [Region!Next]_(Region!vars)
  OBVIOUS
<1> DEFINE Goal == [Region!Next]_(Region!vars)
           Idle == {"spawning", "unwinding", "failed", "idle"}
           Active == CallerPcs \ (Idle \cup Stopped)
<1>types. /\ pc \in [Threads -> CallerPcs \cup WorkerPcs]
          /\ body \in [Threads -> {"pending", "running"} \cup Ended]
          /\ used \in 0 .. N
          /\ 0 \in Threads /\ Workers \subseteq Threads
          /\ \A w \in Workers : w # 0
          /\ \A t \in Threads : t = 0 \/ t \in Workers
  BY NAssumption DEF IInv, PcOK, DataOK, Threads, Workers
<1>a. PcOK /\ PcOK' /\ FlagsOK
  BY PcStep DEF IInv
<1>b. Region!Threads = Threads /\ Region!Ended = Ended
  BY DEF Region!Threads, Threads, Region!Ended, Ended
<1>c. /\ pc[Caller] \in Idle => Phase = "idle"
      /\ pc[Caller] \in Stopped => Phase = "closed"
      /\ pc[Caller] \in Active => Phase = "running"
  BY <1>a, PhaseIs
<1>d. /\ pc'[Caller] \in Idle => Phase' = "idle"
      /\ pc'[Caller] \in Stopped => Phase' = "closed"
      /\ pc'[Caller] \in Active => Phase' = "running"
  BY <1>a DEF PcOK, Phase, CallerPcs, Stopped
<1>e. pc[Caller] \in Idle \cup Stopped \cup Active
  BY <1>a DEF PcOK
<1>f. ASSUME UNCHANGED <<used, body, outcome>>,
             \/ pc'[Caller] = pc[Caller]
             \/ pc[Caller] \in Idle /\ pc'[Caller] \in Idle
             \/ pc[Caller] \in Stopped /\ pc'[Caller] \in Stopped
             \/ pc[Caller] \in Active /\ pc'[Caller] \in Active
      PROVE  Goal
  <2>1. Phase' = Phase
    BY <1>c, <1>d, <1>e, <1>f
  <2> QED
    BY <1>f, <2>1 DEF Region!vars
<1>g. ASSUME pc[Caller] \in {"empty", "inlined", "collect", "rethrow"}, pc'[Caller] = "idle",
             UNCHANGED <<used, body>>,
             outcome' \in IF Region!Threw = {} THEN {NoException} ELSE Region!Threw
      PROVE  Goal
  <2>1. Phase = "running" /\ Phase' = "idle"
    BY <1>c, <1>d, <1>g DEF CallerPcs, Stopped
  <2>2. Region!AllDone
    BY <1>g, AllDoneAtEnd
  <2> QED
    BY <1>g, <2>1, <2>2 DEF Region!Return, Region!Next
<1> USE <1>types DEF Caller, Goto, dispatchVars, callVars, CallerPcs, Stopped
<1>1. ASSUME NEW u \in 0 .. N, Execute(u) PROVE Goal
  <2>1. Phase = "idle" /\ Phase' = "running"
    BY <1>1, <1>c, <1>d DEF Execute
  <2>2. used' = u /\ body' = [i \in Region!Threads |-> "pending"] /\ UNCHANGED outcome
    BY <1>1, <1>b DEF Execute
  <2>3. Region!Call(u)
    BY <2>1, <2>2 DEF Region!Call
  <2> QED
    BY <2>3 DEF Region!Next
<1>2. ASSUME ReturnEmpty PROVE Goal
  <2>1. pc[Caller] = "empty" /\ used = 0
    BY <1>2 DEF ReturnEmpty, IInv, BodyInv, BodyOfCaller
  <2>2. Region!Threw = {}
    BY <1>b, <2>1 DEF IInv, BodyInv, BodyOfThreads, Region!Threw
  <2> QED
    BY <1>2, <1>g, <2>2 DEF ReturnEmpty
<1>3. ASSUME NEW t \in Threads, t < used, body[t] = "pending", pc[Caller] \in Active,
             pc'[Caller] \in Active, body' = [body EXCEPT ![t] = "running"],
             UNCHANGED <<used, outcome>>
      PROVE  Goal
  <2>1. Phase = "running" /\ Phase' = "running"
    BY <1>3, <1>c, <1>d
  <2>2. Region!Start(t)
    BY <1>3, <2>1 DEF Region!Start
  <2> QED
    BY <1>b, <2>2 DEF Region!Next
<1>4. ASSUME NEW t \in Threads, NEW how \in Ended, body[t] = "running",
             pc[Caller] \in Active, pc'[Caller] \in Active,
             body' = [body EXCEPT ![t] = how], UNCHANGED <<used, outcome>>
      PROVE  Goal
  <2>1. Phase = "running" /\ Phase' = "running"
    BY <1>4, <1>c, <1>d
  <2>2. Region!Finish(t)
    BY <1>b, <1>4, <2>1 DEF Region!Finish
  <2> QED
    BY <1>b, <2>2 DEF Region!Next
<1>5. ASSUME BeginInline PROVE Goal
  <2>1. used = 1 /\ body[0] = "pending"
    BY <1>5 DEF BeginInline, IInv, BodyInv, BodyOfCaller, BodyOfThreads
  <2>2. /\ pc[Caller] \in Active /\ pc'[Caller] \in Active
        /\ body' = [body EXCEPT ![0] = "running"] /\ UNCHANGED <<used, outcome>>
    BY <1>5 DEF BeginInline
  <2>3. 0 < used
    BY <2>1
  <2> HIDE DEF Idle, Active, Goal, CallerPcs, Stopped
  <2> QED
    BY <1>3, <2>1, <2>2, <2>3
<1>6. ASSUME EndInline PROVE Goal
  <2>1. body[0] = "running"
    BY <1>6 DEF EndInline, IInv, BodyInv, BodyOfCaller
  <2> QED
    BY <1>4, <1>6, <2>1 DEF EndInline
<1>7. ASSUME ReturnInline PROVE Goal
  <2>1. pc[Caller] = "inlined" /\ used = 1
    BY <1>7 DEF ReturnInline, IInv, BodyInv, BodyOfCaller
  <2>2. \A t \in Threads : t # 0 => body[t] = "pending"
    BY <2>1, NAssumption DEF IInv, BodyInv, BodyOfThreads, Threads
  <2>3. Region!Threw = IF body[0] = "threw" THEN {0} ELSE {}
    BY <1>b, <2>2 DEF Region!Threw
  <2> QED
    BY <1>7, <1>g, <2>1, <2>3 DEF ReturnInline
<1>8. ASSUME NEW t \in Threads, Begin(t) PROVE Goal
  <2>1. Dispatched /\ t < used /\ body[t] = "pending"
    BY <1>8, NobodyRunsTwice DEF Begin, IInv
  <2>2. pc[Caller] \in Active /\ pc'[Caller] \in Active
    BY <1>8, <2>1 DEF Begin, Dispatched
  <2> QED
    BY <1>3, <1>8, <2>1, <2>2 DEF Begin
<1>9. ASSUME NEW t \in Threads, EndBody(t) PROVE Goal
  <2> PICK how \in Ended :
        /\ pc[t] = "body" /\ UNCHANGED <<used, outcome>>
        /\ body' = [body EXCEPT ![t] = how]
        /\ Goto(t, IF how = "threw" THEN "claim" ELSE AfterRun(t))
    BY <1>9 DEF EndBody
  <2>1. Dispatched
    BY DEF IInv, CountInv, BusyInv, Busy, Dispatched
  <2>2. body[t] = "running"
    BY DEF IInv, BodyInv, BodyOfThreads
  <2>3. pc[Caller] \in Active /\ pc'[Caller] \in Active
    BY <2>1 DEF Dispatched, AfterRun
  <2> QED
    BY <1>4, <2>2, <2>3
<1>10. ASSUME CollectException PROVE Goal
  <2>1. CASE stored = TRUE
    <3>1. /\ UNCHANGED <<used, body, outcome>>
          /\ pc[Caller] = "collect" /\ pc'[Caller] = "rethrow"
      BY <1>10, <1>a, <2>1, ReadStored
    <3> QED
      BY <1>f, <3>1
  <2>2. CASE stored # TRUE
    <3>1. /\ UNCHANGED <<used, body>> /\ outcome' = NoException
          /\ pc[Caller] = "collect" /\ pc'[Caller] = "idle"
      BY <1>10, <1>a, <2>2, ReadStored
    <3>2. \A t \in Threads : pc[t] # "claim"
      BY <3>1 DEF IInv, CountInv, BusyInv, Busy, Dispatched
    <3>3. Region!Threw = {}
      BY <1>b, <2>2, <3>1, <3>2 DEF IInv, ExceptionInv, Region!Threw
    <3> QED
      BY <1>g, <3>1, <3>3
  <2> QED
    BY <2>1, <2>2
<1>11. ASSUME Rethrow PROVE Goal
  <2>1. /\ UNCHANGED <<used, body>> /\ outcome' = exception
        /\ pc[Caller] = "rethrow" /\ pc'[Caller] = "idle"
    BY <1>11 DEF Rethrow
  <2>2. exception \in Region!Threw
    BY <1>b, <2>1 DEF IInv, ExceptionInv, Region!Threw
  <2> QED
    BY <1>g, <2>1, <2>2
<1>12. ASSUME SetStop PROVE Goal
  <2>1. Phase = "idle" /\ Phase' = "closed"
    BY <1>12, <1>c, <1>d DEF SetStop
  <2>2. Region!Close
    BY <1>12, <2>1 DEF SetStop, Region!Close
  <2> QED
    BY <2>2 DEF Region!Next
<1>13. ASSUME NEW w \in Workers, SpawnWorker(w) PROVE Goal
  <2>1. /\ pc[Caller] = "spawning" /\ pc'[Caller] \in {"idle", "spawning"}
        /\ UNCHANGED <<used, body, outcome>>
    BY <1>13 DEF SpawnWorker
  <2> QED
    BY <1>f, <2>1
<1>14. ASSUME SpawnFails \/ EndUnwinding PROVE Goal
  BY <1>14, <1>f DEF SpawnFails, EndUnwinding
<1>15. ASSUME SetTask \/ SetUnfinished \/ Dispatch PROVE Goal
  BY <1>15, <1>f DEF SetTask, SetUnfinished, Dispatch
<1>16. ASSUME NotifyWorkers \/ StopNotify PROVE Goal
  BY <1>16, <1>f DEF NotifyWorkers, StopNotify, WakeWorkers
<1>17. ASSUME SpinCompletion \/ StopSpinningForCompletion \/ LoadUnfinished \/ WaitCompletion PROVE Goal
  BY <1>17, <1>f DEF SpinCompletion, StopSpinningForCompletion, LoadUnfinished, WaitCompletion
<1>18. ASSUME StopDispatch \/ JoinWorkers PROVE Goal
  BY <1>18, <1>f DEF StopDispatch, JoinWorkers
<1>19. ASSUME NEW t \in Threads, ClaimException(t) \/ SaveException(t) PROVE Goal
  <2>1. /\ UNCHANGED <<used, body, outcome>> /\ pc[t] \in {"claim", "save"}
        /\ \E l \in {"save", "drain", "finish"} : Goto(t, l) /\ (t = Caller => l # "finish")
    BY <1>19 DEF ClaimException, SaveException, AfterRun
  <2> QED
    BY <1>f, <2>1
<1>20. ASSUME NEW w \in Workers,
              SpinState(w) \/ StopSpinningForState(w) \/ WaitState(w) \/ ReloadState(w)
       PROVE  Goal
  BY <1>20, <1>f DEF SpinState, StopSpinningForState, WaitState, ReloadState
<1>21. ASSUME NEW w \in Workers, Exit(w) \/ Decide(w) \/ FinishRegion(w) PROVE Goal
  BY <1>21, <1>f DEF Exit, Decide, FinishRegion
<1>22. ASSUME NEW w \in Workers, SignalCaller(w) PROVE Goal
  <2>1. /\ pc'[Caller] = IF pc[Caller] = "parked" THEN "wait" ELSE pc[Caller]
        /\ UNCHANGED <<used, body, outcome>>
    BY <1>22 DEF SignalCaller
  <2> QED
    BY <1>f, <2>1
<1>23. ASSUME NEW t \in Threads, WakeSpuriously(t) PROVE Goal
  BY <1>23, <1>f DEF WakeSpuriously
<1>24. ASSUME Terminated \/ UNCHANGED vars PROVE Goal
  BY <1>24, <1>f DEF Terminated, vars
<1>25. Caller \in Threads
  BY DEF Caller
<1> HIDE DEF Goal, Caller, Goto, CallerPcs, Stopped
<1>26. Goal
  BY <1>1, <1>2, <1>5, <1>6, <1>7, <1>8, <1>9, <1>10, <1>11, <1>12, <1>13, <1>14, <1>15,
     <1>16, <1>17, <1>18, <1>19, <1>20, <1>21, <1>22, <1>23, <1>24, <1>25
  DEF Next, CallerStep, WorkerStep, RunStep
<1> QED
  BY <1>26 DEF Goal

\* The pool is an executor, for every number of threads and calls and however narrow
\* the epoch is: a call ends after each index it asked for ran once and no other did,
\* and it throws what one of them threw, if any of them did.
THEOREM PoolIsExecutor == Spec => ImplementsParallelRegion
<1>1. Init => Region!Init
  <2> SUFFICES ASSUME Init PROVE Region!Init
    OBVIOUS
  <2>1. PcOK /\ pc[Caller] \in {"spawning", "idle"}
    BY TypesInit, NAssumption DEF Init, Caller, Threads
  <2>2. Phase = "idle"
    BY <2>1, PhaseIs
  <2> QED
    BY <2>2 DEF Init, Region!Init, Region!Threads, Threads
<1>2. IInv /\ [Next]_vars => [Region!Next]_(Region!vars)
  BY RegionStep
<1> QED
  BY <1>1, <1>2, Invariance, PTL DEF Spec, ImplementsParallelRegion, Region!Spec
=============================================================================

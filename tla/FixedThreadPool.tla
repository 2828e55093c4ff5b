-------------------------- MODULE FixedThreadPool ---------------------------
(***************************************************************************)
(* thes::FixedThreadPool: a caller (thread 0) that creates N - 1 workers,  *)
(* dispatches parallel regions to them through one atomic word, takes part *)
(* in each region itself, collects the first exception and finally stops   *)
(* the workers.  A thread waits by spinning and then parking on            *)
(* std::atomic::wait; a step of a thread is one access to shared memory.   *)
(***************************************************************************)
EXTENDS Integers, FiniteSets

CONSTANTS
  N,             \* thread_num_: the caller and N - 1 workers
  EpochMod,      \* the number of epochs the high bits of state_ can tell apart
  MaxCalls,      \* bound: how many times the caller calls execute
  SpawnMayFail,  \* whether creating a std::jthread can throw
  NoException    \* a null std::exception_ptr

Threads == 0 .. N - 1
Workers == 1 .. N - 1
Caller == 0

ASSUME NAssumption == N \in Nat \ {0}
ASSUME EpochModAssumption == EpochMod \in Nat \ {0}
ASSUME MaxCallsAssumption == MaxCalls \in Nat
ASSUME SpawnMayFailAssumption == SpawnMayFail \in BOOLEAN
ASSUME NoExceptionAssumption == NoException \notin Threads

VARIABLES
  pc,         \* what each thread does next
  state,      \* state_: the number of dispatches so far, and the threads used
  stop,       \* stop_
  task,       \* task_fun_, task_data_: the call whose callable they designate
  unfinished, \* unfinished_
  stored,     \* exception_stored_
  exception,  \* exception_: the index whose exception it holds
  last,       \* last_state of each worker
  left,       \* left, in await_completion
  call,       \* the number of calls so far, which names the current callable
  used,       \* used_thread_num of the current (or last) call
  body,       \* what became of the task on each index in that call
  outcome     \* how that call ended, as its caller sees it

dispatchVars == <<state, stop, task>>
exceptionVars == <<stored, exception>>
callVars == <<call, used, body, outcome>>
vars == <<pc, dispatchVars, unfinished, exceptionVars, last, left, callVars>>

Ended == {"returned", "threw"}

(***************************************************************************)
(* The word state_ holds.  `epoch` counts dispatches without wrapping, and *)
(* Word is what is left of it in memory: two states compare equal when     *)
(* their words do.                                                         *)
(***************************************************************************)
Word(s) == <<s.epoch % EpochMod, s.used>>

Initially == [epoch |-> 0, used |-> 0]

Goto(t, label) == pc' = [pc EXCEPT ![t] = label]

Init ==
  /\ pc = [t \in Threads |-> IF t # Caller THEN "unborn"
                             ELSE IF N = 1 THEN "idle" ELSE "spawning"]
  /\ state = Initially
  /\ stop = FALSE
  /\ task = 0
  /\ unfinished = 0
  /\ stored = FALSE
  /\ exception = NoException
  /\ last = [w \in Workers |-> Initially]
  /\ left = 0
  /\ call = 0
  /\ used = 0
  /\ body = [t \in Threads |-> "pending"]
  /\ outcome = NoException

-----------------------------------------------------------------------------
(* Plausible mistakes: each of these stands in for the action or helper it *)
(* misspells when a run is asked whether its properties would notice.      *)

\* notify_one instead of notify_all.
WakeOneWorker(label) ==
  \E w \in Workers \cup {Caller} :
    /\ pc[w] = "parked" \/ \A v \in Workers : pc[v] # "parked"
    /\ pc' = [t \in Threads |-> IF t = Caller THEN label
                                ELSE IF t = w /\ pc[t] = "parked" THEN "wait" ELSE pc[t]]

\* The workers are not joined when the constructor fails.
EndUnwindingUnjoined ==
  /\ pc[Caller] = "unwinding"
  /\ Goto(Caller, "failed")
  /\ UNCHANGED <<dispatchVars, unfinished, exceptionVars, last, left, callVars>>

\* unfinished_ counts the caller as well.
SetUnfinishedWithCaller ==
  /\ pc[Caller] = "setUnfinished"
  /\ unfinished' = used
  /\ Goto(Caller, "dispatch")
  /\ UNCHANGED <<dispatchVars, exceptionVars, last, left, callVars>>

\* The caller parks without comparing, as if it had checked before the wait.
WaitCompletionUnchecked ==
  /\ pc[Caller] = "wait"
  /\ Goto(Caller, "parked")
  /\ UNCHANGED <<dispatchVars, unfinished, exceptionVars, last, left, callVars>>

\* exception_stored_ is loaded, and so stays raised for the next region.
CollectExceptionByLoad ==
  /\ pc[Caller] = "collect"
  /\ IF stored THEN Goto(Caller, "rethrow") /\ UNCHANGED outcome
               ELSE Goto(Caller, "idle") /\ outcome' = NoException
  /\ UNCHANGED <<dispatchVars, unfinished, exceptionVars, last, left, call, used, body>>

\* Nobody looks at what exchange(true) returns.
ClaimExceptionAlways(t) ==
  /\ pc[t] = "claim"
  /\ stored' = TRUE
  /\ Goto(t, "save")
  /\ UNCHANGED <<dispatchVars, unfinished, exception, last, left, callVars>>

\* An off-by-one in the participation test.
DecideInclusive(w) ==
  /\ pc[w] = "loaded"
  /\ ~stop
  /\ Goto(w, IF w <= last[w].used THEN "begin" ELSE "spin")
  /\ UNCHANGED <<dispatchVars, unfinished, exceptionVars, last, left, callVars>>

\* The participation test loads state_ a second time.
DecideByReloading(w) ==
  /\ pc[w] = "loaded"
  /\ ~stop
  /\ Goto(w, IF w < state.used THEN "begin" ELSE "spin")
  /\ UNCHANGED <<dispatchVars, unfinished, exceptionVars, last, left, callVars>>

\* Workers that take no part report all the same.
DecideAndReport(w) ==
  /\ pc[w] = "loaded"
  /\ ~stop
  /\ Goto(w, IF w < last[w].used THEN "begin" ELSE "finish")
  /\ UNCHANGED <<dispatchVars, unfinished, exceptionVars, last, left, callVars>>

\* fetch_sub returns the value before the subtraction, not the one after it.
FinishRegionAtZero(w) ==
  /\ pc[w] = "finish"
  /\ unfinished' = unfinished - 1
  /\ Goto(w, IF unfinished = 0 THEN "signal" ELSE "spin")
  /\ UNCHANGED <<dispatchVars, exceptionVars, last, left, callVars>>

\* The destructor notifies without changing the word.
StopDispatchUnchanged ==
  /\ pc[Caller] = "stopDispatch"
  /\ Goto(Caller, "stopNotify")
  /\ UNCHANGED <<dispatchVars, unfinished, exceptionVars, last, left, callVars>>

-----------------------------------------------------------------------------
\* state_.notify_all(), after which the caller goes on at `label`.
WakeWorkers(label) ==
  pc' = [t \in Threads |-> IF t = Caller THEN label
                           ELSE IF pc[t] = "parked" THEN "wait" ELSE pc[t]]

-----------------------------------------------------------------------------
(* Construction *)

Unborn == {w \in Workers : pc[w] = "unborn"}

SpawnWorker(w) ==
  /\ pc[Caller] = "spawning"
  /\ w \in Unborn
  /\ \A v \in Unborn : w <= v
  /\ pc' = [pc EXCEPT ![w] = "spin",
                      ![Caller] = IF Unborn = {w} THEN "idle" ELSE "spawning"]
  /\ UNCHANGED <<dispatchVars, unfinished, exceptionVars, last, left, callVars>>

\* Creating a thread throws: the members are destroyed, the body of the
\* destructor does not run, and the jthreads are joined without having been
\* told to stop.
SpawnFails ==
  /\ SpawnMayFail
  /\ pc[Caller] = "spawning"
  /\ Goto(Caller, "unwinding")
  /\ UNCHANGED <<dispatchVars, unfinished, exceptionVars, last, left, callVars>>

EndUnwinding ==
  /\ pc[Caller] = "unwinding"
  /\ \A w \in Workers : pc[w] \in {"unborn", "exited"}
  /\ Goto(Caller, "failed")
  /\ UNCHANGED <<dispatchVars, unfinished, exceptionVars, last, left, callVars>>

-----------------------------------------------------------------------------
(* execute: the caller's part *)

Execute(u) ==
  /\ pc[Caller] = "idle"
  /\ call < MaxCalls
  /\ call' = call + 1
  /\ used' = u
  /\ body' = [t \in Threads |-> "pending"]
  /\ Goto(Caller, IF u = 0 THEN "empty" ELSE IF u = 1 THEN "inline" ELSE "setTask")
  /\ UNCHANGED <<dispatchVars, unfinished, exceptionVars, last, left, outcome>>

\* used == 0
ReturnEmpty ==
  /\ pc[Caller] = "empty"
  /\ outcome' = NoException
  /\ Goto(Caller, "idle")
  /\ UNCHANGED <<dispatchVars, unfinished, exceptionVars, last, left, call, used, body>>

\* used == 1: the callable is invoked where it is, and what it throws is not caught.
BeginInline ==
  /\ pc[Caller] = "inline"
  /\ body' = [body EXCEPT ![Caller] = "running"]
  /\ Goto(Caller, "inlineBody")
  /\ UNCHANGED <<dispatchVars, unfinished, exceptionVars, last, left, call, used, outcome>>

EndInline ==
  /\ pc[Caller] = "inlineBody"
  /\ \E how \in Ended : body' = [body EXCEPT ![Caller] = how]
  /\ Goto(Caller, "inlined")
  /\ UNCHANGED <<dispatchVars, unfinished, exceptionVars, last, left, call, used, outcome>>

ReturnInline ==
  /\ pc[Caller] = "inlined"
  /\ outcome' = IF body[Caller] = "threw" THEN Caller ELSE NoException
  /\ Goto(Caller, "idle")
  /\ UNCHANGED <<dispatchVars, unfinished, exceptionVars, last, left, call, used, body>>

SetTask ==
  /\ pc[Caller] = "setTask"
  /\ task' = call
  /\ Goto(Caller, "setUnfinished")
  /\ UNCHANGED <<state, stop, unfinished, exceptionVars, last, left, callVars>>

SetUnfinished ==
  /\ pc[Caller] = "setUnfinished"
  /\ unfinished' = used - 1
  /\ Goto(Caller, "dispatch")
  /\ UNCHANGED <<dispatchVars, exceptionVars, last, left, callVars>>

Dispatch ==
  /\ pc[Caller] = "dispatch"
  /\ state' = [epoch |-> state.epoch + 1, used |-> used]
  /\ Goto(Caller, "notify")
  /\ UNCHANGED <<stop, task, unfinished, exceptionVars, last, left, callVars>>

NotifyWorkers ==
  /\ pc[Caller] = "notify"
  /\ WakeWorkers("begin")
  /\ UNCHANGED <<dispatchVars, unfinished, exceptionVars, last, left, callVars>>

\* await_completion: a load in the spinning loop, which the caller leaves
\* when the count is zero ...
SpinCompletion ==
  /\ pc[Caller] = "drain"
  /\ unfinished = 0
  /\ Goto(Caller, "collect")
  /\ UNCHANGED <<dispatchVars, unfinished, exceptionVars, last, left, callVars>>

\* ... or after spin_count_ loads, of which no particular number is assumed.
StopSpinningForCompletion ==
  /\ pc[Caller] = "drain"
  /\ Goto(Caller, "load")
  /\ UNCHANGED <<dispatchVars, unfinished, exceptionVars, last, left, callVars>>

LoadUnfinished ==
  /\ pc[Caller] = "load"
  /\ left' = unfinished
  /\ Goto(Caller, IF unfinished = 0 THEN "collect" ELSE "wait")
  /\ UNCHANGED <<dispatchVars, unfinished, exceptionVars, last, callVars>>

\* unfinished_.wait(left): returns if the value differs, and blocks otherwise.
WaitCompletion ==
  /\ pc[Caller] = "wait"
  /\ Goto(Caller, IF unfinished = left THEN "parked" ELSE "load")
  /\ UNCHANGED <<dispatchVars, unfinished, exceptionVars, last, left, callVars>>

\* exception_stored_.exchange(false), and the return when it held false.
CollectException ==
  /\ pc[Caller] = "collect"
  /\ stored' = FALSE
  /\ IF stored THEN Goto(Caller, "rethrow") /\ UNCHANGED outcome
               ELSE Goto(Caller, "idle") /\ outcome' = NoException
  /\ UNCHANGED <<dispatchVars, unfinished, exception, last, left, call, used, body>>

Rethrow ==
  /\ pc[Caller] = "rethrow"
  /\ outcome' = exception
  /\ exception' = NoException
  /\ Goto(Caller, "idle")
  /\ UNCHANGED <<dispatchVars, unfinished, stored, last, left, call, used, body>>

-----------------------------------------------------------------------------
(* run(index), on any participating thread *)

AfterRun(t) == IF t = Caller THEN "drain" ELSE "finish"

Begin(t) ==
  /\ pc[t] = "begin"
  /\ body' = [body EXCEPT ![t] = "running"]
  /\ Goto(t, "body")
  /\ UNCHANGED <<dispatchVars, unfinished, exceptionVars, last, left, call, used, outcome>>

EndBody(t) ==
  /\ pc[t] = "body"
  /\ \E how \in Ended :
       /\ body' = [body EXCEPT ![t] = how]
       /\ Goto(t, IF how = "threw" THEN "claim" ELSE AfterRun(t))
  /\ UNCHANGED <<dispatchVars, unfinished, exceptionVars, last, left, call, used, outcome>>

\* exception_stored_.exchange(true)
ClaimException(t) ==
  /\ pc[t] = "claim"
  /\ stored' = TRUE
  /\ Goto(t, IF stored THEN AfterRun(t) ELSE "save")
  /\ UNCHANGED <<dispatchVars, unfinished, exception, last, left, callVars>>

SaveException(t) ==
  /\ pc[t] = "save"
  /\ exception' = t
  /\ Goto(t, AfterRun(t))
  /\ UNCHANGED <<dispatchVars, unfinished, stored, last, left, callVars>>

-----------------------------------------------------------------------------
(* work(index): a worker's loop *)

\* A load in the spinning loop of await_state that sees a new word.
SpinState(w) ==
  /\ pc[w] = "spin"
  /\ Word(state) # Word(last[w])
  /\ last' = [last EXCEPT ![w] = state]
  /\ Goto(w, "loaded")
  /\ UNCHANGED <<dispatchVars, unfinished, exceptionVars, left, callVars>>

StopSpinningForState(w) ==
  /\ pc[w] = "spin"
  /\ Goto(w, "wait")
  /\ UNCHANGED <<dispatchVars, unfinished, exceptionVars, last, left, callVars>>

\* state_.wait(last)
WaitState(w) ==
  /\ pc[w] = "wait"
  /\ Goto(w, IF Word(state) = Word(last[w]) THEN "parked" ELSE "reload")
  /\ UNCHANGED <<dispatchVars, unfinished, exceptionVars, last, left, callVars>>

\* The load after the wait, which may see a still later word.
ReloadState(w) ==
  /\ pc[w] = "reload"
  /\ IF Word(state) = Word(last[w])
     THEN Goto(w, "wait") /\ UNCHANGED last
     ELSE Goto(w, "loaded") /\ last' = [last EXCEPT ![w] = state]
  /\ UNCHANGED <<dispatchVars, unfinished, exceptionVars, left, callVars>>

\* std::atomic::wait may stop blocking without a notification.
WakeSpuriously(t) ==
  /\ pc[t] = "parked"
  /\ Goto(t, "wait")
  /\ UNCHANGED <<dispatchVars, unfinished, exceptionVars, last, left, callVars>>

Exit(w) ==
  /\ pc[w] = "loaded"
  /\ stop
  /\ Goto(w, "exited")
  /\ UNCHANGED <<dispatchVars, unfinished, exceptionVars, last, left, callVars>>

\* Whether the worker takes part follows from the word it loaded.
Decide(w) ==
  /\ pc[w] = "loaded"
  /\ ~stop
  /\ Goto(w, IF w < last[w].used THEN "begin" ELSE "spin")
  /\ UNCHANGED <<dispatchVars, unfinished, exceptionVars, last, left, callVars>>

\* unfinished_.fetch_sub(1)
FinishRegion(w) ==
  /\ pc[w] = "finish"
  /\ unfinished' = unfinished - 1
  /\ Goto(w, IF unfinished = 1 THEN "signal" ELSE "spin")
  /\ UNCHANGED <<dispatchVars, exceptionVars, last, left, callVars>>

\* unfinished_.notify_one(): only the caller ever waits for unfinished_.
SignalCaller(w) ==
  /\ pc[w] = "signal"
  /\ pc' = [pc EXCEPT ![w] = "spin", ![Caller] = IF @ = "parked" THEN "wait" ELSE @]
  /\ UNCHANGED <<dispatchVars, unfinished, exceptionVars, last, left, callVars>>

-----------------------------------------------------------------------------
(* Destruction *)

SetStop ==
  /\ pc[Caller] = "idle"
  /\ stop' = TRUE
  /\ Goto(Caller, "stopDispatch")
  /\ UNCHANGED <<state, task, unfinished, exceptionVars, last, left, callVars>>

\* fetch_add(epoch_step) leaves the low bits alone.
StopDispatch ==
  /\ pc[Caller] = "stopDispatch"
  /\ state' = [epoch |-> state.epoch + 1, used |-> state.used]
  /\ Goto(Caller, "stopNotify")
  /\ UNCHANGED <<stop, task, unfinished, exceptionVars, last, left, callVars>>

StopNotify ==
  /\ pc[Caller] = "stopNotify"
  /\ WakeWorkers("join")
  /\ UNCHANGED <<dispatchVars, unfinished, exceptionVars, last, left, callVars>>

\* The jthreads are joined by the destructor of threads_.
JoinWorkers ==
  /\ pc[Caller] = "join"
  /\ \A w \in Workers : pc[w] = "exited"
  /\ Goto(Caller, "gone")
  /\ UNCHANGED <<dispatchVars, unfinished, exceptionVars, last, left, callVars>>

\* Nothing is left to do.
Terminated ==
  /\ pc[Caller] \in {"gone", "failed"}
  /\ UNCHANGED vars

-----------------------------------------------------------------------------
RunStep(t) == Begin(t) \/ EndBody(t) \/ ClaimException(t) \/ SaveException(t)

\* What the caller does once it has called: everything but deciding to call
\* execute or to destroy the pool.
CallerStep ==
  \/ \E w \in Workers : SpawnWorker(w)
  \/ EndUnwinding
  \/ ReturnEmpty
  \/ BeginInline \/ EndInline \/ ReturnInline
  \/ SetTask \/ SetUnfinished \/ Dispatch \/ NotifyWorkers
  \/ RunStep(Caller)
  \/ SpinCompletion \/ StopSpinningForCompletion \/ LoadUnfinished \/ WaitCompletion
  \/ CollectException \/ Rethrow
  \/ StopDispatch \/ StopNotify \/ JoinWorkers

WorkerStep(w) ==
  \/ SpinState(w) \/ StopSpinningForState(w) \/ WaitState(w) \/ ReloadState(w)
  \/ Exit(w) \/ Decide(w)
  \/ RunStep(w)
  \/ FinishRegion(w) \/ SignalCaller(w)

Next ==
  \/ CallerStep
  \/ SpawnFails
  \/ \E u \in 0 .. N : Execute(u)
  \/ SetStop
  \/ \E w \in Workers : WorkerStep(w)
  \/ \E t \in Threads : WakeSpuriously(t)
  \/ Terminated

Spec == Init /\ [][Next]_vars

\* The operating system keeps scheduling every thread that is not blocked, and
\* tasks return or throw.
FairSpec ==
  /\ Spec
  /\ WF_vars(CallerStep)
  /\ \A w \in Workers : WF_vars(WorkerStep(w))

-----------------------------------------------------------------------------
(* Properties *)

\* The caller is between dispatching a region and having seen it complete.
Dispatched ==
  pc[Caller] \in {"notify", "begin", "body", "claim", "save", "drain", "load", "wait", "parked"}

Running(t) == pc[t] \in {"begin", "body"}

\* The workers of the current region that have not reported completion.
Pending ==
  {w \in Workers : /\ w < state.used
                   /\ \/ last[w] # state
                      \/ pc[w] \in {"loaded", "begin", "body", "claim", "save", "finish"}}

CallerPcs ==
  {"spawning", "unwinding", "failed", "idle", "empty", "inline", "inlineBody", "inlined",
   "setTask", "setUnfinished", "dispatch", "notify", "begin", "body", "claim", "save",
   "drain", "load", "wait", "parked", "collect", "rethrow", "stopDispatch", "stopNotify",
   "join", "gone"}

WorkerPcs ==
  {"unborn", "spin", "wait", "parked", "reload", "loaded", "exited", "begin", "body",
   "claim", "save", "finish", "signal"}

\* The types; the unsigned unfinished_ in particular never wraps below zero.
TypeOK ==
  /\ pc \in [Threads -> CallerPcs \cup WorkerPcs]
  /\ pc[Caller] \in CallerPcs
  /\ \A w \in Workers : pc[w] \in WorkerPcs
  /\ state \in [epoch : Nat, used : 0 .. N]
  /\ stop \in BOOLEAN
  /\ task \in 0 .. MaxCalls
  /\ unfinished \in 0 .. N - 1
  /\ stored \in BOOLEAN
  /\ exception \in Threads \cup {NoException}
  /\ last \in [Workers -> [epoch : Nat, used : 0 .. N]]
  /\ left \in 0 .. N - 1
  /\ call \in 0 .. MaxCalls
  /\ used \in 0 .. N
  /\ body \in [Threads -> {"pending", "running"} \cup Ended]
  /\ outcome \in Threads \cup {NoException}

\* The callable lives on the caller's stack and only while `execute` runs: a thread
\* that is about to invoke it, or invokes it, is one of those the current call asked
\* for, and what it invokes is the callable of that call.
TaskAlive ==
  \A t \in Threads : Running(t) => Dispatched /\ task = call /\ t < used

\* exception_ is not atomic: nobody writes it while another thread writes it or the
\* caller takes it out.
ExceptionNotRaced ==
  \A t \in Threads : pc[t] = "save" =>
    /\ pc[Caller] # "rethrow"
    /\ \A s \in Threads \ {t} : pc[s] # "save"

\* While a region runs, unfinished_ is the number of participants that have not
\* reported, so it never reaches zero early or wraps below zero.
CountsPending == Dispatched => unfinished = Cardinality(Pending)

\* Nobody sleeps through what it waits for: if the word a parked worker waits on has
\* changed, the caller is about to notify, and if the caller is parked after the last
\* participant reported, that participant is about to notify.
NoLostWakeup ==
  /\ \A w \in Workers : pc[w] = "parked" /\ Word(state) # Word(last[w])
       => pc[Caller] \in {"notify", "stopNotify"}
  /\ pc[Caller] = "parked" /\ unfinished = 0 => \E w \in Workers : pc[w] = "signal"

\* A worker sleeps through a region it is needed for only if the epochs have gone once
\* round since the last word it saw.
MissedOnlyByWrap ==
  \A w \in Pending : pc[w] = "parked" /\ pc[Caller] \notin {"notify", "stopNotify"}
    => state.epoch - last[w].epoch >= EpochMod

\* Once a worker exists, a constructor that fails to create the next one never comes
\* back: it joins workers that nothing tells to stop.
StrandedByFailedSpawn ==
  [][pc[Caller] = "unwinding" /\ Unborn # Workers => pc'[Caller] = "unwinding"]_vars

Phase ==
  CASE pc[Caller] \in {"unborn", "spawning", "unwinding", "failed", "idle"} -> "idle"
    [] pc[Caller] \in {"stopDispatch", "stopNotify", "join", "gone"} -> "closed"
    [] OTHER -> "running"

Region == INSTANCE ParallelRegion WITH phase <- Phase

\* The pool is an executor: each call runs its task exactly once on each index it was
\* asked for, returns after the last of them, and throws what one of them threw.
ImplementsParallelRegion == Region!Spec

\* Every call comes to an end, whatever its tasks throw and however the threads wait.
CallsEnd == (Phase = "running") ~> (Phase = "idle")

\* Destroying the pool ends every worker and returns.
DestructionEnds == stop ~> (pc[Caller] = "gone")

=============================================================================

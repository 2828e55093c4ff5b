------------------------- MODULE FixedStdThreadPool -------------------------
(***************************************************************************)
(* thes::FixedStdThreadPool: N workers that a caller outside the pool      *)
(* hands a copy of its task through members guarded by one mutex, with a   *)
(* condition variable in each direction.  Every access to those members is *)
(* made under the mutex, so a critical section is one step; a notification *)
(* is made after the mutex has been released and is a step of its own.     *)
(***************************************************************************)
EXTENDS Integers, FiniteSets

CONSTANTS
  N,            \* threads_.size()
  IdMod,        \* the number of values a TaskID can tell apart
  MaxCalls,     \* bound: how many times the caller calls execute
  NoTask,       \* task_ when it is empty
  NoException   \* the outcome of every call: execute has no exception to throw

Workers == 0 .. N - 1

ASSUME NAssumption == N \in Nat \ {0}
ASSUME IdModAssumption == IdMod \in Nat \ {0, 1}
ASSUME MaxCallsAssumption == MaxCalls \in Nat
ASSUME NoTaskAssumption == NoTask \notin [call : 0 .. MaxCalls, used : 0 .. N]

VARIABLES
  main,        \* what the caller does next
  pc,          \* what each worker does next
  taskId,      \* task_id_
  task,        \* task_: which call's task, and how many threads it is for
  unfinished,  \* unfinished_
  lastId,      \* last_id of each worker
  job,         \* each worker's copy of task_
  aborted,     \* an exception left a task, and with it its thread
  call,        \* the number of calls so far
  used,        \* the threads the current (or last) call asked for
  body         \* what became of the task on each index in that call

guarded == <<taskId, task, unfinished>>
callVars == <<call, used, body>>
vars == <<main, pc, guarded, lastId, job, aborted, callVars>>

Jobs == [call : 0 .. MaxCalls, used : 0 .. N]

Goto(w, label) == pc' = [pc EXCEPT ![w] = label]

\* What start_work_.notify_all() does to the workers.
WokenWorkers == [w \in Workers |-> IF pc[w] = "waiting" THEN "check" ELSE pc[w]]

Init ==
  /\ main = "spawning"
  /\ pc = [w \in Workers |-> "unborn"]
  /\ taskId = 0
  /\ task = NoTask
  /\ unfinished = 0
  /\ lastId = [w \in Workers |-> 0]
  /\ job = [w \in Workers |-> NoTask]
  /\ aborted = FALSE
  /\ call = 0
  /\ used = 0
  /\ body = [w \in Workers |-> "pending"]

-----------------------------------------------------------------------------
(* Plausible mistakes, to stand in for the action they misspell. *)

\* The predicate is not evaluated before the caller first blocks.
AwaitBlindly ==
  /\ main = "await"
  /\ main' = "waiting"
  /\ UNCHANGED <<pc, guarded, lastId, job, aborted, callVars>>

\* The task is left in place when the call returns.
AwaitWithoutReset ==
  /\ main = "await"
  /\ main' = IF unfinished = 0 THEN "idle" ELSE "waiting"
  /\ UNCHANGED <<pc, guarded, lastId, job, aborted, callVars>>

\* The destructor notifies without changing the id the predicate looks at.
DestroySilently ==
  /\ main = "idle"
  /\ main' = "notifyStop"
  /\ UNCHANGED <<pc, guarded, lastId, job, aborted, callVars>>

\* A worker that is not needed forgets which task it has seen.
TakeForgetfully(w) ==
  /\ pc[w] = "check"
  /\ taskId # lastId[w]
  /\ task # NoTask
  /\ job' = [job EXCEPT ![w] = task]
  /\ lastId' = [lastId EXCEPT ![w] = IF w < task.used THEN taskId ELSE @]
  /\ Goto(w, "taken")
  /\ UNCHANGED <<main, guarded, aborted, callVars>>

\* Every thread runs the task.
BeginAlways(w) ==
  /\ pc[w] = "taken"
  /\ body' = [body EXCEPT ![w] = "running"]
  /\ Goto(w, "body")
  /\ UNCHANGED <<main, guarded, lastId, job, aborted, call, used>>

\* notify_one instead of notify_all: enough for one needed worker, but all must report.
NotifyOneForWork ==
  /\ main = "notifyWork"
  /\ IF \A w \in Workers : pc[w] # "waiting"
     THEN UNCHANGED pc
     ELSE \E w \in Workers : pc[w] = "waiting" /\ Goto(w, "check")
  /\ main' = "await"
  /\ UNCHANGED <<guarded, lastId, job, aborted, callVars>>

-----------------------------------------------------------------------------
(* Construction *)

Unborn == {w \in Workers : pc[w] = "unborn"}

SpawnWorker(w) ==
  /\ main = "spawning"
  /\ w \in Unborn
  /\ \A v \in Unborn : w <= v
  /\ Goto(w, "check")
  /\ main' = IF Unborn = {w} THEN "idle" ELSE "spawning"
  /\ UNCHANGED <<guarded, lastId, job, aborted, callVars>>

\* Creating a thread throws, and the jthreads created so far are joined.
SpawnFails ==
  /\ main = "spawning"
  /\ main' = "unwinding"
  /\ UNCHANGED <<pc, guarded, lastId, job, aborted, callVars>>

EndUnwinding ==
  /\ main = "unwinding"
  /\ \A w \in Workers : pc[w] \in {"unborn", "exited"}
  /\ main' = "failed"
  /\ UNCHANGED <<pc, guarded, lastId, job, aborted, callVars>>

-----------------------------------------------------------------------------
(* execute.  Without a number of threads the task runs on all of them, as   *)
(* it does for N.                                                          *)

Execute(u) ==
  /\ main = "idle"
  /\ call < MaxCalls
  /\ call' = call + 1
  /\ used' = u
  /\ body' = [w \in Workers |-> "pending"]
  /\ task' = [call |-> call + 1, used |-> u]
  /\ unfinished' = N
  /\ taskId' = (taskId + 1) % IdMod
  /\ main' = "notifyWork"
  /\ UNCHANGED <<pc, lastId, job, aborted>>

NotifyWork ==
  /\ main = "notifyWork"
  /\ pc' = WokenWorkers
  /\ main' = "await"
  /\ UNCHANGED <<guarded, lastId, job, aborted, callVars>>

\* end_work_.wait: the predicate is evaluated, and the caller blocks when it is false.
Await ==
  /\ main = "await"
  /\ IF unfinished = 0
     THEN main' = "idle" /\ task' = NoTask
     ELSE main' = "waiting" /\ UNCHANGED task
  /\ UNCHANGED <<pc, taskId, unfinished, lastId, job, aborted, callVars>>

-----------------------------------------------------------------------------
(* The loop of a worker *)

\* start_work_.wait
Block(w) ==
  /\ pc[w] = "check"
  /\ taskId = lastId[w]
  /\ Goto(w, "waiting")
  /\ UNCHANGED <<main, guarded, lastId, job, aborted, callVars>>

Exit(w) ==
  /\ pc[w] = "check"
  /\ taskId # lastId[w]
  /\ task = NoTask
  /\ Goto(w, "exited")
  /\ UNCHANGED <<main, guarded, lastId, job, aborted, callVars>>

Take(w) ==
  /\ pc[w] = "check"
  /\ taskId # lastId[w]
  /\ task # NoTask
  /\ job' = [job EXCEPT ![w] = task]
  /\ lastId' = [lastId EXCEPT ![w] = taskId]
  /\ Goto(w, "taken")
  /\ UNCHANGED <<main, guarded, aborted, callVars>>

Begin(w) ==
  /\ pc[w] = "taken"
  /\ w < job[w].used
  /\ body' = [body EXCEPT ![w] = "running"]
  /\ Goto(w, "body")
  /\ UNCHANGED <<main, guarded, lastId, job, aborted, call, used>>

Skip(w) ==
  /\ pc[w] = "taken"
  /\ w >= job[w].used
  /\ Goto(w, "report")
  /\ UNCHANGED <<main, guarded, lastId, job, aborted, callVars>>

End(w) ==
  /\ pc[w] = "body"
  /\ body' = [body EXCEPT ![w] = "returned"]
  /\ Goto(w, "report")
  /\ UNCHANGED <<main, guarded, lastId, job, aborted, call, used>>

\* An exception that leaves the function of a thread ends the program.
Throw(w) ==
  /\ pc[w] = "body"
  /\ body' = [body EXCEPT ![w] = "threw"]
  /\ aborted' = TRUE
  /\ UNCHANGED <<main, pc, guarded, lastId, job, call, used>>

Report(w) ==
  /\ pc[w] = "report"
  /\ unfinished' = unfinished - 1
  /\ Goto(w, "notify")
  /\ UNCHANGED <<main, taskId, task, lastId, job, aborted, callVars>>

\* end_work_.notify_all()
NotifyEnd(w) ==
  /\ pc[w] = "notify"
  /\ main' = IF main = "waiting" THEN "await" ELSE main
  /\ Goto(w, "check")
  /\ UNCHANGED <<guarded, lastId, job, aborted, callVars>>

-----------------------------------------------------------------------------
\* Waiting on a condition variable may end without a notification.
WakeSpuriously ==
  /\ \/ /\ main = "waiting"
        /\ main' = "await"
        /\ UNCHANGED pc
     \/ \E w \in Workers : /\ pc[w] = "waiting"
                           /\ Goto(w, "check")
                           /\ UNCHANGED main
  /\ UNCHANGED <<guarded, lastId, job, aborted, callVars>>

-----------------------------------------------------------------------------
(* Destruction *)

Destroy ==
  /\ main = "idle"
  /\ taskId' = (taskId + 1) % IdMod
  /\ main' = "notifyStop"
  /\ UNCHANGED <<pc, task, unfinished, lastId, job, aborted, callVars>>

NotifyStop ==
  /\ main = "notifyStop"
  /\ pc' = WokenWorkers
  /\ main' = "join"
  /\ UNCHANGED <<guarded, lastId, job, aborted, callVars>>

JoinWorkers ==
  /\ main = "join"
  /\ \A w \in Workers : pc[w] = "exited"
  /\ main' = "gone"
  /\ UNCHANGED <<pc, guarded, lastId, job, aborted, callVars>>

-----------------------------------------------------------------------------
CallerStep ==
  /\ ~aborted
  /\ \/ \E w \in Workers : SpawnWorker(w)
     \/ EndUnwinding
     \/ NotifyWork \/ Await
     \/ NotifyStop \/ JoinWorkers

WorkerStep(w) ==
  /\ ~aborted
  /\ \/ Block(w) \/ Exit(w) \/ Take(w)
     \/ Begin(w) \/ Skip(w) \/ End(w) \/ Throw(w)
     \/ Report(w) \/ NotifyEnd(w)

\* What the program decides, and what the threads are exposed to.
Choice ==
  /\ ~aborted
  /\ \/ \E u \in 0 .. N : Execute(u)
     \/ Destroy
     \/ SpawnFails
     \/ WakeSpuriously

Terminated == (aborted \/ main \in {"gone", "failed"}) /\ UNCHANGED vars

Next == CallerStep \/ (\E w \in Workers : WorkerStep(w)) \/ Choice \/ Terminated

Spec == Init /\ [][Next]_vars

\* Every thread that can run keeps running, and so every task returns or throws.
FairSpec ==
  /\ Spec
  /\ WF_vars(CallerStep)
  /\ \A w \in Workers : WF_vars(WorkerStep(w))

-----------------------------------------------------------------------------
(* Properties *)

Calling == main \in {"notifyWork", "await", "waiting"}

Unreported ==
  {w \in Workers : lastId[w] # taskId \/ pc[w] \in {"taken", "body", "report"}}

\* The types; the unsigned unfinished_ in particular never wraps below zero.
TypeOK ==
  /\ main \in {"spawning", "unwinding", "failed", "idle", "notifyWork", "await", "waiting",
               "notifyStop", "join", "gone"}
  /\ pc \in [Workers -> {"unborn", "check", "waiting", "taken", "body", "report", "notify",
                         "exited"}]
  /\ taskId \in 0 .. IdMod - 1
  /\ task \in Jobs \cup {NoTask}
  /\ unfinished \in 0 .. N
  /\ lastId \in [Workers -> 0 .. IdMod - 1]
  /\ job \in [Workers -> Jobs \cup {NoTask}]
  /\ aborted \in BOOLEAN
  /\ call \in 0 .. MaxCalls
  /\ used \in 0 .. N
  /\ body \in [Workers -> {"pending", "running", "returned", "threw"}]

\* Every worker, needed or not, reports each call once: unfinished_ counts the ones
\* that have not, and outside a call no worker is behind.  That is why an id that only
\* differs from the last one tells a worker all it needs to know.
CountsUnreported ==
  /\ TypeOK
  /\ Calling => unfinished = Cardinality(Unreported)
  /\ main = "idle" => unfinished = 0 /\ Unreported = {}

\* A worker works on the task of the call that is in progress, and leaves for good only
\* once the destructor has asked it to.
JobIsCurrent ==
  \A w \in Workers :
    /\ pc[w] \in {"taken", "body"} => Calling /\ job[w] = task /\ task.call = call
    /\ pc[w] = "exited" => main \in {"notifyStop", "join", "gone"}

\* A thread that blocks on a condition variable although what it waits for has happened
\* is about to be notified.
NoLostWakeup ==
  /\ \A w \in Workers :
       pc[w] = "waiting" /\ lastId[w] # taskId => main \in {"notifyWork", "notifyStop"}
  /\ main = "waiting" /\ unfinished = 0 => \E w \in Workers : pc[w] = "notify"

Phase ==
  IF main \in {"spawning", "unwinding", "failed", "idle"} THEN "idle"
  ELSE IF Calling THEN "running" ELSE "closed"

Region == INSTANCE ParallelRegion WITH phase <- Phase, outcome <- NoException

\* The pool is an executor whose calls never throw: each runs its task once on each
\* index it asks for and returns after the last of them.
ImplementsParallelRegion == Region!Spec

\* Every call comes to an end unless a task throws.
CallsEnd == Calling ~> (main = "idle" \/ aborted)

\* Destroying the pool ends every worker and returns.
DestructionEnds == (main = "notifyStop") ~> (main = "gone")

=============================================================================

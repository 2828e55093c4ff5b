--------------------------- MODULE ParallelRegion ---------------------------
(***************************************************************************)
(* What an executor promises the thread that calls `execute(task, used)`:  *)
(* the task runs once on every index below `used` and on no other one, the *)
(* call returns after all of them are done, and when some of them threw,   *)
(* the call throws what one of those threw.  Nothing is said about threads,*)
(* queues or how anybody waits.                                            *)
(***************************************************************************)
EXTENDS Integers

CONSTANTS
  N,            \* the executor's thread_num()
  NoException   \* the outcome of a call that returns normally

Threads == 0 .. N - 1

VARIABLES
  phase,    \* "idle" between calls, "running" inside one, "closed" for good
  used,     \* how many indices the current (or last) call runs
  body,     \* what became of the task on each index in that call
  outcome   \* how the last call ended: NoException or the index that threw

vars == <<phase, used, body, outcome>>

Ended == {"returned", "threw"}

\* The types of the four variables.
TypeOK ==
  /\ phase \in {"idle", "running", "closed"}
  /\ used \in 0 .. N
  /\ body \in [Threads -> {"pending", "running"} \cup Ended]
  /\ outcome \in Threads \cup {NoException}

Init ==
  /\ phase = "idle"
  /\ used = 0
  /\ body = [i \in Threads |-> "pending"]
  /\ outcome = NoException

Call(u) ==
  /\ phase = "idle"
  /\ phase' = "running"
  /\ used' = u
  /\ body' = [i \in Threads |-> "pending"]
  /\ UNCHANGED outcome

Start(i) ==
  /\ phase = "running"
  /\ i < used
  /\ body[i] = "pending"
  /\ body' = [body EXCEPT ![i] = "running"]
  /\ UNCHANGED <<phase, used, outcome>>

Finish(i) ==
  /\ body[i] = "running"
  /\ \E how \in Ended : body' = [body EXCEPT ![i] = how]
  /\ UNCHANGED <<phase, used, outcome>>

\* The indices the call asked for are done, and no other one was touched.
AllDone == \A i \in Threads : IF i < used THEN body[i] \in Ended ELSE body[i] = "pending"

Threw == {i \in Threads : body[i] = "threw"}

\* The call ends; its outcome is one of the exceptions if there are any.
Return ==
  /\ phase = "running"
  /\ AllDone
  /\ outcome' \in IF Threw = {} THEN {NoException} ELSE Threw
  /\ phase' = "idle"
  /\ UNCHANGED <<used, body>>

Close ==
  /\ phase = "idle"
  /\ phase' = "closed"
  /\ UNCHANGED <<used, body, outcome>>

Next ==
  \/ \E u \in 0 .. N : Call(u)
  \/ \E i \in Threads : Start(i) \/ Finish(i)
  \/ Return
  \/ Close

Spec == Init /\ [][Next]_vars
=============================================================================

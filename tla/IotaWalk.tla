------------------------------ MODULE IotaWalk ------------------------------
(***************************************************************************)
(* What a walk over the segments of a range amounts to if they partition   *)
(* it: every index of [first, last) once, in order.                        *)
(***************************************************************************)
EXTENDS Integers

VARIABLES
  first,   \* the first index
  last,    \* one past the last index
  at,      \* the index the walk has come to
  ended    \* whether the walk is over

vars == <<first, last, at, ended>>

Init == first <= last /\ at = first /\ ended = FALSE

Visit == at < last /\ at' = at + 1 /\ UNCHANGED <<first, last, ended>>

End == at = last /\ ended' = TRUE /\ UNCHANGED <<first, last, at>>

Next == ~ended /\ (Visit \/ End)

Spec == Init /\ [][Next]_vars
=============================================================================

----------------------------- MODULE NestedArray -----------------------------
(***************************************************************************)
(* Building a NestedDynamicArray (containers/nested-dynamic-array.hpp):    *)
(* groups of elements in one allocation, and the offsets that delimit them *)
(* in another.  N threads build consecutive parts at the same time, each   *)
(* through a cursor of its own (part_builder); a FlatBuilder builds all of *)
(* it alone.  Elements are numbered in the order in which they are to      *)
(* lie; lens says how many each group has.                                 *)
(***************************************************************************)
EXTENDS Integers, Sequences, FiniteSets

CONSTANTS N,  \* threads, each of which builds a part
          MaxGroups, MaxLength

VARIABLES flat,     \* that it is a FlatBuilder
          lens,     \* the lengths of the groups
          bound,    \* bound[t], bound[t + 1]: the groups of the part t, counted from 0
          offsets, values, offsetAt, valueAt, built

nestedVars == <<flat, lens, bound, offsets, values, offsetAt, valueAt, built>>

\* How many elements the groups before g have.
Before(g) ==
  LET before[h \in 0 .. Len(lens)] == IF h = 0 THEN 0 ELSE before[h - 1] + lens[h]
  IN  before[g]

Raw == -1  \* nothing has been written
Blank(k) == [i \in 0 .. k - 1 |-> Raw]

Parts == 1 .. Len(bound) - 1

NestedInit ==
  /\ \E k \in 0..MaxGroups : lens \in [1..k -> 0..MaxLength]
  /\ flat \in BOOLEAN
  /\ bound \in [1 .. (IF flat THEN 1 ELSE N) + 1 -> 0..Len(lens)]
  /\ bound[1] = 0 /\ bound[Len(bound)] = Len(lens)
  /\ \A t \in Parts : bound[t] <= bound[t + 1]
  /\ offsets = <<>> /\ values = <<>> /\ built = FALSE
  /\ offsetAt = <<>> /\ valueAt = <<>>

-----------------------------------------------------------------------------
(* A plausible mistake, to stand in for the definition it misspells. *)

\* advance_group writes before it moves on.
AdvanceGroupAfter(t) ==
  /\ offsetAt # <<>> /\ offsetAt[t] < bound[t + 1] /\ valueAt[t] = Before(offsetAt[t] + 1)
  /\ offsetAt' = [offsetAt EXCEPT ![t] = @ + 1]
  /\ offsets' = [offsets EXCEPT ![offsetAt[t]] = valueAt[t]]
  /\ UNCHANGED <<flat, lens, bound, values, valueAt, built>>

-----------------------------------------------------------------------------
\* initialize writes the first offset; part_builder(nested_from, full_from) puts the cursors there.
Initialize ==
  /\ ~flat /\ offsetAt = <<>>
  /\ offsets' = [Blank(Len(lens) + 1) EXCEPT ![0] = 0]
  /\ values' = Blank(Before(Len(lens)))
  /\ offsetAt' = [t \in Parts |-> bound[t]]
  /\ valueAt' = [t \in Parts |-> Before(bound[t])]
  /\ UNCHANGED <<flat, lens, bound, built>>

InitializeFlat ==
  /\ flat /\ offsetAt = <<>>
  /\ offsets' = [Blank(Len(lens) + 1) EXCEPT ![0] = 0] /\ offsetAt' = <<0>>
  /\ values' = Blank(Before(Len(lens))) /\ valueAt' = <<0>>
  /\ UNCHANGED <<flat, lens, bound, built>>

\* The thread goes through its groups and calls emplace for each of their elements.
Emplace(t) ==
  /\ offsetAt # <<>> /\ offsetAt[t] < bound[t + 1] /\ valueAt[t] < Before(offsetAt[t] + 1)
  /\ values' = [values EXCEPT ![valueAt[t]] = valueAt[t]]
  /\ valueAt' = [valueAt EXCEPT ![t] = @ + 1]
  /\ UNCHANGED <<flat, lens, bound, offsets, offsetAt, built>>

\* advance_group moves on before it writes: an offset is the end of a group.
AdvanceGroup(t) ==
  /\ offsetAt # <<>> /\ offsetAt[t] < bound[t + 1] /\ valueAt[t] = Before(offsetAt[t] + 1)
  /\ offsetAt' = [offsetAt EXCEPT ![t] = @ + 1]
  /\ offsets' = [offsets EXCEPT ![offsetAt[t] + 1] = valueAt[t]]
  /\ UNCHANGED <<flat, lens, bound, values, valueAt, built>>

\* A FlatBuilder does the same with the cursors it keeps itself.
FlatStep == flat /\ (Emplace(1) \/ AdvanceGroup(1))

\* NestedBuilder::build cannot know whether the parts are done; the program does.
Build ==
  /\ ~flat /\ offsetAt # <<>> /\ \A t \in Parts : offsetAt[t] = bound[t + 1]
  /\ ~built /\ built' = TRUE
  /\ UNCHANGED <<flat, lens, bound, offsets, values, offsetAt, valueAt>>

BuildFlat ==
  /\ flat /\ offsetAt # <<>> /\ ~built
  /\ offsetAt[1] + 1 = Len(lens) + 1 /\ valueAt[1] = Before(Len(lens))
  /\ built' = TRUE
  /\ UNCHANGED <<flat, lens, bound, offsets, values, offsetAt, valueAt>>

NestedNext ==
  \/ Initialize \/ InitializeFlat \/ FlatStep \/ Build \/ BuildFlat
  \/ ~flat /\ \E t \in Parts : Emplace(t) \/ AdvanceGroup(t)

NestedSpec == NestedInit /\ [][NestedNext]_nestedVars

-----------------------------------------------------------------------------
GroupNum == Cardinality(DOMAIN offsets) - 1

\* operator[]: the elements between two offsets.
Group(g) == [i \in 1 .. offsets[g + 1] - offsets[g] |-> values[offsets[g] + i - 1]]

\* However the builders of the parts interleave, each group has its own elements once all are done;
\* and until then no builder waits for, or writes, an offset or an element that another one writes.
GroupsAreRight ==
  /\ built => GroupNum = Len(lens) /\ \A g \in 0 .. Len(lens) - 1 : Group(g) = [i \in 1..lens[g + 1] |-> Before(g) + i - 1]
  /\ offsetAt # <<>> => \A g \in 1..Len(lens) :
       offsets[g] # Raw <=> \E t \in Parts : bound[t] < g /\ g <= offsetAt[t]
=============================================================================

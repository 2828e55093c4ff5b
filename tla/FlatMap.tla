------------------------------- MODULE FlatMap -------------------------------
(***************************************************************************)
(* FlatMap and FlatSet (containers/flat-map.hpp, flat-set.hpp) with the    *)
(* algorithms they share (containers/set-algorithms.hpp): an array of      *)
(* pairs sorted by their keys; a set is a map from its elements to one     *)
(* value.  dict is the function from keys to values that the operations    *)
(* promise.                                                                *)
(*                                                                         *)
(* descending says that the container's order is not the default one: set_ *)
(* difference is called without it.                                        *)
(***************************************************************************)
EXTENDS Integers, Sequences, SequencesExt, FiniteSets

CONSTANTS Keys, Mapped  \* Keys are integers

VARIABLES isSet, data, dict, descending, wrongOrder

flatVars == <<isSet, data, dict, descending, wrongOrder>>

Pairs == Keys \X Mapped

Before(k, l) == IF descending THEN l < k ELSE k < l
PairLess(p, q) == p[1] < q[1] \/ (p[1] = q[1] /\ p[2] < q[2])

\* What a second container of the type may be: sorted, one pair for each of some keys.
InOrder(f) ==
  LET sorted == CHOOSE s \in Bijection(1..Cardinality(DOMAIN f), DOMAIN f) :
                  \A i, j \in DOMAIN s : i < j => Before(s[i], s[j])
  IN  [i \in 1..Len(sorted) |-> <<sorted[i], f[sorted[i]]>>]
Unit == CHOOSE v \in Mapped : TRUE  \* what an element of a set maps to
Others == UNION {[D -> IF isSet THEN {Unit} ELSE Mapped] : D \in SUBSET Keys}

FlatInit == isSet \in BOOLEAN /\ data = <<>> /\ dict = <<>> /\ descending \in BOOLEAN /\ wrongOrder = FALSE

-----------------------------------------------------------------------------
\* The first position of S, positions up to n, and the one behind n if there is none.
FirstOf(S, n) == IF S = {} THEN n + 1 ELSE CHOOSE i \in S : \A j \in S : i <= j

\* The first position whose key is not before k; Found says that the key is there.
LowerBoundIn(r, k) == FirstOf({i \in 1..Len(r) : ~Before(r[i][1], k)}, Len(r))
LowerBound(k) == LowerBoundIn(data, k)
Found(k) == LowerBound(k) <= Len(data) /\ data[LowerBound(k)][1] = k

Becomes(d, f) == data' = d /\ dict' = f /\ UNCHANGED <<isSet, descending, wrongOrder>>
With(k, v) == [l \in DOMAIN dict \cup {k} |-> IF l = k THEN v ELSE dict[l]]
Without(D) == [l \in DOMAIN dict \ D |-> dict[l]]

\* insert, and get_or_insert, whose result is the value that is there then.
Insert(k, v) ==
  IF Found(k) THEN UNCHANGED flatVars
  ELSE Becomes(InsertAt(data, LowerBound(k), <<k, v>>), With(k, v))

TransformOrCreate(k, v, w) ==
  IF Found(k) THEN Becomes([data EXCEPT ![LowerBound(k)] = <<k, v>>], With(k, v))
  ELSE Becomes(InsertAt(data, LowerBound(k), <<k, w>>), With(k, w))

Erase(k) == IF Found(k) THEN Becomes(RemoveAt(data, LowerBound(k)), Without({k})) ELSE UNCHANGED flatVars

\* FlatSet's contains and find, insert and erase
HasElement(e) == LET at == LowerBound(e) IN at <= Len(data) /\ data[at] = <<e, Unit>>
InsertElement(e) ==
  IF HasElement(e) THEN UNCHANGED flatVars
  ELSE Becomes(InsertAt(data, LowerBound(e), <<e, Unit>>), With(e, Unit))
EraseElement(e) ==
  IF HasElement(e) THEN Becomes(RemoveAt(data, LowerBound(e)), Without({e})) ELSE UNCHANGED flatVars

PopFront ==
  /\ data # <<>>
  /\ Becomes(Tail(data), Without({CHOOSE k \in DOMAIN dict : \A l \in DOMAIN dict : k = l \/ Before(k, l)}))

\* erase_if: what stays moves to the front, in order.
Kept(r, D) ==
  LET kept[n \in 0..Len(r)] ==
        IF n = 0 THEN <<>> ELSE IF r[n][1] \in D THEN kept[n - 1] ELSE Append(kept[n - 1], r[n])
  IN  kept[Len(r)]
EraseIf(D) == Becomes(Kept(data, D), Without(D))

Clear == Becomes(<<>>, <<>>)

-----------------------------------------------------------------------------
(* A plausible mistake, to stand in for the definition it misspells. *)

\* Only what is behind all of the old elements is found to be missing.
SetUnionAtTheEnd(r1, r2) ==
  LET Next(at, e) == FirstOf({i \in at..Len(r1) : ~Before(r1[i][1], e[1])}, Len(r1))
      at[n \in 0..Len(r2)] == IF n = 0 THEN 1 ELSE Next(at[n - 1], r2[n])
      r[n \in 0..Len(r2)] ==
        IF n = 0 THEN r1 ELSE IF at[n] > Len(r1) THEN Append(r[n - 1], r2[n]) ELSE r[n - 1]
  IN  r[Len(r2)]

-----------------------------------------------------------------------------
\* set_union_unsorted: what is missing goes to the end while the old elements are passed in step;
\* at[n] is i1, and r[n] is r1, after n elements of the other range.
SetUnionUnsorted(r1, r2) ==
  LET Next(at, e) == FirstOf({i \in at..Len(r1) : ~Before(r1[i][1], e[1])}, Len(r1))
      at[n \in 0..Len(r2)] == IF n = 0 THEN 1 ELSE Next(at[n - 1], r2[n])
      r[n \in 0..Len(r2)] ==
        IF n = 0 THEN r1
        ELSE IF at[n] > Len(r1) \/ r1[at[n]][1] # r2[n][1] THEN Append(r[n - 1], r2[n]) ELSE r[n - 1]
  IN  r[Len(r2)]

\* std::sort
Sorted(r) ==
  LET order == CHOOSE p \in Bijection(1..Len(r), 1..Len(r)) :
                 \A i, j \in 1..Len(r) : i < j => ~Before(r[p[j]][1], r[p[i]][1])
  IN  [i \in 1..Len(r) |-> r[order[i]]]

SetUnion(f) ==
  Becomes(Sorted(SetUnionUnsorted(data, InOrder(f))),
          [k \in DOMAIN dict \cup DOMAIN f |-> IF k \in DOMAIN dict THEN dict[k] ELSE f[k]])

\* set_difference: what stays is swapped to the front; std::less and std::equal_to of the elements,
\* which are pairs in a map, whatever the container's order is.
SetDifferenceOf(r1, r2) ==
  LET Next(at, e) == FirstOf({i \in at..Len(r2) : ~PairLess(r2[i], e)}, Len(r2))
      at[n \in 0..Len(r1)] == IF n = 0 THEN 1 ELSE Next(at[n - 1], r1[n])
      r[n \in 0..Len(r1)] ==
        IF n = 0 THEN <<>>
        ELSE IF at[n] > Len(r2) \/ r2[at[n]] # r1[n] THEN Append(r[n - 1], r1[n]) ELSE r[n - 1]
  IN  r[Len(r1)]

\* find_sorted: a position, the one behind the last one if there is no such element
FindSorted(r, k) ==
  LET at == LowerBoundIn(r, k) IN IF at <= Len(r) /\ r[at][1] = k THEN at ELSE Len(r) + 1

SetDifference(f) ==
  /\ data' = SetDifferenceOf(data, InOrder(f))
  /\ dict' = Without({k \in DOMAIN dict \cap DOMAIN f : dict[k] = f[k]})
  /\ wrongOrder' = descending
  /\ UNCHANGED <<isSet, descending>>

FlatNext ==
  /\ ~wrongOrder
  /\ \/ PopFront \/ Clear
     \/ isSet /\ \E e \in Keys : InsertElement(e) \/ EraseElement(e)
     \/ ~isSet /\ \E k \in Keys : Erase(k) \/ \E v, w \in Mapped : Insert(k, v) \/ TransformOrCreate(k, v, w)
     \/ \E D \in SUBSET Keys : EraseIf(D)
     \/ \E f \in Others : SetUnion(f) \/ SetDifference(f)

FlatSpec == FlatInit /\ [][FlatNext]_flatVars

-----------------------------------------------------------------------------
\* The array is sorted without duplicates and has the pairs of the map, also after a union or a
\* difference in one pass; lookup finds each key there is and no other.  A difference in another
\* order than the default one keeps more than it should, and never less.
MapsItsKeys ==
  /\ ~wrongOrder => data = InOrder(dict)
  /\ ~wrongOrder => \A k \in Keys :
       /\ (IF isSet THEN HasElement(k) ELSE Found(k)) <=> k \in DOMAIN dict
       /\ FindSorted(data, k) <= Len(data) <=> k \in DOMAIN dict
  /\ {<<k, dict[k]>> : k \in DOMAIN dict} \subseteq {data[i] : i \in 1..Len(data)}
  /\ \A i, j \in 1..Len(data) : i < j => Before(data[i][1], data[j][1])
=============================================================================

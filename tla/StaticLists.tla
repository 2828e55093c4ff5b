------------------------------ MODULE StaticLists ------------------------------
(***************************************************************************)
(* Lists that the compiler works on: the views and sinks of static-ranges/ *)
(* (a view has a size and gives the element at each index), tuples         *)
(* (types/tuple.hpp), maps with static keys (utility/static-map.hpp), and  *)
(* lists of types (types/type-sequence/) with the smallest and largest     *)
(* types of types/type-transformations.hpp.  ListRight says in terms of    *)
(* the whole list what the definitions say element by element.             *)
(***************************************************************************)
EXTENDS Integers, Sequences, FiniteSets, SequencesExt

CONSTANT MaxList  \* the longest list

Upto(n) == [i \in 1..n |-> i - 1]
Sum(s) == FoldLeft(LAMBDA a, b : a + b, 0, s)
View(size, get(_)) == [i \in 1..size |-> get(i - 1)]
GetAt(list, i) == list[i + 1]

-----------------------------------------------------------------------------
(* Views; indices are counted from 0. *)

Iota(first, last, step) == View((last - first + step - 1) \div step, LAMBDA i : first + i * step)
Constant(n, v) == View(n, LAMBDA i : v)
Generate(n, gen) == View(n, LAMBDA i : gen)
EnumerateView(list) == View(Len(list), LAMBDA i : <<i, GetAt(list, i)>>)
ReversedView(list) == View(Len(list), LAMBDA i : GetAt(list, Len(list) - i - 1))
TransformView(fun, list) == View(Len(list), LAMBDA i : fun[GetAt(list, i)])
ZipView(lists) == View(Len(Head(lists)), LAMBDA i : [j \in DOMAIN lists |-> GetAt(lists[j], i)])
ElementsView(k, list) == TransformView([tuple \in ToSet(list) |-> GetAt(tuple, k)], list)

FilterView(list, idxs) == View(Len(idxs), LAMBDA i : GetAt(list, GetAt(idxs, i)))
SubRange(list, first, last) == FilterView(list, Iota(first, last, 1))
AllExceptIndices(list, idxs) ==
  FilterView(list, FoldLeft(LAMBDA kept, i : IF \E j \in DOMAIN idxs : idxs[j] = i THEN kept ELSE Append(kept, i),
                            <<>>, Upto(Len(list))))
\* keep: the pairs of an index and an element that the filter keeps
Filter(list, keep) ==
  FilterView(list, FoldLeft(LAMBDA kept, i : IF <<i, GetAt(list, i)>> \in keep THEN Append(kept, i) ELSE kept,
                            <<>>, Upto(Len(list))))

\* The list that an index falls into, and the index in it.
JoinIndex(lists, i) ==
  LET before == [k \in 1 .. Len(lists) + 1 |-> Sum([j \in 1 .. k - 1 |-> Len(lists[j])])]
      k == CHOOSE k \in DOMAIN lists : before[k] <= i /\ i < before[k + 1]
  IN  <<k, i - before[k]>>
JoinView(lists) ==
  View(Sum([k \in DOMAIN lists |-> Len(lists[k])]),
       LAMBDA i : LET at == JoinIndex(lists, i) IN GetAt(lists[at[1]], at[2]))

-----------------------------------------------------------------------------
(* Sinks *)

LeftReduce(op, list, initial) == FoldLeft(LAMBDA a, b : op[a, b], initial, list)
RightReduce(op, list, initial) == FoldRight(LAMBDA a, b : op[a, b], list, initial)
LeftReduceAll(op, list) == LeftReduce(op, Tail(list), GetAt(list, 0))
RightReduceAll(op, list) == RightReduce(op, Front(list), Last(list))

And == [a, b \in BOOLEAN |-> a /\ b]
Times == [a, b \in Int |-> a * b]
AllDifferent(list) ==
  LET Later(i) == View(Len(list) - i - 1, LAMBDA j : GetAt(list, i) # GetAt(list, i + 1 + j))
      Rows == View(Len(list), LAMBDA i : LeftReduce(And, Later(i), TRUE))
  IN  LeftReduce(And, Rows, TRUE)
\* A value is its type and what it is; values of other types are not compared.
HasTyped(list, v) == \E i \in DOMAIN list : list[i].type = v.type /\ list[i] = v
\* The first of the optional values that is not empty; <<>> is empty.
FirstValue(list) ==
  IF \A i \in DOMAIN list : list[i] = <<>> THEN <<>>
  ELSE list[CHOOSE i \in DOMAIN list : list[i] # <<>> /\ \A j \in 1 .. i - 1 : list[j] = <<>>]
Least(a, b) == IF b < a THEN b ELSE a
Most(a, b) == IF a < b THEN b ELSE a
Minmax(list) ==
  FoldLeft(LAMBDA acc, i : <<Least(acc[1], GetAt(list, i)), Most(acc[2], GetAt(list, i))>>,
           <<GetAt(list, 0), GetAt(list, 0)>>, Iota(1, Len(list), 1))
HasUniqueValue(list) == list # <<>> /\ \A i \in 1 .. Len(list) - 1 : GetAt(list, 0) = GetAt(list, i)
UniqueValue(list) == IF HasUniqueValue(list) THEN <<GetAt(list, 0)>> ELSE <<>>
PostfixProducts(list) ==
  View(Len(list) + 1, LAMBDA i : LeftReduce(Times, View(Len(list) - i, LAMBDA j : GetAt(list, i + j)), 1))
\* piping: generators that are combined run one after the other
Combined(gens, list) == FoldLeft(LAMBDA l, gen : gen[l], list, gens)

\* Tuples are compared leaf by leaf.
TupleLess(s, t) == \E i \in DOMAIN s : s[i] < t[i] /\ \A j \in 1 .. i - 1 : s[j] = t[j]

-----------------------------------------------------------------------------
(* StaticMap: pairs whose keys are all different, searched from the front. *)

Keys(map) == TransformView([pair \in ToSet(map) |-> pair[1]], map)
MapContains(map, k) == \E i \in DOMAIN map : map[i][1] = k
OnlyKeys(map, ks) ==
  LeftReduce(And, TransformView([key \in ToSet(Keys(map)) |-> \E i \in DOMAIN ks : ks[i] = key], Keys(map)), TRUE)
RECURSIVE MapGet(_, _, _, _)
MapGet(map, k, default, i) ==
  IF i = Len(map) THEN default
  ELSE IF GetAt(map, i)[1] = k THEN GetAt(map, i)[2] ELSE MapGet(map, k, default, i + 1)

-----------------------------------------------------------------------------
(* Lists of types, some of which are lists of types themselves. *)

Type(name) == [name |-> name, types |-> <<>>]
Types(ts) == [name |-> "TypeSeq", types |-> ts]
IsSeq(t) == t.name = "TypeSeq"
AsTypeSeq(t) == IF IsSeq(t) THEN t.types ELSE <<t>>

RECURSIVE JoinedTypeSeq(_), CartesianTypeSeq(_), FlatTypeSeq(_), IndexFilteredTypeSeq(_, _, _), UniqueTypeSeq(_)
JoinedTypeSeq(seqs) ==
  CASE seqs = <<>> -> <<>>
    [] Len(seqs) = 2 -> seqs[1] \o seqs[2]
    [] OTHER -> JoinedTypeSeq(<<Head(seqs), JoinedTypeSeq(Tail(seqs))>>)
\* One type and no more lists; one type before all products of the others; each type of the head in turn.
CartesianTypeSeq(seqs) ==
  IF Len(Head(seqs)) = 1
  THEN IF Len(seqs) = 1 THEN <<Head(seqs)>>
       ELSE LET products == CartesianTypeSeq(Tail(seqs)) IN [i \in DOMAIN products |-> Head(seqs) \o products[i]]
  ELSE JoinedTypeSeq([i \in DOMAIN Head(seqs) |-> CartesianTypeSeq(<<<<Head(seqs)[i]>>>> \o Tail(seqs))])
FlatTypeSeq(ts) ==
  IF Len(ts) = 1 /\ ~IsSeq(ts[1]) THEN ts ELSE JoinedTypeSeq([i \in DOMAIN ts |-> FlatTypeSeq(AsTypeSeq(ts[i]))])
TransformedTypeSeq(map, ts) == [i \in DOMAIN ts |-> map[ts[i]]]
ReducedTypeSeq(combine, ts, init) == FoldLeft(LAMBDA acc, t : combine[acc, t], init, ts)
FilteredTypeSeq(ts, keep) == FoldRight(LAMBDA t, rest : IF t \in keep THEN <<t>> \o rest ELSE rest, ts, <<>>)
IndexFilteredTypeSeq(idx, ts, idxs) ==
  IF ts = <<>> THEN <<>>
  ELSE (IF \E i \in DOMAIN idxs : idxs[i] = idx THEN <<Head(ts)>> ELSE <<>>)
         \o IndexFilteredTypeSeq(idx + 1, Tail(ts), idxs)
UniqueTypeSeq(ts) ==
  IF ts = <<>> THEN <<>> ELSE <<Head(ts)>> \o UniqueTypeSeq(FilteredTypeSeq(Tail(ts), ToSet(ts) \ {Head(ts)}))
IsUniqueType(ts) == ts # <<>> /\ \A i \in DOMAIN ts : ts[i] = Head(ts)

\* Integer types by their bytes; the type for a number of bytes has the next power of two of them.
IntTypes == [bytes : {1, 2, 4, 8, 16}, signed : BOOLEAN]
FixedInt(bytes, signed) ==
  [bytes |-> CHOOSE b \in {1, 2, 4, 8, 16, 32} : b >= bytes /\ b < 2 * bytes, signed |-> signed]
UnionOfTwo(s, t) ==
  CASE s = t -> s
    [] s.signed = t.signed -> IF s.bytes > t.bytes THEN s ELSE t
    [] s.signed # t.signed -> LET u == IF s.signed THEN t ELSE s
                                  i == IF s.signed THEN s ELSE t
                              IN  IF u.bytes < i.bytes THEN i ELSE FixedInt(2 * u.bytes, TRUE)
UnionType(ts) == FoldLeft(UnionOfTwo, Head(ts), Tail(ts))
IntersectionType(ts) == FoldLeft(LAMBDA s, t : IF s.bytes < t.bytes THEN s ELSE t, Head(ts), Tail(ts))

-----------------------------------------------------------------------------
Numbers == 0..2
Lists == BoundedSeq(Numbers, MaxList)
OfNumbers(n) == [1..n -> Numbers]
IntType(bytes, signed) == [bytes |-> bytes, signed |-> signed]
SomeTypes == {IntType(b, s) : b \in {1, 2, 4}, s \in BOOLEAN}
NestedTypes ==
  LET inner == BoundedSeq({Type("A"), Type("B")}, 2) IN
  {<<Type("A"), Types(ts)>> : ts \in inner} \cup {<<Types(ts), Types(<<Types(us), Type("B")>>)>> : ts, us \in inner}

ListQuestions ==
  {<<"list", list>> : list \in Lists}
  \cup {<<"lists", <<a, b, c>>>> : a, b, c \in BoundedSeq(Numbers, 2)}
  \cup {<<"iota", first, last, step>> : first \in 0..3, last \in 3..6, step \in 1..3}
  \cup {<<"map", ks, k>> : ks \in BoundedSeq(Numbers, 3), k \in Numbers}
  \cup {<<"types", <<s, t, u>>>> : s, t, u \in BoundedSeq({"A", "B", "C"}, 2)}
  \cup {<<"nested", ts>> : ts \in NestedTypes}
  \cup {<<"integers", <<s, t, u>>>> : s, t, u \in SomeTypes}

\* Joining, selecting and reducing with an operation that depends on the order.
ListIsRight(list) ==
  LET Minus == [a, b \in Int |-> a - b]
      Odd == {<<i, v>> \in (0 .. Len(list)) \X Numbers : v % 2 = 1}
      Backwards == [l \in Lists |-> ReversedView(l)]
      Numbered == [l \in Lists |-> EnumerateView(l)]
      Sign(i) == IF i % 2 = 0 THEN 1 ELSE -1
      sum == Sum(list)
      alternating == Sum([i \in DOMAIN list |-> Sign(i - 1) * list[i]]) IN
  /\ ReversedView(list) = Reverse(list) /\ ReversedView(ReversedView(list)) = list
  /\ ElementsView(1, EnumerateView(list)) = list /\ ElementsView(0, EnumerateView(list)) = Upto(Len(list))
  /\ list # <<>> => ZipView(<<list, ReversedView(list)>>) = [i \in DOMAIN list |-> <<list[i], Reverse(list)[i]>>]
  /\ Filter(list, Odd) = SelectSeq(list, LAMBDA v : v % 2 = 1)
  /\ \A i \in 0 .. Len(list) : \A j \in i .. Len(list) :
       /\ SubRange(list, i, j) = SubSeq(list, i + 1, j)
       /\ AllExceptIndices(list, Iota(i, j, 1)) = SubSeq(list, 1, i) \o SubSeq(list, j + 1, Len(list))
  /\ LeftReduce(Minus, list, 5) = 5 - sum
  /\ RightReduce(Minus, list, 5) = alternating + 5 * Sign(Len(list))
  /\ list # <<>> => /\ LeftReduceAll(Minus, list) = 2 * Head(list) - sum
                    /\ RightReduceAll(Minus, list) = alternating
                    /\ Minmax(list) = <<CHOOSE v \in ToSet(list) : \A w \in ToSet(list) : v <= w,
                                        CHOOSE v \in ToSet(list) : \A w \in ToSet(list) : w <= v>>
  /\ AllDifferent(list) <=> IsInjective(list)
  /\ UniqueValue(list) = IF Cardinality(ToSet(list)) = 1 THEN <<Head(list)>> ELSE <<>>
  /\ PostfixProducts(list) = [i \in 1 .. Len(list) + 1 |-> FoldRight(LAMBDA a, b : a * b, SubSeq(list, i, Len(list)), 1)]
  /\ Combined(<<Backwards, Numbered>>, list) = [i \in DOMAIN list |-> <<i - 1, list[Len(list) - i + 1]>>]
  /\ \A v \in Numbers, type \in {"int", "long"} :
       HasTyped([i \in DOMAIN list |-> [type |-> "int", value |-> list[i]]], [type |-> type, value |-> v])
         <=> type = "int" /\ v \in ToSet(list)
  /\ FirstValue([i \in DOMAIN list |-> IF list[i] = 0 THEN <<>> ELSE <<list[i]>>])
       = LET some == SelectSeq(list, LAMBDA v : v # 0) IN IF some = <<>> THEN <<>> ELSE <<Head(some)>>
  /\ Constant(Len(list), 7) = Generate(Len(list), 7)
  /\ Len(list) > 1 => TupleLess(list, ReversedView(list)) \/ TupleLess(ReversedView(list), list) \/ list = Reverse(list)

IotaIsRight(first, last, step) ==
  Iota(first, last, step) = SetToSortSeq({v \in first .. last - 1 : (v - first) % step = 0}, LAMBDA a, b : a < b)

\* The program does not compile if a key occurs twice.
MapIsRight(ks, k) ==
  LET map == [i \in DOMAIN ks |-> <<ks[i], i>>]
      Pairs == {map[i] : i \in DOMAIN map} IN
  AllDifferent(ks) =>
    /\ MapContains(map, k) <=> \E i \in DOMAIN ks : <<k, i>> \in Pairs
    /\ MapGet(map, k, 0, 0) = IF MapContains(map, k) THEN CHOOSE i \in DOMAIN ks : <<k, i>> \in Pairs ELSE 0
    /\ OnlyKeys(map, <<k>>) <=> ToSet(ks) \subseteq {k}

TypesAreRight(seqs) ==
  LET products == CartesianTypeSeq(seqs)
      joined == JoinedTypeSeq(seqs)
      names == ToSet(joined) IN
  /\ joined = FlattenSeq(seqs)
  /\ Len(products) = Len(seqs[1]) * Len(seqs[2]) * Len(seqs[3])
  /\ \A i \in DOMAIN products : /\ Len(products[i]) = 3 /\ \A k \in 1..3 : products[i][k] \in ToSet(seqs[k])
                                /\ Len(seqs[3]) > 0 => products[i][3] = seqs[3][1 + ((i - 1) % Len(seqs[3]))]
  /\ ReducedTypeSeq([acc \in Seq(names), t \in names |-> Append(acc, t)], joined, <<>>) = joined
  /\ IsInjective(UniqueTypeSeq(joined)) /\ ToSet(UniqueTypeSeq(joined)) = ToSet(joined)
  /\ IsUniqueType(joined) <=> Len(UniqueTypeSeq(joined)) = 1
  /\ IndexFilteredTypeSeq(0, joined, <<0, 2>>) = FilterView(joined, SelectSeq(<<0, 2>>, LAMBDA i : i < Len(joined)))
  /\ TransformedTypeSeq([t \in names |-> <<t>>], joined) = [i \in DOMAIN joined |-> <<joined[i]>>]

RECURSIVE Leaves(_)
Leaves(ts) ==
  IF ts = <<>> THEN <<>> ELSE (IF IsSeq(Head(ts)) THEN Leaves(Head(ts).types) ELSE <<Head(ts)>>) \o Leaves(Tail(ts))

\* The union holds what the types hold, no smaller type does, and their order does not matter.
Holds(t, u) == IF u.signed THEN t.signed /\ t.bytes >= u.bytes
               ELSE IF t.signed THEN t.bytes > u.bytes ELSE t.bytes >= u.bytes
HoldsAll(t, ts) == \A i \in DOMAIN ts : Holds(t, ts[i])
IntegersAreRight(ts) ==
  LET union == UnionType(ts) IN
  /\ HoldsAll(union, ts) /\ \A t \in IntTypes : HoldsAll(t, ts) => Holds(t, union)
  /\ (\A i \in DOMAIN ts : ts[i].signed = ts[1].signed) =>
       \A t \in SomeTypes : Holds(IntersectionType(ts), t) <=> \A i \in DOMAIN ts : Holds(ts[i], t)

ListRight(q) ==
  CASE q[1] = "list" -> ListIsRight(q[2])
    [] q[1] = "lists" -> JoinView(q[2]) = FlattenSeq(q[2])
    [] q[1] = "iota" -> IotaIsRight(q[2], q[3], q[4])
    [] q[1] = "map" -> MapIsRight(q[2], q[3])
    [] q[1] = "types" -> TypesAreRight(q[2])
    [] q[1] = "nested" -> FlatTypeSeq(q[2]) = Leaves(q[2])
    [] q[1] = "integers" -> IntegersAreRight(q[2])
=============================================================================

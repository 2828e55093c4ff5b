------------------------------- MODULE Variants -------------------------------
(***************************************************************************)
(* Values of one of several types: visiting variants (utility/             *)
(* fancy-visit.hpp, check-variant.hpp), flattening nested ones             *)
(* (reflection/flatten-type.hpp), values that may be missing (utility/     *)
(* optional.hpp, value-optional.hpp).  A type is a record of StaticLists;  *)
(* a variant has its alternatives in types, an optional its value type, a  *)
(* structure its members.  A value of a type is the type for a plain one,  *)
(* <<alt, in>> for a variant, <<>> or <<value>> for an optional, the list  *)
(* of the values of its members for a structure.                           *)
(***************************************************************************)
EXTENDS StaticLists

CONSTANT EmptyAt  \* the value of a ValueOptional that stands for none

Variant(ts) == [name |-> "variant", types |-> ts]
Nullopt == Type("nullopt")
Ignore == Type("ignore")

-----------------------------------------------------------------------------
(* FancyVisitor *)

\* The alternatives of a variant; a value that is none is packed as the only alternative.
VariantHandler(t) == IF t.name = "variant" THEN t.types ELSE <<t>>
Params(variants) == CartesianTypeSeq([i \in DOMAIN variants |-> VariantHandler(variants[i])])

RECURSIVE VariantTypeSeq(_)
VariantTypeSeq(t) ==
  IF t.name \in {"variant", "TypeSeq"} THEN Types([i \in DOMAIN t.types |-> VariantTypeSeq(t.types[i])]) ELSE Types(<<t>>)

\* The types the visitor returns, flattened or not, each once and without the ones it ignores.
ReturnSeq(flatten, visitor, params) ==
  LET raw == TransformedTypeSeq(visitor, params)
      base == IF flatten THEN FlatTypeSeq(VariantTypeSeq(Types(raw)).types) ELSE raw
  IN  UniqueTypeSeq(FilteredTypeSeq(base, ToSet(base) \ {Ignore}))

\* A plausible mistake: a visitor that ignores is only looked at for the first variant.
IgnoresFirst(visitor, active) ==
  \A p \in DOMAIN visitor : p[1] = active[1] => visitor[p] = Ignore

Ignores(visitor, active) == visitor[active] = Ignore
\* What the visitor makes of the active alternatives; one that ignores them throws if it may.
Visit(visitor, active) == IF Ignores(visitor, active) THEN <<"thrown">> ELSE <<"value", visitor[active]>>

\* check_variant: an alternative that the checker finds an exception for is thrown.
CheckVariant(t, active, bad) ==
  Visit([p \in ToSet(Params(<<t>>)) |-> IF p[1] \in bad THEN Ignore ELSE p[1]], <<active>>)

-----------------------------------------------------------------------------
(* FlattenType: a structure is flattened member by member. *)

RECURSIVE FlatType(_), Flatten(_, _)
FlatType(t) ==
  CASE t.name = "optional" -> <<Nullopt>> \o FlatType(t.types[1])
    [] t.name = "variant" -> UniqueTypeSeq(FlattenSeq([i \in DOMAIN t.types |-> FlatType(t.types[i])]))
    [] OTHER -> <<t>>
Flatten(t, v) ==
  CASE t.name = "optional" -> IF v = <<>> THEN Nullopt ELSE Flatten(t.types[1], v[1])
    [] t.name = "variant" -> Flatten(t.types[v[1]], v[2])
    [] OTHER -> v

\* member_info_of, variant_index_of: the members that are flattened are found by their pointers.
VariantIndexOf(variantMembers, i) ==
  {j \in DOMAIN variantMembers : variantMembers[j] = i /\ \A k \in 1 .. j - 1 : variantMembers[k] # i}
FlattenStruct(t, v, variantMembers) ==
  LET visited == [j \in DOMAIN variantMembers |-> Flatten(t.types[variantMembers[j]], v[variantMembers[j]])]
  IN  [i \in DOMAIN v |-> IF VariantIndexOf(variantMembers, i) = {} THEN v[i]
                          ELSE visited[CHOOSE j \in VariantIndexOf(variantMembers, i) : TRUE]]

-----------------------------------------------------------------------------
(* Optional: <<>> or <<value>>.  ValueOptional: a value, EmptyAt standing for none. *)

HasValue(opt) == opt # <<>>
AndThen(opt, fun) == IF HasValue(opt) THEN fun[opt[1]] ELSE <<>>
OptTransform(opt, fun) == IF HasValue(opt) THEN <<fun[opt[1]]>> ELSE <<>>
OrElse(opt, other) == IF HasValue(opt) THEN opt ELSE other
ValueOrElse(opt, other) == IF HasValue(opt) THEN opt[1] ELSE other

HoldsValue(v) == v # EmptyAt
ValueOr(v, default) == IF HoldsValue(v) THEN v ELSE default
ValueAndThen(v, fun) == IF HoldsValue(v) THEN fun[v] ELSE <<>>
ValueTransform(v, fun) == IF HoldsValue(v) THEN fun[v] ELSE EmptyAt
ValueOrElseOf(v, other) == IF HoldsValue(v) THEN v ELSE other
EqualsValue(v, value) == HoldsValue(v) /\ v = value
Ordered(a, b) ==  \* -1, 0 or 1
  CASE a < b -> -1 [] a = b -> 0 [] a > b -> 1
CompareOptionals(v, w) ==
  IF HoldsValue(v) # HoldsValue(w) THEN IF HoldsValue(v) THEN 1 ELSE -1
  ELSE IF HoldsValue(v) THEN Ordered(v, w) ELSE 0
CompareWithValue(v, value) == IF HoldsValue(v) THEN Ordered(v, value) ELSE -1

\* as_expected: an error code that is not 0
AsExpected(ret) == IF ret # 0 THEN <<ret>> ELSE <<>>

-----------------------------------------------------------------------------
A == Type("A")
B == Type("B")
C == Type("C")
OptionalOf(t) == [name |-> "optional", types |-> <<t>>]
Inner == {A, OptionalOf(A), Variant(<<A, B>>), OptionalOf(Variant(<<B, C>>)), Variant(<<OptionalOf(B), C>>)}
Outer == Inner \cup {Variant(<<s, t>>) : s, t \in Inner} \cup {OptionalOf(t) : t \in Inner}
Visited == {<<<<A>>, <<B>>>>, <<<<A, B>>, <<B, C>>>>, <<<<B, A>>, <<A, C>>>>, <<<<A, B, C>>>>}

VariantQuestions ==
  {<<"flatten", t>> : t \in Outer} \cup {<<"optional", v, w>> : v, w \in 0 .. EmptyAt + 1}
  \cup UNION {{<<"visit", ls, results>> :
                 results \in [ToSet(CartesianTypeSeq(ls)) -> {A, Variant(<<A, B>>), Ignore}]} : ls \in Visited}

\* The result is of one of the returned types, which are those the visitor has results of, in the
\* order of the parameters and each once; it throws what is ignored and nothing else.
VisitIsRight(ls, visitor) ==
  LET variants == [i \in DOMAIN ls |-> IF Len(ls[i]) = 1 THEN ls[i][1] ELSE Variant(ls[i])]
      params == Params(variants)
      plain == ReturnSeq(FALSE, visitor, params)
      flat == ReturnSeq(TRUE, visitor, params)
      Returned == {visitor[p] : p \in DOMAIN visitor} \ {Ignore} IN
  /\ ToSet(params) = DOMAIN visitor /\ IsInjective(params)
  /\ ToSet(plain) = Returned /\ IsInjective(plain) /\ IsInjective(flat)
  /\ ToSet(flat) = ToSet(Leaves(FlattenSeq([i \in DOMAIN plain |-> <<VariantTypeSeq(plain[i])>>])))
  /\ \A p \in DOMAIN visitor :
       IF visitor[p] = Ignore THEN Visit(visitor, p) = <<"thrown">> ELSE Visit(visitor, p)[2] \in ToSet(plain)
  /\ Len(variants) = 1 => \A t \in ToSet(ls[1]) : CheckVariant(variants[1], t, {B}) =
                             IF t = B THEN <<"thrown">> ELSE <<"value", t>>

\* The values of a type with one value per plain type, and the plain value or nothing inside.
RECURSIVE ValuesOf(_), Innermost(_, _), Repeated(_)
ValuesOf(t) ==
  CASE t.name = "optional" -> {<<>>} \cup {<<v>> : v \in ValuesOf(t.types[1])}
    [] t.name = "variant" -> UNION {{<<i, v>> : v \in ValuesOf(t.types[i])} : i \in DOMAIN t.types}
    [] OTHER -> {t}
Innermost(t, v) ==
  IF t.name = "variant" THEN Innermost(t.types[v[1]], v[2])
  ELSE IF t.name # "optional" THEN {t} ELSE IF v = <<>> THEN {} ELSE Innermost(t.types[1], v[1])
Repeated(t) ==  \* an optional of what may be empty itself: the flat type has nullopt twice
  \/ t.name = "optional" /\ Nullopt \in ToSet(FlatType(t.types[1]))
  \/ \E i \in DOMAIN t.types : Repeated(t.types[i])

\* A flat variant holds what the nested one held, can hold nothing else and has no variant in it.
FlattenIsRight(t) ==
  LET flat == FlatType(t)
      struct == [name |-> "struct", types |-> <<A, t>>] IN
  ~Repeated(t) =>
    /\ IsInjective(flat) /\ ToSet(flat) = {Flatten(t, v) : v \in ValuesOf(t)}
    /\ \A v \in ValuesOf(t) : {Flatten(t, v)} = IF Innermost(t, v) = {} THEN {Nullopt} ELSE Innermost(t, v)
    /\ \A v \in ValuesOf(t) : /\ FlattenStruct(struct, <<A, v>>, <<2>>) = <<A, Flatten(t, v)>>
                              /\ FlattenStruct(struct, <<A, v>>, <<>>) = <<A, v>>

\* An optional that uses a value of its type for none is like the one that does not, for functions
\* that do not return that value; its order is total and has the empty one first.
AsOptional(v) == IF v = EmptyAt THEN <<>> ELSE <<v>>
OptionalIsRight(v, w) ==
  LET Next == [x \in Nat |-> (x + 1) % EmptyAt]
      Half == [x \in Nat |-> IF x % 2 = 0 THEN <<x \div 2>> ELSE <<>>] IN
  /\ AsOptional(ValueTransform(v, Next)) = OptTransform(AsOptional(v), Next)
  /\ ValueAndThen(v, Half) = AndThen(AsOptional(v), Half)
  /\ AsOptional(ValueOrElseOf(v, w)) = OrElse(AsOptional(v), AsOptional(w))
  /\ ValueOr(v, w) = ValueOrElse(AsOptional(v), w)
  /\ CompareOptionals(v, w) = -CompareOptionals(w, v) /\ (CompareOptionals(v, w) = 0 <=> v = w)
  /\ \A u \in 0 .. EmptyAt + 1 :
       CompareOptionals(v, u) = -1 /\ CompareOptionals(u, w) = -1 => CompareOptionals(v, w) = -1
  /\ (EqualsValue(v, w) <=> AsOptional(v) = <<w>>) /\ CompareOptionals(EmptyAt, v) = IF v = EmptyAt THEN 0 ELSE -1
  /\ w # EmptyAt => CompareWithValue(v, w) = CompareOptionals(v, w)
  /\ AsExpected(v) = <<>> <=> v = 0

VariantRight(q) ==
  CASE q[1] = "flatten" -> FlattenIsRight(q[2])
    [] q[1] = "optional" -> OptionalIsRight(q[2], q[3])
    [] q[1] = "visit" -> VisitIsRight(q[2], q[3])
=============================================================================

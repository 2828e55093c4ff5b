------------------------------ MODULE Reflection ------------------------------
(***************************************************************************)
(* Types that know their members (reflection/type.hpp), enumerations that  *)
(* know their values (reflection/enum.hpp, serial-value.hpp), and JSON     *)
(* written from them (io/json.hpp, io/delimiter.hpp), as the sequence of   *)
(* its marks, names and plain values.  White space is a mark of its own:   *)
(* "nl" and "sp" are the separators, "in" is one step of indentation.      *)
(***************************************************************************)
EXTENDS Integers, Sequences, FiniteSets, SequencesExt

CONSTANTS Names,  \* names of members and keys of maps
          Values  \* values of an enumeration, some of which it does not name

-----------------------------------------------------------------------------
(* THES_DEFINE_TYPE: a list of sections of five kinds, in any order and number. *)

Kinds == {"static", "members", "params", "body", "layout"}
\* The items of the sections of a kind, in order.
AnyMembersFilter(kind, sections) ==
  FoldLeft(LAMBDA items, section : IF section.kind = kind THEN items \o section.items ELSE items, <<>>, sections)
IncludeLayoutInfo(sections) == \A i \in DOMAIN AnyMembersFilter("layout", sections) :
                                 AnyMembersFilter("layout", sections)[i]

\* An item of members is a name, a serial name and a type with its size.
DefineType(sections) ==
  [static |-> AnyMembersFilter("static", sections), members |-> AnyMembersFilter("members", sections),
   layout |-> IncludeLayoutInfo(sections)]
\* The constructor moves each parameter to the member of its place; value reads one through its pointer.
Constructed(info, args) == [i \in DOMAIN info.members |-> args[i]]
MemberValue(object, pointer) == object[pointer]
\* member_info_of: the first member with the pointer.
MemberInfoOf(info, pointer) == info.members[CHOOSE i \in DOMAIN info.members : i = pointer]
\* Each member lies at the next multiple of its size.
Offsets(info) ==
  LET Aligned(n, size) == ((n + size - 1) \div size) * size
      Place(acc, m) == [at |-> Append(acc.at, Aligned(acc.end, m.size)), end |-> Aligned(acc.end, m.size) + m.size]
  IN  FoldLeft(Place, [at |-> <<>>, end |-> 0], info.members).at

-----------------------------------------------------------------------------
(* An enumeration is a list of values with their names and serial names. *)

EnumValueInfo(enum, v) == enum[CHOOSE i \in DOMAIN enum : enum[i].value = v /\ \A j \in 1 .. i - 1 : enum[j].value # v]
SerialNameOf(enum, v) == EnumValueInfo(enum, v).serial
Known(enum, v) == \E i \in DOMAIN enum : enum[i].value = v

EnumCast(enum, serial) ==
  LET found == SelectSeq(enum, LAMBDA info : info.serial = serial)
  IN  IF found = <<>> THEN <<>> ELSE <<Head(found).value>>
\* The name of a value that is not known is an error; JSON has its number then.
SerialValue(enum, v) == IF Known(enum, v) THEN <<SerialNameOf(enum, v)>> ELSE <<"thrown">>
JsonOfEnum(enum, v) == IF Known(enum, v) THEN <<"quote", SerialNameOf(enum, v), "quote">> ELSE <<v>>

-----------------------------------------------------------------------------
(* Indentation: a depth, or -1 if everything is on one line. *)

Deeper(indent) == IF indent >= 0 THEN indent + 1 ELSE indent
IndentOutput(indent) == IF indent >= 0 THEN [i \in 1..indent |-> "in"] ELSE <<>>
Separator(indent) == IF indent >= 0 THEN <<"nl">> ELSE <<"sp">>
ReducedSeparator(indent) == IF indent >= 0 THEN <<"nl">> ELSE <<>>

\* A delimiter gives nothing the first time, and later itself and what it is followed by.
Delimited(parts, behind) ==
  FoldLeft(LAMBDA out, i : out \o (IF i = 1 THEN <<>> ELSE <<",">> \o behind) \o parts[i], <<>>,
           [i \in DOMAIN parts |-> i])
JsonKey(name) == <<"quote", name, "quote", ":", "sp">>

\* A value is the pair of its kind and its parts: a plain one its marks, a list its values, a map and a type
\* (with its static members first) their names and values, an optional none or one.
RECURSIVE WriteJson(_, _)
WriteMap(v, indent) ==
  LET Entry(e) == IndentOutput(Deeper(indent)) \o JsonKey(e[1]) \o WriteJson(e[2], Deeper(indent)) IN
  <<"{">> \o Separator(indent) \o Delimited([i \in DOMAIN v[2] |-> Entry(v[2][i])], Separator(Deeper(indent)))
    \o Separator(Deeper(indent)) \o IndentOutput(indent) \o <<"}">>
WriteRange(v, indent) ==
  LET Entry(e) == IndentOutput(Deeper(indent)) \o WriteJson(e, Deeper(indent)) IN
  <<"[">> \o ReducedSeparator(indent) \o Delimited([i \in DOMAIN v[2] |-> Entry(v[2][i])], Separator(Deeper(indent)))
    \o ReducedSeparator(indent) \o IndentOutput(indent) \o <<"]">>
WriteType(v, indent) ==
  LET Member(i) == IndentOutput(Deeper(indent)) \o JsonKey(v[2][i][1]) \o WriteJson(v[2][i][2], Deeper(indent))
                     \o (IF i < Len(v[2]) THEN <<",">> ELSE <<>>) \o Separator(Deeper(indent)) IN
  <<"{">> \o Separator(indent) \o FlattenSeq([i \in DOMAIN v[2] |-> Member(i)]) \o IndentOutput(indent) \o <<"}">>
WriteJson(v, indent) ==
  CASE v[1] = "map" -> WriteMap(v, indent)
    [] v[1] = "range" -> WriteRange(v, indent)
    [] v[1] = "type" -> WriteType(v, indent)
    [] v[1] = "optional" -> IF v[2] = <<>> THEN <<"null">> ELSE WriteJson(v[2][1], indent)
    [] v[1] = "plain" -> v[2]

-----------------------------------------------------------------------------
Json(kind, parts) == <<kind, parts>>
Plain == {Json("plain", <<n>>) : n \in {"0", "true"}} \cup {Json("plain", <<"quote", n, "quote">>) : n \in Names}
Flat == Plain \cup {Json("optional", <<>>)} \cup {Json("range", <<>>), Json("map", <<>>), Json("type", <<>>)}
        \cup {Json("range", <<v, w>>) : v, w \in Plain} \cup {Json("optional", <<v>>) : v \in Plain}
Nested == Flat \cup {Json(kind, <<<<n, v>>>>) : kind \in {"map", "type"}, n \in Names, v \in Flat}
          \cup {Json(kind, <<<<n, v>>, <<m, w>>>>) : kind \in {"map", "type"}, n, m \in Names, v, w \in Plain}
          \cup {Json("range", <<v>>) : v \in Flat}
Members == {[name |-> n, size |-> s] : n \in Names, s \in {1, 2}}
Sections == [kind : {"members"}, items : BoundedSeq(Members, 2)] \cup [kind : {"static"}, items : {<<>>, <<"S">>}]
            \cup [kind : {"layout"}, items : {<<b>> : b \in BOOLEAN}]
Enums == {[i \in 1..n |-> [value |-> vs[i], serial |-> ss[i]]] : n \in 1..2, vs \in [1..2 -> Values], ss \in [1..2 -> Names]}

ReflectionQuestions ==
  {<<"type", sections>> : sections \in BoundedSeq(Sections, 2)}
  \cup {<<"enum", enum>> : enum \in Enums}
  \cup {<<"json", v, indent>> : v \in Nested, indent \in {-1, 0, 2}}

\* Every section's items are there, in order, none in another's place; members do not overlap.
TypeIsRight(sections) ==
  LET info == DefineType(sections)
      Of(kind) == SelectSeq(sections, LAMBDA s : s.kind = kind)
      object == Constructed(info, info.members) IN
  /\ info.members = FlattenSeq([i \in DOMAIN Of("members") |-> Of("members")[i].items])
  /\ info.static = FlattenSeq([i \in DOMAIN Of("static") |-> Of("static")[i].items])
  /\ info.layout <=> [kind |-> "layout", items |-> <<FALSE>>] \notin ToSet(sections)
  /\ \A i \in DOMAIN info.members :
       /\ MemberValue(object, i) = MemberInfoOf(info, i)
       /\ Offsets(info)[i] % info.members[i].size = 0
       /\ \A j \in 1 .. i - 1 : Offsets(info)[j] + info.members[j].size <= Offsets(info)[i]

\* A value comes back from its name unless an earlier one has the same name.
EnumIsRight(enum) ==
  /\ \A v \in Values \ {enum[i].value : i \in DOMAIN enum} :
       SerialValue(enum, v) = <<"thrown">> /\ JsonOfEnum(enum, v) = <<v>>
  /\ \A i \in DOMAIN enum :
       LET earlier == {j \in 1..i : enum[j].serial = enum[i].serial} IN
       EnumCast(enum, enum[i].serial) = <<enum[CHOOSE j \in earlier : \A k \in earlier : j <= k].value>>
  /\ IsInjective([i \in DOMAIN enum |-> enum[i].value]) => \A i \in DOMAIN enum : SerialValue(enum, enum[i].value) = <<enum[i].serial>>
  /\ \A n \in Names : (\A i \in DOMAIN enum : enum[i].serial # n) => EnumCast(enum, n) = <<>>

\* The marks without the white space are those of the value, and every line is indented by the
\* number of brackets that are open there, the closing one of the line itself not counted.
RECURSIVE Bare(_)
Bare(v) ==
  LET Entries == [i \in DOMAIN v[2] |-> IF i = 1 THEN <<>> ELSE <<",">>] IN
  CASE v[1] = "range" -> <<"[">> \o FlattenSeq([i \in DOMAIN v[2] |-> Entries[i] \o Bare(v[2][i])]) \o <<"]">>
    [] v[1] = "optional" -> IF v[2] = <<>> THEN <<"null">> ELSE Bare(v[2][1])
    [] v[1] = "plain" -> v[2]
    [] OTHER -> <<"{">> \o FlattenSeq([i \in DOMAIN v[2] |-> Entries[i] \o <<"quote", v[2][i][1], "quote", ":">>
                                                                  \o Bare(v[2][i][2])]) \o <<"}">>
JsonIsRight(v, indent) ==
  LET out == WriteJson(v, indent)
      Count(n, marks) == Len(SelectSeq(SubSeq(out, 1, n), LAMBDA c : c \in marks))
      Steps(n) == CHOOSE k \in 0 .. Len(out) - n : /\ \A i \in 1..k : out[n + i] = "in"
                                                   /\ n + k = Len(out) \/ out[n + k + 1] # "in" IN
  /\ SelectSeq(out, LAMBDA c : c \notin {"nl", "sp", "in"}) = Bare(v)
  /\ \A n \in DOMAIN out : out[n] = "nl" =>
       LET next == n + Steps(n) + 1
           closes == next <= Len(out) /\ out[next] \in {"}", "]"} IN
       next <= Len(out) /\ out[next] # "nl" =>
         Steps(n) = indent + Count(n, {"{", "["}) - Count(n, {"}", "]"}) - (IF closes THEN 1 ELSE 0)
  /\ indent = -1 => \A n \in DOMAIN out : out[n] \notin {"nl", "in"}

ReflectionRight(q) ==
  CASE q[1] = "type" -> TypeIsRight(q[2])
    [] q[1] = "enum" -> EnumIsRight(q[2])
    [] q[1] = "json" -> JsonIsRight(q[2], q[3])
=============================================================================

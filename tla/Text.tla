-------------------------------- MODULE Text --------------------------------
(***************************************************************************)
(* The conversions of charconv/: integers from and to text, codepoints     *)
(* from UTF-8, and the escaping of strings.  A text of a number is a       *)
(* sequence of characters, an encoded text one of bytes.                   *)
(***************************************************************************)
EXTENDS Integers, Sequences, FiniteSets, FiniteSetsExt, SequencesExt

CONSTANT Most8  \* the greatest value of the signed type: 127, for three digits

Least8 == -Most8 - 1

DigitValue == [c \in {"0", "1", "2", "7", "8", "9", "a"} |->
  CASE c = "0" -> 0 [] c = "1" -> 1 [] c = "2" -> 2 [] c = "7" -> 7 [] c = "8" -> 8 [] c = "9" -> 9
    [] c = "a" -> 10]

\* The characters of the texts; "g" is nothing anywhere.
Characters == DOMAIN DigitValue \cup {"x", "b", "o", "_", "'", "-", "g"}

Absent == [is |-> "nullopt"]
Thrown == [is |-> "thrown"]
Parsed(v) == [is |-> "value", v |-> v]
InType(signed, v) == IF signed THEN v \in Least8 .. Most8 ELSE v \in 0 .. Most8 - Least8

-----------------------------------------------------------------------------
(* parse_integer: mode is "literal" or "extended". *)

\* b is a digit of base 16; "a" stands for the upper case, too.
ParseChar(c, base) ==
  IF c = "b" THEN IF base > 11 THEN {11} ELSE {}
  ELSE {DigitValue[d] : d \in {d \in DOMAIN DigitValue : d = c /\ DigitValue[d] < base}}

Skipped(mode) == IF mode = "extended" THEN {"_", "'"} ELSE {"'"}

\* A plausible mistake: digits are added, and the sign is put to what they make.
ParseThenNegate(text, base, sign, mode, signed) ==
  LET Step(result, c) ==
        IF c \in Skipped(mode) \/ result = Thrown THEN result
        ELSE IF ~InType(signed, result.v * base) \/ ParseChar(c, base) = {} THEN Thrown
        ELSE LET v == result.v * base + (CHOOSE d \in ParseChar(c, base) : TRUE)
             IN  IF InType(signed, v) THEN Parsed(v) ELSE Thrown
      result == FoldLeft(Step, Parsed(0), text)
  IN  IF result = Thrown THEN Thrown ELSE Parsed(sign * result.v)

\* Each step is checked: the product, the digit, and the sum or difference.
ParseBase(text, base, sign, mode, signed) ==
  LET Step(result, c) ==
        IF c \in Skipped(mode) \/ result = Thrown THEN result
        ELSE IF ~InType(signed, result.v * base) \/ ParseChar(c, base) = {} THEN Thrown
        ELSE LET v == result.v * base + sign * (CHOOSE d \in ParseChar(c, base) : TRUE)
             IN  IF InType(signed, v) THEN Parsed(v) ELSE Thrown
  IN  FoldLeft(Step, Parsed(0), text)

ParseNumber(number, sign, mode, signed) ==
  LET Base(text, base) == ParseBase(text, base, sign, mode, signed)
      after == Tail(number)
      \* the base that a prefix names, and how long it is
      prefix == CASE Head(after) = "x" -> <<16, 1>> [] Head(after) = "b" -> <<2, 1>>
                  [] mode = "extended" /\ Head(after) = "o" -> <<8, 1>>
                  [] mode = "literal" -> <<8, 0>> [] OTHER -> <<10, 0>>
  IN  IF number = <<>> THEN Absent
      ELSE IF Head(number) # "0" THEN Base(number, 10)
      ELSE IF after = <<>> THEN Parsed(0)
      ELSE Base(SubSeq(after, 1 + prefix[2], Len(after)), prefix[1])

ParseInteger(src, mode, signed) ==
  IF src = <<>> THEN Absent
  ELSE IF Head(src) = "-" THEN ParseNumber(Tail(src), -1, mode, signed)
  ELSE ParseNumber(src, 1, mode, signed)

-----------------------------------------------------------------------------
(* numeric_string, for integers *)

RECURSIVE Decimal(_)
Decimal(n) == IF n < 10 THEN <<n>> ELSE Append(Decimal(n \div 10), n % 10)
NumericString(v) == IF v < 0 THEN <<"-">> \o Decimal(-v) ELSE Decimal(v)

\* One character for the sign, and one for each digit of the lowest value
MaxCharNum(signed) == IF signed THEN 1 + Len(Decimal(-Least8)) ELSE Len(Decimal(Most8 - Least8))

-----------------------------------------------------------------------------
(* UnicodeDecoder: an automaton whose states are multiples of 12, where 0 accepts and 12 rejects. *)

CharKind(byte) ==
  CASE byte < 128 -> 0 [] byte \in 128 .. 143 -> 1 [] byte \in 144 .. 159 -> 9
    [] byte \in 160 .. 191 -> 7 [] byte \in {192, 193} -> 8 [] byte \in 194 .. 223 -> 2
    [] byte = 224 -> 10 [] byte = 237 -> 4 [] byte \in 225 .. 239 \ {237} -> 3
    [] byte = 240 -> 11 [] byte \in 241 .. 243 -> 6 [] byte = 244 -> 5 [] OTHER -> 8

Rejected == 12
Trans(state, kind) ==
  CASE state = 0 -> <<0, 12, 24, 36, 60, 96, 84, 12, 12, 12, 48, 72>>[kind + 1]
    [] state = 24 -> IF kind \in {1, 7, 9} THEN 0 ELSE Rejected
    [] state = 36 -> IF kind \in {1, 7, 9} THEN 24 ELSE Rejected
    [] state = 48 -> IF kind = 7 THEN 24 ELSE Rejected
    [] state = 60 -> IF kind \in {1, 9} THEN 24 ELSE Rejected
    [] state = 72 -> IF kind \in {7, 9} THEN 36 ELSE Rejected
    [] state = 84 -> IF kind \in {1, 7, 9} THEN 36 ELSE Rejected
    [] state = 96 -> IF kind = 1 THEN 36 ELSE Rejected
    [] OTHER -> Rejected

\* A first byte keeps what its kind leaves of it, each other one adds six bits.
Decode(d, byte) ==
  [state |-> Trans(d.state, CharKind(byte)),
   codep |-> IF d.state # 0 THEN (d.codep * 64 + (byte % 64)) % 2 ^ 30
             ELSE IF CharKind(byte) >= 8 THEN 0 ELSE byte % 2 ^ (8 - CharKind(byte))]
Start == [state |-> 0, codep |-> 0]

\* The codepoints of UnicodeStringView, up to an exception if there is one
CodePoints(bytes) ==
  LET Step(r, byte) ==
        LET d == Decode(r.d, byte)
        IN  IF r.thrown THEN r
            ELSE [d |-> d, thrown |-> d.state = Rejected,
                  out |-> IF d.state = 0 THEN Append(r.out, d.codep) ELSE r.out]
      end == FoldLeft(Step, [d |-> Start, thrown |-> FALSE, out |-> <<>>], bytes)
  IN  [out |-> end.out, thrown |-> end.thrown \/ end.d.state # 0]

-----------------------------------------------------------------------------
(* escape_string: bytes again; 92 is a backslash, 117 the letter u, 48 the digit 0. *)

EscapeChar == [c \in {8, 9, 10, 12, 13, 34, 92} |->
  CASE c = 8 -> 98 [] c = 9 -> 116 [] c = 10 -> 110 [] c = 12 -> 102 [] c = 13 -> 114 [] OTHER -> c]
HexDigit(n) == IF n < 10 THEN 48 + n ELSE 65 + n - 10

Escaped(codep, byte) ==
  IF codep \in DOMAIN EscapeChar THEN <<92, EscapeChar[codep]>>
  ELSE IF codep <= 31 THEN <<92, 117, 48, 48, 48 + (byte \div 16), HexDigit(byte % 16)>>
  ELSE <<byte>>

EscapeString(bytes) ==
  LET Step(r, byte) ==
        LET d == Decode(r.d, byte)
        IN  IF r.thrown THEN r
            ELSE [d |-> d, thrown |-> d.state = Rejected,
                  out |-> r.out \o (IF d.state = 0 THEN Escaped(d.codep, byte) ELSE <<byte>>)]
      end == FoldLeft(Step, [d |-> Start, thrown |-> FALSE, out |-> <<>>], bytes)
  IN  [out |-> end.out, thrown |-> end.thrown \/ end.d.state # 0]

-----------------------------------------------------------------------------
(* What the conversions have to give, stated of whole texts. *)

\* Bytes that a lead, a middle and a last byte of a codepoint differ in.
Leads == {0, 31, 34, 65, 92, 127, 128, 191, 192, 193, 194, 223, 224, 225, 236, 237, 238, 239, 240, 241, 243, 244, 245, 255}
Seconds == {10, 65, 128, 143, 144, 159, 160, 191, 194}
Others == {65, 128, 191}

TextQuestions ==
  {<<"number", s, mode>> : s \in UNION {[1 .. n -> Characters] : n \in 0 .. 3}, mode \in {"literal", "extended"}}
    \cup {<<"number", <<"-">> \o s, "extended">> : s \in [1 .. 3 -> DOMAIN DigitValue]}
    \cup {<<"value", v>> : v \in Least8 .. Most8 - Least8}
    \cup {<<"bytes", <<b>>>> : b \in 0 .. 255} \cup {<<"bytes", <<b, c>>>> : b \in Leads, c \in Seconds \cup Leads}
    \cup {<<"bytes", <<b, c, d>> \o e>> : b \in Leads, c \in Seconds, d \in Others,
                                          e \in {<<>>} \cup {<<f>> : f \in Others}}

\* A text without its sign, the base its prefix names, its digits without prefix and separators, and
\* the value they have.
Negative(src) == src # <<>> /\ Head(src) = "-"
Number(src) == IF Negative(src) THEN Tail(src) ELSE src
PrefixOf(src) == SubSeq(Number(src), 1, IF Len(Number(src)) < 2 THEN Len(Number(src)) ELSE 2)
IsPrefixOf(two, mode) == two \in {<<"0", "x">>, <<"0", "b">>} \/ (two = <<"0", "o">> /\ mode = "extended")

BaseOf(src, mode) ==
  LET two == PrefixOf(src)
  IN  CASE two = <<"0", "x">> -> 16 [] two = <<"0", "b">> -> 2
        [] two = <<"0", "o">> /\ mode = "extended" -> 8
        [] Len(two) = 2 /\ two[1] = "0" /\ mode = "literal" -> 8 [] OTHER -> 10
DigitsOf(src, mode) ==
  SelectSeq(SubSeq(Number(src), IF IsPrefixOf(PrefixOf(src), mode) THEN 3 ELSE 1, Len(Number(src))),
            LAMBDA c : c \notin Skipped(mode))
LegalDigits(src, mode) ==
  \A i \in 1 .. Len(DigitsOf(src, mode)) : ParseChar(DigitsOf(src, mode)[i], BaseOf(src, mode)) # {}
ValueOf(src, mode) ==
  LET Next(v, c) == v * BaseOf(src, mode) + (CHOOSE d \in ParseChar(c, BaseOf(src, mode)) : TRUE)
  IN  (IF Negative(src) THEN -1 ELSE 1) * FoldLeft(Next, 0, DigitsOf(src, mode))

\* A literal has digits, all of its base, and a sign only for a signed type.
IsLiteral(src, mode, signed) ==
  DigitsOf(src, mode) # <<>> /\ LegalDigits(src, mode) /\ (Negative(src) => signed)

\* A literal whose value the type has gives it, and a text without a number nothing; what has a
\* character that is no digit, or a value outside of the type, gives no value.
NumberRightOf(src, mode) ==
  \A signed \in BOOLEAN :
    LET parsed == ParseInteger(src, mode, signed)
        inType == LegalDigits(src, mode) /\ InType(signed, ValueOf(src, mode))
    IN  /\ IsLiteral(src, mode, signed) /\ inType => parsed = Parsed(ValueOf(src, mode))
        /\ Number(src) = <<>> => parsed = Absent
        /\ ~inType => parsed \in {Absent, Thrown}

\* The text of a value fits the space that is computed for it, and is the value when read again.
ValueRightOf(v) ==
  \A signed \in BOOLEAN : InType(signed, v) =>
    /\ Len(NumericString(v)) <= MaxCharNum(signed)
    /\ FoldLeft(LAMBDA n, d : 10 * n + d, 0, IF v < 0 THEN Tail(NumericString(v)) ELSE NumericString(v))
         = IF v < 0 THEN -v ELSE v

\* The codepoint that a whole sequence of bytes has by its bits, unless there is a shorter one.
EncodedIn(s) ==
  LET lead == s[1] n == Len(s)
      first == CASE n = 1 -> {0} [] n = 2 -> {192} [] n = 3 -> {224} [] OTHER -> {240}
      room == CASE n = 1 -> 128 [] n = 2 -> 32 [] n = 3 -> 16 [] OTHER -> 8
      from == CASE n = 1 -> 0 [] n = 2 -> 128 [] n = 3 -> 2048 [] OTHER -> 65536
      codep == FoldLeft(LAMBDA c, i : c * 64 + (s[i] % 64), lead % room, [i \in 1 .. n - 1 |-> i + 1])
  IN  IF /\ \E f \in first : lead \in f .. f + room - 1
         /\ \A i \in 2 .. n : s[i] \in 128 .. 191
         /\ codep >= from /\ codep <= 1114111 /\ codep \notin 55296 .. 57343
      THEN {codep} ELSE {}

RECURSIVE ReadsAs(_)
ReadsAs(s) ==  \* the set of the one sequence of codepoints, if any
  IF s = <<>> THEN {<<>>}
  ELSE UNION {{<<c>> \o rest : c \in EncodedIn(SubSeq(s, 1, n)), rest \in ReadsAs(SubSeq(s, n + 1, Len(s)))}
              : n \in 1 .. IF Len(s) < 4 THEN Len(s) ELSE 4}

RECURSIVE Unescaped(_)
Unescaped(s) ==
  IF s = <<>> THEN <<>>
  ELSE IF s[1] # 92 THEN <<s[1]>> \o Unescaped(Tail(s))
  ELSE IF s[2] = 117
  THEN LET Hex(c) == IF c < 58 THEN c - 48 ELSE c - 55
       IN  <<16 * Hex(s[5]) + Hex(s[6])>> \o Unescaped(SubSeq(s, 7, Len(s)))
  ELSE <<CHOOSE c \in DOMAIN EscapeChar : EscapeChar[c] = s[2]>> \o Unescaped(SubSeq(s, 3, Len(s)))

BytesRightOf(s) ==
  LET reads == CodePoints(s) escaped == EscapeString(s)
  IN  /\ ReadsAs(s) = IF reads.thrown THEN {} ELSE {reads.out}
      /\ escaped.thrown <=> reads.thrown
      /\ ~escaped.thrown => /\ Unescaped(escaped.out) = s
                            /\ \A i \in 1 .. Len(escaped.out) : escaped.out[i] > 31
                            /\ Len(escaped.out) <= 6 * Len(s)

TextRight(q) ==
  CASE q[1] = "number" -> NumberRightOf(q[2], q[3])
    [] q[1] = "value" -> ValueRightOf(q[2])
    [] q[1] = "bytes" -> BytesRightOf(q[2])
=============================================================================

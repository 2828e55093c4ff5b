------------------------------ MODULE Divisor ------------------------------
(***************************************************************************)
(* thes::Divisor: division by a divisor known in advance, done as a        *)
(* multiplication by its scaled inverse.  A Value has ValueMod values and  *)
(* a WideValue twice as many bits; C++ computes in int with the operands   *)
(* of a type that fits into it, and modulo the type's range otherwise.     *)
(***************************************************************************)
EXTENDS Integers

CONSTANTS
  ValueMod,   \* how many values the unsigned type T has
  IntMax      \* the largest int

ASSUME ValueModAssumption == ValueMod \in Nat /\ ValueMod >= 2
ASSUME IntMaxAssumption == IntMax \in Nat

WideMod == ValueMod * ValueMod

Values == 0 .. ValueMod - 1

\* The result of an operation on an unsigned type with `mod` values: x itself when the
\* operands are promoted to int, and x reduced otherwise.
Arith(mod, x) == IF mod - 1 > IntMax THEN x % mod ELSE x

-----------------------------------------------------------------------------
(* Plausible mistakes, to stand in for the definition they misspell. *)

\* The reciprocal is rounded down.
InvertRoundingDown(d) == (WideMod - 1) \div d

-----------------------------------------------------------------------------
\* ceil(WideMod / d), except that it is 0 for 1.
Invert(d) == ((WideMod - 1) \div d + 1) % WideMod

\* floor(a * b) of a fraction a with 2 w bits and an integer b with w bits
MulFracInt(a, b) == ((a * b) \div WideMod) % ValueMod

\* The same for 64 bits, where the product does not fit into any type.
MulFracIntInParts(a, b) ==
  LET low == ((a % ValueMod) * b) \div ValueMod
      high == (a \div ValueMod) * b
  IN  ((low + high) \div ValueMod) % ValueMod

Remainder(a, d) == MulFracInt((Invert(d) * a) % WideMod, d)

Quotient(a, d) ==
  (MulFracInt(Invert(d), a) + IF Invert(d) = 0 THEN a ELSE 0) % ValueMod

ModFactor(d) == IF Invert(d) = 0 THEN 1 ELSE d

\* divmod
QuotientAndRemainder(a, d) ==
  LET quotient == Quotient(a, d) IN <<quotient, (a - quotient * ModFactor(d)) % ValueMod>>

IsDivisible(n, d) == Arith(WideMod, n * Invert(d)) <= Arith(WideMod, Invert(d) - 1)

=============================================================================

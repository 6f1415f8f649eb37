---------------------------- MODULE VectorElements ----------------------------
(***************************************************************************)
(* What the vector classes of src/include/libnux/vx do to each element of  *)
(* a vector. An element is a word of w bits, w being 8 or 16: a number     *)
(* from 0 to 2^w - 1. The classes VectorMod8 and VectorMod16 take it for   *)
(* an unsigned number, VectorFracSat8 and VectorFracSat16 for a signed one.*)
(***************************************************************************)
EXTENDS PowersOfTwo

Words(w) == 0 .. TwoTo[w] - 1
MinValue(w) == -(TwoTo[w-1])
MaxValue(w) == TwoTo[w-1] - 1

\* A word as a signed number, and back
Value(w, a) == IF a < TwoTo[w-1] THEN a ELSE a - TwoTo[w]
Word(w, v) == v % TwoTo[w]

\* The nearest signed number of w bits
Saturated(w, v) == IF v > MaxValue(w) THEN MaxValue(w)
                   ELSE IF v < MinValue(w) THEN MinValue(w) ELSE v

-----------------------------------------------------------------------------
(***************************************************************************)
(* The instructions of the vector unit. test_frac.cpp compares addfs,      *)
(* subfs and mulfs with the scalar fractions.                              *)
(***************************************************************************)

fxvaddm(w, a, b) == (a + b) % TwoTo[w]
fxvsubm(w, a, b) == (a - b) % TwoTo[w]
fxvmulm(w, a, b) == (a * b) % TwoTo[w]
fxvaddfs(w, a, b) == Word(w, Saturated(w, Value(w, a) + Value(w, b)))
fxvsubfs(w, a, b) == Word(w, Saturated(w, Value(w, a) - Value(w, b)))
fxvmulfs(w, a, b) == Word(w, Saturated(w, (Value(w, a) * Value(w, b)) \div TwoTo[w-1]))

\* Left by n bits, or right by -n bits, filling up with zeros.
\* Nothing is left of a word that is moved by its width.
fxvsh(w, a, n) == IF n >= w THEN 0
                  ELSE IF n >= 0 THEN (a % TwoTo[w-n]) * TwoTo[n] ELSE a \div TwoTo[-n]

\* What fxvcmp and fxvsel make of the word that is compared with zero.
fxvsel(w, compared, b, a, cond) ==
  LET v == Value(w, compared)
      holds == CASE cond = "gt" -> v > 0 [] cond = "lt" -> v < 0 [] cond = "eq" -> v = 0
  IN  IF holds THEN a ELSE b

-----------------------------------------------------------------------------

\* The classes
Mod8      == [width |-> 8, fractional |-> FALSE]
Mod16     == [width |-> 16, fractional |-> FALSE]
FracSat8  == [width |-> 8, fractional |-> TRUE]
FracSat16 == [width |-> 16, fractional |-> TRUE]
Classes   == {Mod8, Mod16, FracSat8, FracSat16}

Plus(c, a, b)  == IF c.fractional THEN fxvaddfs(c.width, a, b) ELSE fxvaddm(c.width, a, b)
Minus(c, a, b) == IF c.fractional THEN fxvsubfs(c.width, a, b) ELSE fxvsubm(c.width, a, b)
Times(c, a, b) == IF c.fractional THEN fxvmulfs(c.width, a, b) ELSE fxvmulm(c.width, a, b)

\* The operators, by their names
Combined(c, op, a, b) == CASE op = "+" -> Plus(c, a, b)
                           [] op = "-" -> Minus(c, a, b)
                           [] op = "*" -> Times(c, a, b)

Negated(c, a) == Minus(c, 0, a)

\* operator<<= of VectorMod
ModShift(w, a, n) == IF n > -w /\ n < w THEN fxvsh(w, a, n) ELSE 0

\* operator<<= of VectorFracSat: to the left, the sign is kept and what is moved
\* out below it is lost; to the right, the word is multiplied by a fraction.
FracShift(w, a, n) ==
  LET sign    == fxvsh(w, fxvsh(w, a, -(w-1)), w - 1)
      shifted == fxvsh(w, fxvsh(w, a, n + 1), -1)
  IN  IF n = 0 THEN a
      ELSE IF n \in 1 .. w - 1 THEN fxvaddm(w, shifted, sign)
      ELSE IF n \in -(w-1) .. -1 THEN fxvmulfs(w, a, TwoTo[w-1+n])
      ELSE 0

ShiftedLeft(c, a, n) == IF c.fractional THEN FracShift(c.width, a, n) ELSE ModShift(c.width, a, n)
ShiftedRight(c, a, n) == ShiftedLeft(c, a, -n)

\* uint8_to_int8 and its kind
Contiguous(c, a) == LET offset == TwoTo[c.width-1]
                    IN  IF c.fractional THEN fxvaddm(c.width, a, offset)
                        ELSE fxvsubm(c.width, a, offset)

-----------------------------------------------------------------------------

Conditions == {"greater", "lesser", "equal", "greater_equal", "lesser_equal", "unequal"}

\* Mistake: a signed comparison for unsigned elements.
VectorIfSigned(c, mask, condition, true, false) ==
  LET select(a, b, cond) == fxvsel(c.width, mask, b, a, cond)
  IN  CASE condition = "greater"       -> select(true, false, "gt")
        [] condition = "lesser"        -> select(true, false, "lt")
        [] condition = "equal"         -> select(true, false, "eq")
        [] condition = "greater_equal" -> select(false, true, "lt")
        [] condition = "lesser_equal"  -> select(false, true, "gt")
        [] condition = "unequal"       -> select(false, true, "eq")

\* vector_if(): only "equal to zero" can be told for unsigned elements.
VectorIf(c, mask, condition, true, false) ==
  LET select(a, b, cond) == fxvsel(c.width, mask, b, a, cond)
  IN  CASE condition = "equal"   -> select(true, false, "eq")
        [] condition = "unequal" -> select(false, true, "eq")
        [] condition = "greater" ->
             IF c.fractional THEN select(true, false, "gt") ELSE select(false, true, "eq")
        [] condition = "lesser" ->
             IF c.fractional THEN select(true, false, "lt") ELSE false
        [] condition = "greater_equal" ->
             IF c.fractional THEN select(false, true, "lt") ELSE true
        [] condition = "lesser_equal" ->
             IF c.fractional THEN select(false, true, "gt") ELSE select(true, false, "eq")

\* saturate_weight(), which is for words of 8 bits
SaturateWeight(a) == LET notNegative == fxvsel(8, a, 0, a, "gt")
                         excess      == fxvsubm(8, notNegative, 63)
                     IN  fxvsel(8, excess, notNegative, 63, "gt")

\* Mistake: one random bit too many.
RoundStochasticWide(c, a, lsb, random) ==
  LET w   == c.width
      sum == Plus(c, fxvsh(w, random, -(w - lsb - 1)), a)
  IN  IF lsb = 0 THEN a
      ELSE IF lsb < w THEN fxvsh(w, fxvsh(w, sum, -lsb), lsb)
      ELSE 0

\* vector_round_stochastic() with the number that the generator returns
RoundStochastic(c, a, lsb, random) ==
  LET w   == c.width
      sum == Plus(c, fxvsh(w, random, -(w - lsb)), a)
  IN  IF lsb = 0 THEN a
      ELSE IF lsb < w THEN fxvsh(w, fxvsh(w, sum, -lsb), lsb)
      ELSE 0

\* pow(): the loop multiplies exponent - 1 times.
Power(c, base, exponent) ==
  LET power[e \in 1 .. exponent] == IF e = 1 THEN base ELSE Times(c, power[e-1], base)
  IN  IF exponent = 0 THEN 1 ELSE power[exponent]
=============================================================================

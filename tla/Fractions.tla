------------------------------ MODULE Fractions ------------------------------
(***************************************************************************)
(* The scalar saturating fractions of src/include/libnux/vx/frac.h: the    *)
(* number m stands for m / 2^(w-1), where w is 8 or 16. They are computed  *)
(* in words of 2 * w bits.                                                 *)
(***************************************************************************)
EXTENDS VectorElements

\* static_cast<double_precision_type> and static_cast<data_type>
Narrow(w, v) == Value(w, Word(w, v))

FracPlus(w, a, b)  == Saturated(w, a + b)
FracMinus(w, a, b) == Saturated(w, a - b)

\* Mistake: the product of the smallest numbers is not treated apart.
FracTimesPlain(w, a, b) == Narrow(w, (a * b) \div TwoTo[w-1])

\* operator*=: shifted left by one, then right by w
FracTimes(w, a, b) ==
  IF a = MinValue(w) /\ b = MinValue(w)
  THEN (MinValue(w) * MinValue(w) - 1) \div TwoTo[w-1]
  ELSE Narrow(w, (a * b) \div TwoTo[w-1])

\* operator<<= and operator>>=
FracLeft(w, a, n)  == Saturated(w, Narrow(2 * w, a * TwoTo[n]))
FracRight(w, a, n) == Saturated(w, a \div TwoTo[n])
=============================================================================

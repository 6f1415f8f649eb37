------------------------------- MODULE Numerics -------------------------------
(***************************************************************************)
(* The numerical helpers of libnux: the fixed-point exponential (exp.cpp,  *)
(* fxdpt.h), the random numbers (random.cpp), the reversal of bits         *)
(* (bitformatting.cpp), helper.h and the measurements of time.h.           *)
(***************************************************************************)
EXTENDS PowersOfTwo, Sequences, FiniteSets

CONSTANT FracBits \* bits after the point of a fixed-point number: 16 in the program,
                  \* whose int32_t has twice as many

ASSUME NumericsAssumption == FracBits \in Nat \ {0}

-----------------------------------------------------------------------------
(***************************************************************************)
(* Fixed-point numbers                                                     *)
(***************************************************************************)

INV_SCALE == 2^FracBits

\* An integer of 2 * FracBits bits; a product that does not fit wraps around.
Signed(v) == LET half == 2^(2*FracBits-1) IN ((v + half) % (2 * half)) - half

\* Division of the language: towards zero
Quotient(a, b) == IF a >= 0 THEN a \div b ELSE -((-a) \div b)

\* FP(n / 10^6)
FP(millionths) == (millionths * INV_SCALE) \div 10^6

FpTimes(a, b) == Quotient(Signed(a * b), INV_SCALE)

\* The sum both functions end with
Series(x, x2, x3, x4, x5) ==
  Signed(INV_SCALE + x + Quotient(x2, 2) + Quotient(x3, 6) + Quotient(x4, 24) + Quotient(x5, 120))

exp_6(x) ==
  IF -INV_SCALE < x /\ x < INV_SCALE
  THEN LET x2 == FpTimes(x, x)
           x3 == FpTimes(x2, x)
       IN  Series(x, x2, x3, FpTimes(x2, x2), FpTimes(x3, x2))
  ELSE LET integral(v) == Quotient(v, INV_SCALE)
           x2 == Signed(x * integral(x))
           x3 == Signed(x2 * integral(x))
       IN  Series(x, x2, x3, Signed(x2 * integral(x2)), Signed(x3 * integral(x2)))

\* exp() of the integers from -11 to 10, in units of one millionth, and what is
\* behind the point for those that are too large to be given in that unit
lut_millionths == <<17, 45, 123, 335, 912, 2479, 6738, 18316, 49787, 135335, 367879, 1000000>>
lut_from_1 == << <<2, 718282>>, <<7, 389056>>, <<20, 85537>>, <<54, 598150>>, <<148, 413159>>,
               <<403, 428793>>, <<1096, 633158>>, <<2980, 957987>>, <<8103, 83928>>,
               <<22026, 465795>> >>

IntegerPower(k) == IF k <= 0 THEN FP(lut_millionths[k + 12])
                   ELSE lut_from_1[k][1] * INV_SCALE + FP(lut_from_1[k][2])

\* Mistake: the fraction is not brought into -0.5 .. 0.5 from below.
SplitUpperOnly(x) ==
  LET ik == Quotient(x, INV_SCALE)
      fk == x - ik * INV_SCALE
  IN  IF fk > INV_SCALE \div 2 THEN <<ik + 1, fk - INV_SCALE>>
      ELSE IF fk < -(INV_SCALE \div 2) THEN <<ik, fk + INV_SCALE>>
      ELSE <<ik, fk>>

\* x as an integer and a fraction in -0.5 .. 0.5
Split(x) ==
  LET ik == Quotient(x, INV_SCALE)
      fk == x - ik * INV_SCALE
  IN  IF fk > INV_SCALE \div 2 THEN <<ik + 1, fk - INV_SCALE>>
      ELSE IF fk < -(INV_SCALE \div 2) THEN <<ik - 1, fk + INV_SCALE>>
      ELSE <<ik, fk>>

\* Above 11 and below -11, the integer part counts as 65535 and -65535. (For 11,
\* the table is read behind its end: not defined here; above 10, the result does
\* not fit into the program's word, which this model leaves out.)
exp_6b(x) ==
  LET ik == Split(x)[1]
      fk == Split(x)[2]
      power == IF ik > 11 THEN 65535 ELSE IF ik < -11 THEN -65535 ELSE IntegerPower(ik)
      x2 == FpTimes(fk, fk)
      x3 == FpTimes(x2, fk)
  IN  Quotient(power * Series(fk, x2, x3, FpTimes(x2, x2), FpTimes(x3, x2)), INV_SCALE)

\* exp_n(): the coefficient is an unsigned number, and so the quotient is that of
\* the power's word.
exp_n(x, n) ==
  LET range == 2^(2*FracBits)
      power[i \in 1 .. n] ==
        IF i = 1 THEN x
        ELSE IF -INV_SCALE < x /\ x < INV_SCALE THEN FpTimes(power[i-1], x)
        ELSE Signed(power[i-1] * Quotient(x, INV_SCALE))
      coeff[i \in 1 .. n] == IF i = 1 THEN 1 ELSE (i * coeff[i-1]) % range
      sum[i \in 1 .. n] == IF i = 1 THEN INV_SCALE + x
                           ELSE sum[i-1] + (power[i] % range) \div coeff[i]
  IN  Signed(sum[IF n > 2 THEN n - 1 ELSE 1])

\* fxdpt_32_to_16_bits(), with 4 bits after the point in a word of half the width
fxdpt_32_to_16_bits(x) ==
  LET half == 2^(FracBits-1) IN ((Quotient(x, INV_SCALE \div 16) + half) % (2 * half)) - half

-----------------------------------------------------------------------------
(***************************************************************************)
(* Random numbers. A word of 32 bits is the set of the bits that are set.  *)
(***************************************************************************)

WordBits32 == 0 .. 31
Xor(a, b) == (a \ b) \cup (b \ a)
Left(a, n)  == {i \in WordBits32 : i - n \in a}
Right(a, n) == {i \in WordBits32 : i + n \in a}

xorshift32(seed) ==
  LET first  == Xor(seed, Left(seed, 13))
      second == Xor(first, Right(first, 17))
  IN  Xor(second, Left(second, 5))

\* a > b as numbers: the highest bit in which they differ is one of a
Greater(a, b) ==
  \E i \in WordBits32 : /\ i \in a /\ i \notin b
                       /\ \A j \in WordBits32 : j > i => (j \in a <=> j \in b)

\* The first of a set of places
First(places) == CHOOSE i \in places : \A j \in places : i <= j

\* draw_poisson(): the numbers of the generator up to the first that is not above
\* the cutoff, at most limit of them (bound); each but the last counts dt
Drawn(seed, limit) ==
  LET draw[n \in 0 .. limit] == IF n = 0 THEN xorshift32(seed) ELSE xorshift32(draw[n-1])
  IN  draw

draw_poisson(seed, cutoff, dt, limit) ==
  LET hits == {n \in 0 .. limit : ~ Greater(Drawn(seed, limit)[n], cutoff)}
  IN  [found |-> hits # {}, t |-> IF hits = {} THEN 0 ELSE dt * First(hits)]

\* The lower 12 bits of random_lcg(), which are those of its seed's lower 12 bits
random_lcg(seed) == (1549 * seed + 863) % TwoTo[12]

-----------------------------------------------------------------------------
(***************************************************************************)
(* Helpers                                                                 *)
(***************************************************************************)

\* A byte is the set of the bits that are set: halves, pairs and single bits are
\* switched with their neighbours.
reverse_byte(b) ==
  LET switched(byte, n) == {i \in 0 .. 7 : IF (i \div n) % 2 = 0 THEN i + n \in byte
                                           ELSE i - n \in byte}
  IN  switched(switched(switched(b, 4), 2), 1)

\* abs_diff() of two unsigned numbers
abs_diff(a, b) == IF a >= b THEN a - b ELSE b - a

\* Mistake: the inner loop leaves out the last place, too.
find_max_amount_short(array) ==
  LET size == Len(array)
      amount(i) == Cardinality({j \in i .. size - 1 : array[j] = array[i]})
      best == {i \in 1 .. size - 1 : \A j \in 1 .. size - 1 : amount(j) <= amount(i)}
  IN  array[IF size = 1 THEN 1 ELSE First(best)]

\* find_max_amount(): how often an element is found from its place on; the first
\* with the largest number, the last place being left out
find_max_amount(array) ==
  LET size == Len(array)
      amount(i) == Cardinality({j \in i .. size : array[j] = array[i]})
      best == {i \in 1 .. size - 1 : \A j \in 1 .. size - 1 : amount(j) <= amount(i)}
  IN  array[IF size = 1 THEN 1 ELSE First(best)]

\* The measurements of time.h: pairs of times of w bits
Differences(w, times) == [i \in 1 .. Len(times) |-> (times[i][2] - times[i][1]) % TwoTo[w]]

\* The loops over them: what is in the variable after n rounds
average(w, times) ==
  LET d == Differences(w, times)
      avg[n \in 0 .. Len(times)] == IF n = 0 THEN 0 ELSE (avg[n-1] + d[n]) % TwoTo[w]
  IN  avg[Len(times)] \div Len(times)

max_time(w, times) ==
  LET d == Differences(w, times)
      t_max[n \in 0 .. Len(times)] ==
        IF n = 0 THEN 0 ELSE IF t_max[n-1] < d[n] THEN d[n] ELSE t_max[n-1]
  IN  t_max[Len(times)]

min_time(w, times) ==
  LET d == Differences(w, times)
      t_min[n \in 0 .. Len(times)] ==
        IF n = 0 THEN d[1] ELSE IF t_min[n-1] > d[n] THEN d[n] ELSE t_min[n-1]
  IN  t_min[Len(times)]
=============================================================================

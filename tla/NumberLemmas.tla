---------------------------- MODULE NumberLemmas ----------------------------
(***************************************************************************)
(* What the proofs of the components need to know of numbers: induction in *)
(* terms of sets, remainders as words and cyclic indices have them, and    *)
(* periods that are counted in a word.                                     *)
(***************************************************************************)
EXTENDS PowersOfTwo, WellFoundedInduction, TLAPS

-----------------------------------------------------------------------------
(* Induction. A property of numbers is the set of those that have it. *)

\* A set of numbers that is not empty has a smallest one.
LEMMA Smallest ==
  ASSUME NEW S, S \subseteq Nat, S # {} PROVE \E n \in S : \A m \in S : n <= m
<1> DEFINE R == {ss \in Nat \X Nat : ss[1] < ss[2]}
<1>1. IsWellFoundedOn(R, Nat)
  BY NatLessThanWellFounded DEF OpToRel
<1>2. PICK n \in S : \A m \in S : ~ <<m, n>> \in R
  <2> HIDE DEF R
  <2> QED
    BY <1>1, WFMin
<1>3. ASSUME NEW m \in S PROVE n <= m
  <2>1. ~ (<<m, n>>[1] < <<m, n>>[2])
    BY <1>2
  <2>2. m \in Nat /\ n \in Nat
    OBVIOUS
  <2> QED
    BY <2>1, <2>2
<1> QED
  BY <1>3

\* Induction on all smaller numbers
LEMMA StrongInduction ==
  ASSUME NEW S, \A n \in Nat : (\A m \in 0 .. n - 1 : m \in S) => n \in S
  PROVE  Nat \subseteq S
<1> SUFFICES ASSUME Nat \ S # {} PROVE FALSE
  OBVIOUS
<1>1. PICK n \in Nat \ S : \A m \in Nat \ S : n <= m
  BY Smallest
<1>2. ASSUME NEW m \in 0 .. n - 1 PROVE m \in S
  <2>1. m \in Nat /\ ~ n <= m
    OBVIOUS
  <2> QED
    BY <1>1, <2>1
<1> QED
  BY <1>2

\* Induction from one number to the next
LEMMA Induction ==
  ASSUME NEW S, 0 \in S, \A n \in Nat : n \in S => n + 1 \in S
  PROVE  Nat \subseteq S
<1>1. ASSUME NEW n \in Nat, \A m \in 0 .. n - 1 : m \in S PROVE n \in S
  <2>1. CASE n = 0
    BY <2>1
  <2>2. CASE n # 0
    <3>1. n - 1 \in Nat /\ n - 1 \in 0 .. n - 1 /\ (n - 1) + 1 = n
      BY <2>2
    <3>2. n - 1 \in S
      BY <1>1, <3>1
    <3> QED
      BY <3>1, <3>2
  <2> QED
    BY <2>1, <2>2
<1> QED
  BY <1>1, StrongInduction

-----------------------------------------------------------------------------
(* Remainders *)

\* Numbers that are too large by at most one turn, as cyclic indices are: the
\* remainder is the number itself or one turn less.
LEMMA ModSmall ==
  ASSUME NEW n \in Nat, n > 0, NEW x \in Nat, x < 2 * n
  PROVE  /\ x % n \in 0 .. n - 1
         /\ x < n => x % n = x
         /\ x >= n => x % n = x - n
  BY SMTT(30)

\* Quotient and remainder.
LEMMA DivMod ==
  ASSUME NEW n \in Nat, n > 0, NEW x \in Int
  PROVE  /\ x \div n \in Int
         /\ x % n \in 0 .. n - 1
         /\ x = n * (x \div n) + (x % n)
  BY Z3

\* A product of n that lies between -n and n is zero.
LEMMA NoMultiple ==
  ASSUME NEW n \in Nat, n > 0, NEW k \in Int, - n < n * k, n * k < n
  PROVE  k = 0
<1>1. CASE k >= 1
  <2>1. n * k >= n * 1
    BY <1>1, Z3
  <2> QED
    BY <2>1
<1>2. CASE k <= -1
  <2>1. n * k <= n * (-1)
    BY <1>2, Z3
  <2> QED
    BY <2>1
<1> QED
  BY <1>1, <1>2

\* The remainder is the only number below n that differs by a multiple of n.
LEMMA ModIs ==
  ASSUME NEW n \in Nat, n > 0, NEW x \in Int, NEW k \in Int, NEW r \in 0 .. n - 1,
         x = n * k + r
  PROVE  x % n = r
<1> DEFINE q == x \div n
           m == x % n
<1>1. q \in Int /\ m \in 0 .. n - 1 /\ x = n * q + m
  BY DivMod
<1> HIDE DEF q, m
<1>2. n * (k - q) = m - r
  <2>1. n * (k - q) = n * k - n * q
    BY <1>1, Z3
  <2> QED
    BY <1>1, <2>1
<1>3. k - q = 0
  <2>1. k - q \in Int /\ - n < n * (k - q) /\ n * (k - q) < n
    BY <1>1, <1>2
  <2> QED
    BY <2>1, NoMultiple
<1>4. n * (k - q) = 0
  BY <1>3
<1> QED
  BY <1>1, <1>2, <1>4 DEF m

\* And so is the quotient.
LEMMA DivIs ==
  ASSUME NEW n \in Nat, n > 0, NEW x \in Int, NEW k \in Int, NEW r \in 0 .. n - 1,
         x = n * k + r
  PROVE  x \div n = k
<1> DEFINE q == x \div n
<1>1. q \in Int /\ x = n * q + (x % n)
  BY DivMod
<1>2. x % n = r
  BY ModIs
<1> HIDE DEF q
<1>3. n * (q - k) = 0
  <2>1. n * (q - k) = n * q - n * k
    BY <1>1, Z3
  <2> QED
    BY <1>1, <1>2, <2>1
<1>4. q - k = 0
  <2>1. q - k \in Int /\ - n < n * (q - k) /\ n * (q - k) < n
    BY <1>1, <1>3
  <2> QED
    BY <2>1, NoMultiple
<1> QED
  BY <1>1, <1>4 DEF q

\* Numbers that differ by a multiple of n have the same remainder.
LEMMA SameMod ==
  ASSUME NEW n \in Nat, n > 0, NEW a \in Int, NEW b \in Int, NEW k \in Int,
         a = b + n * k
  PROVE  a % n = b % n
<1> DEFINE q == b \div n
           r == b % n
<1>1. q \in Int /\ r \in 0 .. n - 1 /\ b = n * q + r
  BY DivMod
<1> HIDE DEF q, r
<1>2. q + k \in Int /\ a = n * (q + k) + r
  BY <1>1, Z3
<1>3. a % n = r
  BY <1>1, <1>2, ModIs
<1> QED
  BY <1>3 DEF r

\* The other way round.
LEMMA Multiple ==
  ASSUME NEW n \in Nat, n > 0, NEW a \in Int, NEW b \in Int, a % n = b % n
  PROVE  \E k \in Int : a = b + n * k
<1>1. /\ a \div n \in Int /\ a = n * (a \div n) + (a % n)
      /\ b \div n \in Int /\ b = n * (b \div n) + (b % n)
  BY DivMod
<1>2. a = b + n * (a \div n - b \div n)
  BY <1>1, Z3
<1> QED
  BY <1>1, <1>2

\* Two counters modulo n that agree still do after both have counted on.
LEMMA CountOn ==
  ASSUME NEW n \in Nat, n > 0, NEW a \in Int, NEW b \in Int, a % n = b % n,
         NEW c \in Int, NEW j \in Int, c = b + 1 + n * j
  PROVE  (a + 1) % n = c % n
<1>1. PICK k \in Int : a = b + n * k
  BY Multiple
<1> DEFINE m == k - j
           d == a + 1
<1>2. d \in Int /\ m \in Int /\ d = c + n * m
  BY <1>1, Z3
<1> HIDE DEF m, d
<1>3. d % n = c % n
  BY <1>2, SameMod
<1> QED
  BY <1>3 DEF d

-----------------------------------------------------------------------------
(* Periods *)

\* A product grows with its second factor.
LEMMA Grows ==
  ASSUME NEW p \in Nat, NEW a \in Int, NEW b \in Int, a <= b
  PROVE  p * a <= p * b
  BY SMTT(30)

\* What grows when it is multiplied was smaller before.
LEMMA GrowsBack ==
  ASSUME NEW p \in Nat, NEW a \in Int, NEW b \in Int, p * a < p * b
  PROVE  a < b
<1>1. b <= a => p * b <= p * a
  BY Grows
<1>2. p * a \in Int /\ p * b \in Int
  OBVIOUS
<1> QED
  BY <1>1, <1>2

\* A schedule of num periods from start on ends below n; last is the end of its k-th
\* period, and t is not before last but before the end of the schedule. The later ends of
\* periods are taken modulo n: the numbers of those that are not before t are ends.
OnSchedule(n, start, period, num, k, last, t, ends) ==
  /\ n \in Nat \ {0} /\ start \in Nat /\ period \in Nat /\ num \in 0 .. n - 1
  /\ start + period * num < n
  /\ k \in 0 .. num /\ last = start + period * k
  /\ t \in Nat /\ last <= t /\ t < start + period * num
  /\ ends = {i \in 0 .. n - 1 : (last + (i + 1) * period) % n >= t}

\* The first of these ends is one of the schedule.
LEMMA NextPeriod ==
  ASSUME NEW n, NEW start, NEW period, NEW num, NEW k, NEW last, NEW t, NEW ends,
         OnSchedule(n, start, period, num, k, last, t, ends)
  PROVE  /\ ends # {}
         /\ \A i \in ends : (\A j \in ends : i <= j) =>
              /\ k + i + 1 <= num /\ period > 0
              /\ (last + (i + 1) * period) % n = start + period * (k + i + 1)
              /\ (last + (i + 1) * period) % n = last + (i + 1) * period
              /\ ((last + (i + 1) * period) % n) - period <= t
<1>0. /\ n \in Nat /\ n > 0 /\ start \in Nat /\ period \in Nat /\ num \in Nat /\ num < n
      /\ start + period * num < n
      /\ k \in Nat /\ k <= num /\ last = start + period * k
      /\ t \in Nat /\ last <= t /\ t < start + period * num
  BY DEF OnSchedule
<1> ends = {i \in 0 .. n - 1 : (last + (i + 1) * period) % n >= t}
  BY DEF OnSchedule
<1>1. last \in Nat /\ k < num
  <2>1. period * k \in Nat /\ period * num \in Nat
    BY <1>0
  <2>2. period * k < period * num
    BY <1>0, <2>1
  <2> QED
    BY <1>0, <2>1, <2>2, GrowsBack
\* As long as the schedule goes on, the sums are what they seem to be.
<1>2. ASSUME NEW i \in Nat, k + i + 1 <= num
      PROVE  /\ (last + (i + 1) * period) % n = start + period * (k + i + 1)
             /\ (last + (i + 1) * period) % n = last + (i + 1) * period
  <2>1. last + (i + 1) * period = start + period * (k + i + 1)
    <3>1. period * (k + i + 1) = period * k + (i + 1) * period
      BY <1>0, Z3
    <3> QED
      BY <1>0, <3>1
  <2>2. period * (k + i + 1) <= period * num
    BY <1>0, <1>2, Grows
  <2>3. period * (k + i + 1) \in Nat
    BY <1>0
  <2>4. start + period * (k + i + 1) \in 0 .. n - 1
    BY <1>0, <2>2, <2>3
  <2>5. (start + period * (k + i + 1)) % n = start + period * (k + i + 1)
    BY <1>0, <2>4
  <2> QED
    BY <2>1, <2>5
<1>3. num - k - 1 \in ends
  <2>1. num - k - 1 \in 0 .. n - 1 /\ num - k - 1 \in Nat /\ k + (num - k - 1) + 1 = num
    BY <1>0, <1>1
  <2>2. (last + ((num - k - 1) + 1) * period) % n = start + period * num
    BY <1>0, <1>2, <2>1
  <2> QED
    BY <1>0, <2>1, <2>2
<1>4. ASSUME NEW i \in ends, \A j \in ends : i <= j
      PROVE  /\ k + i + 1 <= num /\ period > 0
             /\ ((last + (i + 1) * period) % n) - period <= t
  <2>1. i \in Nat /\ i < n
    BY <1>0
  <2>2. k + i + 1 <= num
    <3>1. i <= num - k - 1
      BY <1>3, <1>4
    <3> QED
      BY <1>0, <2>1, <3>1
  <2>3. (last + (i + 1) * period) % n = last + (i + 1) * period
    BY <1>2, <2>1, <2>2
  <2>4. period > 0
    <3>1. period = 0 => period * k = 0 /\ period * num = 0
      BY <1>0, Z3
    <3> QED
      BY <1>0, <3>1
  <2>5. (last + (i + 1) * period) - period <= t
    <3>1. CASE i = 0
      BY <1>0, <1>1, <3>1
    <3>2. CASE i > 0
      <4>1. i - 1 \in Nat /\ i - 1 \in 0 .. n - 1 /\ k + (i - 1) + 1 <= num /\ ~ i <= i - 1
        BY <1>0, <2>1, <2>2, <3>2
      <4>2. i - 1 \notin ends
        BY <1>4, <4>1
      <4>3. ~ (last + ((i - 1) + 1) * period) % n >= t
        BY <1>0, <4>1, <4>2
      <4>4. (last + ((i - 1) + 1) * period) % n = last + ((i - 1) + 1) * period
        BY <1>2, <4>1
      <4>5. (i + 1) * period - period = ((i - 1) + 1) * period
        BY <1>0, <2>1, Z3
      <4>6. (i + 1) * period \in Int /\ ((i - 1) + 1) * period \in Int
        BY <1>0, <2>1
      <4> QED
        BY <1>0, <1>1, <4>3, <4>4, <4>5, <4>6
    <3> QED
      BY <2>1, <3>1, <3>2
  <2> QED
    BY <2>2, <2>3, <2>4, <2>5
<1>5. \A i \in ends : i \in Nat
  BY <1>0
<1> QED
  BY <1>2, <1>3, <1>4, <1>5

-----------------------------------------------------------------------------
(* Powers of two. *)

\* A function that is recursive on all numbers exists, since its beginnings do.
LEMMA TwoToDoubles ==
  /\ TwoTo[0] = 1
  /\ \A n \in Nat : TwoTo[n + 1] = 2 * TwoTo[n]
<1> DEFINE Following(g, m) == IF m = 0 THEN 1 ELSE 2 * g[m - 1]
           Has(g, n) == \A m \in 0 .. n : g[m] = Following(g, m)
           S == {n \in Nat : \E g : Has(g, n)}
<1>1. ASSUME NEW n \in Nat PROVE \E g : Has(g, n)
  <2>1. \E g : Has(g, 0)
    <3>1. Has([m \in {0} |-> 1], 0)
      OBVIOUS
    <3> QED
      BY <3>1
  <2>2. ASSUME NEW k \in Nat, \E g : Has(g, k) PROVE \E g : Has(g, k + 1)
    <3>1. PICK g : Has(g, k)
      BY <2>2
    <3> DEFINE h == [m \in 0 .. k + 1 |-> IF m = k + 1 THEN 2 * g[k] ELSE g[m]]
    <3>2. ASSUME NEW m \in 0 .. k + 1 PROVE h[m] = Following(h, m)
      <4>1. CASE m = k + 1
        BY <4>1
      <4>2. CASE m # k + 1
        <5>1. m \in 0 .. k /\ g[m] = Following(g, m) /\ h[m] = g[m]
          BY <3>1, <4>2
        <5>2. m # 0 => h[m - 1] = g[m - 1]
          BY <5>1
        <5> QED
          BY <5>1, <5>2
      <4> QED
        BY <4>1, <4>2
    <3>3. Has(h, k + 1)
      BY <3>2
    <3> HIDE DEF Has, h
    <3> QED
      BY <3>3
  <2> HIDE DEF Has
  <2>3. 0 \in S /\ \A k \in Nat : k \in S => k + 1 \in S
    BY <2>1, <2>2
  <2> HIDE DEF S
  <2>4. n \in S
    BY <2>3, Induction
  <2> QED
    BY <2>4 DEF S
<1>2. ASSUME NEW n \in Nat, NEW k \in Nat, NEW g, NEW h, Has(g, n), Has(h, k),
             NEW m \in Nat, m <= n, m <= k
      PROVE  g[m] = h[m]
  <2> DEFINE T == {i \in Nat : i <= n /\ i <= k => g[i] = h[i]}
  <2>1. 0 \in T
    <3>1. 0 \in 0 .. n /\ 0 \in 0 .. k
      OBVIOUS
    <3>2. g[0] = Following(g, 0) /\ h[0] = Following(h, 0)
      BY <1>2, <3>1
    <3> QED
      BY <3>2
  <2>2. ASSUME NEW i \in Nat, i \in T PROVE i + 1 \in T
    <3> SUFFICES ASSUME i + 1 <= n, i + 1 <= k PROVE g[i + 1] = h[i + 1]
      OBVIOUS
    <3>1. i + 1 \in 0 .. n /\ i + 1 \in 0 .. k /\ (i + 1) - 1 = i /\ i + 1 # 0
      OBVIOUS
    <3>2. g[i + 1] = Following(g, i + 1) /\ h[i + 1] = Following(h, i + 1)
      BY <1>2, <3>1
    <3>3. g[i] = h[i]
      BY <2>2
    <3> QED
      BY <3>1, <3>2, <3>3
  <2> HIDE DEF T
  <2>3. m \in T
    BY <2>1, <2>2, Induction
  <2> QED
    BY <1>2, <2>3 DEF T
<1> DEFINE first(n) == CHOOSE g : Has(g, n)
           f == [n \in Nat |-> first(n)[n]]
<1>3. ASSUME NEW n \in Nat PROVE f[n] = Following(f, n)
  <2>1. Has(first(n), n)
    <3> HIDE DEF Has
    <3> QED
      BY <1>1
  <2>2. first(n)[n] = Following(first(n), n)
    BY <2>1
  <2>3. CASE n = 0
    BY <2>2, <2>3
  <2>4. CASE n # 0
    <3>1. n - 1 \in Nat
      BY <2>4
    <3>2. Has(first(n - 1), n - 1)
      <4> HIDE DEF Has
      <4> QED
        BY <1>1, <3>1
    <3>3. first(n)[n - 1] = first(n - 1)[n - 1]
      <4> HIDE DEF Has, first
      <4> QED
        BY <1>2, <2>1, <3>1, <3>2
    <3>4. f[n - 1] = first(n - 1)[n - 1]
      BY <3>1
    <3> HIDE DEF first
    <3> QED
      BY <2>2, <2>4, <3>3, <3>4
  <2> QED
    BY <2>3, <2>4
<1>4. f = [n \in Nat |-> Following(f, n)]
  <2>1. f = [n \in Nat |-> f[n]]
    OBVIOUS
  <2> HIDE DEF f
  <2> QED
    BY <1>3, <2>1
<1>5. TwoTo = [n \in Nat |-> IF n = 0 THEN 1 ELSE 2 * TwoTo[n - 1]]
  <2> HIDE DEF f
  <2> QED
    BY <1>4 DEF TwoTo
<1>6. ASSUME NEW n \in Nat PROVE TwoTo[n + 1] = 2 * TwoTo[n]
  <2>1. n + 1 \in Nat /\ n + 1 # 0 /\ (n + 1) - 1 = n
    OBVIOUS
  <2> QED
    BY <1>5, <2>1
<1> QED
  BY <1>5, <1>6

\* All powers are positive.
LEMMA TwoToPositive == \A n \in Nat : TwoTo[n] \in Nat /\ TwoTo[n] > 0
<1> DEFINE S == {n \in Nat : TwoTo[n] \in Nat /\ TwoTo[n] > 0}
<1>1. 0 \in S
  BY TwoToDoubles
<1>2. ASSUME NEW n \in Nat, n \in S PROVE n + 1 \in S
  BY <1>2, TwoToDoubles
<1> HIDE DEF S
<1>3. Nat \subseteq S
  BY <1>1, <1>2, Induction
<1> QED
  BY <1>3 DEF S

\* The powers multiply as their exponents add up.
LEMMA TwoToSum == \A m, n \in Nat : TwoTo[m + n] = TwoTo[m] * TwoTo[n]
<1> SUFFICES ASSUME NEW m \in Nat PROVE \A n \in Nat : TwoTo[m + n] = TwoTo[m] * TwoTo[n]
  OBVIOUS
<1> DEFINE S == {n \in Nat : TwoTo[m + n] = TwoTo[m] * TwoTo[n]}
<1>1. 0 \in S
  BY TwoToDoubles, TwoToPositive
<1>2. ASSUME NEW n \in Nat, n \in S PROVE n + 1 \in S
  <2>1. m + n \in Nat /\ m + (n + 1) = (m + n) + 1
    OBVIOUS
  <2>2. TwoTo[m + (n + 1)] = 2 * (TwoTo[m] * TwoTo[n])
    BY <1>2, <2>1, TwoToDoubles
  <2>3. TwoTo[n + 1] = 2 * TwoTo[n]
    BY TwoToDoubles
  <2>4. TwoTo[m] \in Nat /\ TwoTo[n] \in Nat
    BY TwoToPositive
  <2>5. 2 * (TwoTo[m] * TwoTo[n]) = TwoTo[m] * (2 * TwoTo[n])
    BY <2>4, Z3
  <2> QED
    BY <2>2, <2>3, <2>5
<1> HIDE DEF S
<1>3. Nat \subseteq S
  BY <1>1, <1>2, Induction
<1> QED
  BY <1>3 DEF S

\* A larger exponent makes a larger power, at least the double.
LEMMA TwoToGrows ==
  \A m, n \in Nat : /\ m <= n => TwoTo[m] <= TwoTo[n]
                    /\ m < n => 2 * TwoTo[m] <= TwoTo[n]
<1>1. ASSUME NEW m \in Nat, NEW n \in Nat, m <= n PROVE TwoTo[m] <= TwoTo[n]
  <2>1. n - m \in Nat /\ m + (n - m) = n
    BY <1>1
  <2>2. TwoTo[n] = TwoTo[m] * TwoTo[n - m]
    BY <2>1, TwoToSum
  <2>3. TwoTo[m] \in Nat /\ TwoTo[n - m] \in Nat /\ TwoTo[n - m] >= 1
    BY <2>1, TwoToPositive
  <2>4. TwoTo[m] * TwoTo[n - m] >= TwoTo[m] * 1
    BY <2>3, Z3
  <2> QED
    BY <2>2, <2>3, <2>4
<1>2. ASSUME NEW m \in Nat, NEW n \in Nat, m < n PROVE 2 * TwoTo[m] <= TwoTo[n]
  <2>1. m + 1 \in Nat /\ m + 1 <= n
    BY <1>2
  <2> QED
    BY <2>1, <1>1, TwoToDoubles
<1> QED
  BY <1>1, <1>2

\* The powers up to the widths of words
LEMMA TwoToValues ==
  /\ TwoTo[0] = 1 /\ TwoTo[1] = 2 /\ TwoTo[2] = 4 /\ TwoTo[3] = 8
  /\ TwoTo[4] = 16 /\ TwoTo[5] = 32 /\ TwoTo[6] = 64 /\ TwoTo[7] = 128
  /\ TwoTo[8] = 256 /\ TwoTo[9] = 512 /\ TwoTo[10] = 1024 /\ TwoTo[11] = 2048
  /\ TwoTo[12] = 4096 /\ TwoTo[13] = 8192 /\ TwoTo[14] = 16384 /\ TwoTo[15] = 32768
  /\ TwoTo[16] = 65536
<1>1. /\ TwoTo[0] = 1 /\ TwoTo[1] = 2 /\ TwoTo[2] = 4 /\ TwoTo[3] = 8 /\ TwoTo[4] = 16
  <2>1. /\ TwoTo[0] = 1 /\ TwoTo[0 + 1] = 2 * TwoTo[0] /\ TwoTo[1 + 1] = 2 * TwoTo[1]
        /\ TwoTo[2 + 1] = 2 * TwoTo[2] /\ TwoTo[3 + 1] = 2 * TwoTo[3]
    BY TwoToDoubles
  <2> QED
    BY <2>1
<1>2. /\ TwoTo[5] = 32 /\ TwoTo[6] = 64 /\ TwoTo[7] = 128 /\ TwoTo[8] = 256
  <2>1. /\ TwoTo[4 + 1] = 2 * TwoTo[4] /\ TwoTo[5 + 1] = 2 * TwoTo[5]
        /\ TwoTo[6 + 1] = 2 * TwoTo[6] /\ TwoTo[7 + 1] = 2 * TwoTo[7]
    BY TwoToDoubles
  <2> QED
    BY <1>1, <2>1
<1>3. ASSUME NEW n \in 1 .. 8 PROVE TwoTo[8 + n] = TwoTo[8] * TwoTo[n]
  <2>1. n \in Nat /\ 8 \in Nat
    OBVIOUS
  <2> QED
    BY <2>1, TwoToSum
<1>4. /\ TwoTo[8 + 1] = TwoTo[8] * TwoTo[1] /\ TwoTo[8 + 2] = TwoTo[8] * TwoTo[2]
      /\ TwoTo[8 + 3] = TwoTo[8] * TwoTo[3] /\ TwoTo[8 + 4] = TwoTo[8] * TwoTo[4]
      /\ TwoTo[8 + 5] = TwoTo[8] * TwoTo[5] /\ TwoTo[8 + 6] = TwoTo[8] * TwoTo[6]
      /\ TwoTo[8 + 7] = TwoTo[8] * TwoTo[7] /\ TwoTo[8 + 8] = TwoTo[8] * TwoTo[8]
  BY <1>3
<1> QED
  BY <1>1, <1>2, <1>4
=============================================================================

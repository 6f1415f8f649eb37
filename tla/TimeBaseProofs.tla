---------------------------- MODULE TimeBaseProofs ----------------------------
(***************************************************************************)
(* Proofs about now() and sleep_cycles(), for halves of any size and for   *)
(* any gaps that are small against the lower half: however the counter     *)
(* carries between the reads of its halves, now() is off by one count of   *)
(* the upper half at most, and sleep_cycles() is not disturbed.            *)
(***************************************************************************)
EXTENDS TimeBase, NumberLemmas, TLAPS

\* What the assumption says of the constants.
LEMMA Ranges ==
  /\ LowRange \in Nat /\ LowRange > 0
  /\ LowRange \div 2 \in Nat /\ LowRange = 2 * (LowRange \div 2)
  /\ MaxGap \in Nat /\ 4 * MaxGap < LowRange
  /\ Offset \in Nat
  /\ HighRange \in Nat /\ HighRange > 0
  /\ TimeBaseRange \in Nat /\ TimeBaseRange >= LowRange
  /\ MaxElapsed = 2 * LowRange
<1>1. /\ LowRange \in Nat /\ LowRange % 2 = 0 /\ LowRange > 4 * MaxGap
      /\ HighRange \in Nat \ {0} /\ Offset \in Nat /\ MaxGap \in Nat
  BY TimeBaseAssumption
<1>2. LowRange * HighRange \in Nat /\ LowRange * HighRange >= LowRange * 1
  BY <1>1, Z3
<1>3. LowRange \div 2 \in Nat /\ LowRange = 2 * (LowRange \div 2)
  BY <1>1
<1> QED
  BY <1>1, <1>2, <1>3 DEF TimeBaseRange, MaxElapsed

-----------------------------------------------------------------------------
(***************************************************************************)
(* The halves of a time.                                                   *)
(***************************************************************************)

\* The halves of a time have their ranges.
LEMMA Halves ==
  ASSUME NEW t \in 0 .. TimeBaseRange - 1
  PROVE  /\ t \div LowRange \in 0 .. HighRange - 1
         /\ t % LowRange \in 0 .. LowRange - 1
<1>1. /\ LowRange \in Nat /\ LowRange > 0 /\ HighRange \in Nat /\ HighRange > 0
  BY TimeBaseAssumption
<1>2. t \in Nat /\ t < LowRange * HighRange
  BY <1>1, Z3 DEF TimeBaseRange
<1>3. /\ t \div LowRange \in Nat
      /\ t = LowRange * (t \div LowRange) + (t % LowRange)
      /\ t % LowRange \in 0 .. LowRange - 1
  BY <1>1, <1>2, Z3
<1>4. t \div LowRange < HighRange
  <2> DEFINE h == t \div LowRange
  <2>1. SUFFICES ASSUME h >= HighRange PROVE FALSE
    BY <1>1, <1>3
  <2>2. LowRange * h >= LowRange * HighRange
    <3> HIDE DEF h
    <3> QED
      BY <1>1, <1>3, <2>1, Z3 DEF h
  <2> QED
    BY <1>1, <1>2, <1>3, <2>2, Z3
<1> QED
  BY <1>1, <1>3, <1>4

\* Two halves of their ranges make up a time.
LEMMA Whole ==
  ASSUME NEW high \in 0 .. HighRange - 1, NEW low \in 0 .. LowRange - 1
  PROVE  high * LowRange + low \in 0 .. TimeBaseRange - 1
<1>1. /\ LowRange \in Nat /\ LowRange > 0 /\ HighRange \in Nat /\ HighRange > 0
  BY TimeBaseAssumption
<1>2. (high + 1) * LowRange <= HighRange * LowRange
  BY <1>1, Z3
<1> QED
  BY <1>1, <1>2, Z3 DEF TimeBaseRange
\* What get_time_base() returns is a time, and its lower half is right.
LEMMA TimeReadFacts ==
  ASSUME TypeOK
  PROVE  /\ TimeRead \in 0 .. TimeBaseRange - 1
         /\ TimeRead % LowRange = time % LowRange
<1>1. time % LowRange \in 0 .. LowRange - 1 /\ tbu \in 0 .. HighRange - 1
  BY Halves DEF TypeOK
<1>2. TimeRead = LowRange * tbu + (time % LowRange)
  BY <1>1, Ranges, Z3 DEF TimeRead
<1>3. TimeRead \in 0 .. TimeBaseRange - 1
  BY <1>1, Whole DEF TimeRead
<1>4. TimeRead % LowRange = time % LowRange
  <2> DEFINE r == time % LowRange
  <2> HIDE DEF r
  <2>1. r \in 0 .. LowRange - 1 /\ TimeRead = LowRange * tbu + r
        /\ tbu \in Int /\ TimeRead \in Int
    BY <1>1, <1>2, <1>3, Ranges DEF r
  <2>2. TimeRead % LowRange = r
    BY <2>1, Ranges, ModIs
  <2> QED
    BY <2>2 DEF r
<1> QED
  BY <1>3, <1>4

\* A tick changes the lower half as if it counted alone.
LEMMA NextTime ==
  ASSUME NEW t \in 0 .. TimeBaseRange - 1
  PROVE  /\ (t + 1) % TimeBaseRange = IF t + 1 = TimeBaseRange THEN 0 ELSE t + 1
         /\ (t + 1) % TimeBaseRange \in 0 .. TimeBaseRange - 1
         /\ \E j \in Int : (t + 1) % TimeBaseRange = t + 1 + LowRange * j
<1>1. (t + 1) % TimeBaseRange = IF t + 1 = TimeBaseRange THEN 0 ELSE t + 1
  <2> DEFINE x == t + 1
  <2>1. /\ x \in Nat /\ x < 2 * TimeBaseRange /\ x <= TimeBaseRange
        /\ TimeBaseRange \in Nat /\ TimeBaseRange > 0
    BY Ranges
  <2> HIDE DEF x
  <2>2. x % TimeBaseRange = IF x = TimeBaseRange THEN 0 ELSE x
    BY <2>1, ModSmall
  <2> QED
    BY <2>2 DEF x
<1> DEFINE x == (t + 1) % TimeBaseRange
<1>2. t \in Int /\ x \in 0 .. TimeBaseRange - 1
  BY <1>1, Ranges
<1>3. \E j \in Int : x = t + 1 + LowRange * j
  <2> HIDE DEF x
  <2>1. CASE t + 1 = TimeBaseRange
    <3>1. x = 0
      BY <1>1, <2>1 DEF x
    <3>2. 0 = t + 1 + LowRange * (- HighRange)
      BY <2>1, Ranges, Z3 DEF TimeBaseRange
    <3>3. - HighRange \in Int
      BY Ranges
    <3> QED
      BY <3>1, <3>2, <3>3, Zenon
  <2>2. CASE t + 1 # TimeBaseRange
    <3>1. x = t + 1 + LowRange * 0
      BY <1>1, <1>2, <2>2, Ranges DEF x
    <3> QED
      BY <3>1
  <2> QED
    BY <2>1, <2>2
<1> QED
  BY <1>1, <1>2, <1>3

\* A small difference survives the narrowing.
LEMMA NarrowSmall ==
  ASSUME NEW t \in Int, NEW s \in Int, NEW d \in Nat, d < LowRange \div 2,
         (s + d) % LowRange = t % LowRange
  PROVE  Narrow(t - s) = d
<1>1. PICK k \in Int : s + d = t + LowRange * k
  <2> DEFINE a == s + d
  <2>1. a \in Int /\ a % LowRange = t % LowRange
    OBVIOUS
  <2> HIDE DEF a
  <2>2. \E k \in Int : a = t + LowRange * k
    BY <2>1, Ranges, Multiple
  <2> QED
    BY <2>2 DEF a
<1>2. t - s = LowRange * (- k) + d
  BY <1>1, Ranges, Z3
<1>3. (t - s) % LowRange = d
  <2> DEFINE x == t - s
             m == - k
  <2>1. /\ x \in Int /\ m \in Int /\ x = LowRange * m + d
        /\ d \in 0 .. LowRange - 1
    BY <1>2, Ranges
  <2> HIDE DEF x, m
  <2>2. x % LowRange = d
    BY <2>1, Ranges, ModIs
  <2> QED
    BY <2>2 DEF x
<1> QED
  BY <1>3, Ranges DEF Narrow

\* What is left to sleep leaves room for the gaps of a poll.
LEMMA AskedBound ==
  ASSUME TypeOK
  PROVE  /\ Narrow(cycles) \in Int
         /\ Asked \in Nat
         /\ Asked + 2 * MaxGap < LowRange \div 2
         /\ Narrow(cycles) - Offset <= Asked
<1>1. cycles \in Int /\ (cycles = 0 \/ cycles \in Cycles)
  BY TimeBaseAssumption DEF TypeOK
<1>2. cycles % LowRange \in 0 .. LowRange - 1
  BY <1>1, DivMod, Ranges
<1>3. Narrow(cycles) \in Int
  BY <1>2, Ranges DEF Narrow
<1>4. CASE cycles = 0
  <2>1. Narrow(cycles) = 0
    BY <1>4, Ranges, NarrowSmall
  <2> QED
    BY <2>1, Ranges DEF Asked
<1>5. CASE cycles \in Cycles
  <2>1. Narrow(cycles) - Offset + 2 * MaxGap < LowRange \div 2
    BY <1>5, TimeBaseAssumption
  <2> QED
    BY <1>3, <2>1, Ranges DEF Asked
<1> QED
  BY <1>1, <1>4, <1>5

-----------------------------------------------------------------------------
(***************************************************************************)
(* The invariant holds at first, and one lemma per action.                 *)
(***************************************************************************)

LEMMA InitIInv == Init => IInv
  BY Ranges DEF Init, IInv, TypeOK, ReadInv, GapInv, StartInv

\* Most clock cycles that can have passed in a call, which are thus counted.
LEMMA NotSaturated ==
  ASSUME IInv, gap < MaxGap, pc = "poll"
  PROVE  elapsed < MaxElapsed
<1>1. PICK since \in 0 .. elapsed : elapsed <= since + 2 * MaxGap /\ since <= Asked + Reading
  BY DEF IInv, StartInv
<1>2. Reading <= 2 * MaxGap
  BY Ranges DEF IInv, TypeOK, Reading
<1>3. Reading \in Int /\ elapsed \in Int
  BY Ranges DEF IInv, TypeOK, Reading
<1> QED
  BY <1>1, <1>2, <1>3, AskedBound, Ranges DEF IInv

LEMMA TickIInv ==
  ASSUME IInv, Tick
  PROVE  IInv'
<1> USE DEF IInv
<1>1. /\ time' = (time + 1) % TimeBaseRange
      /\ time \in 0 .. TimeBaseRange - 1 /\ time' \in 0 .. TimeBaseRange - 1
      /\ UNCHANGED <<pc, half, tbu, start, cycles>>
      /\ pc # "idle" => gap < MaxGap
  BY NextTime DEF Tick, TypeOK, locals
<1>2. TypeOK'
  BY <1>1, Ranges DEF TypeOK, Tick
<1>3. CASE pc = "idle"
  <2>1. UNCHANGED <<gap, elapsed>>
    BY <1>3 DEF Tick
  <2> QED
    BY <1>1, <1>2, <1>3, <2>1 DEF ReadInv, GapInv, StartInv
<1>4. CASE pc # "idle"
  <2>1. /\ gap < MaxGap /\ gap' = gap + 1 /\ gap \in Nat /\ elapsed \in Nat
        /\ elapsed' = IF elapsed < MaxElapsed THEN elapsed + 1 ELSE elapsed
        /\ elapsed <= MaxElapsed /\ gap <= elapsed
    BY <1>4, Ranges DEF Tick, TypeOK, GapInv
  <2>2. GapInv'
    BY <1>1, <1>4, <2>1, Ranges DEF GapInv
  <2>3. ReadInv'
    <3> SUFFICES ASSUME half = "tbl" PROVE ReadInv'
      BY <1>1 DEF ReadInv
    <3>1. PICK low \in 0 .. LowRange - 1 :
            tbu * LowRange + low + gap \in {time, time + TimeBaseRange}
      BY DEF ReadInv
    <3>2. /\ tbu * LowRange + low \in 0 .. TimeBaseRange - 1
          /\ tbu * LowRange \in Int
      <4>1. tbu \in 0 .. HighRange - 1
        BY DEF TypeOK
      <4>2. tbu * LowRange + low \in 0 .. TimeBaseRange - 1
        BY <4>1, Whole
      <4> QED
        BY <4>1, <4>2, Ranges
    <3>3. time' = IF time + 1 = TimeBaseRange THEN 0 ELSE time + 1
      BY <1>1, NextTime
    <3>4. tbu * LowRange + low + gap + 1 \in {time', time' + TimeBaseRange}
      <4> DEFINE w == tbu * LowRange + low
      <4>1. w \in 0 .. TimeBaseRange - 1 /\ w + gap \in {time, time + TimeBaseRange}
        BY <3>1, <3>2
      <4> HIDE DEF w
      <4>2. w + gap + 1 \in {time', time' + TimeBaseRange}
        BY <1>1, <2>1, <3>3, <4>1, Ranges
      <4> QED
        BY <4>2 DEF w
    <3>5. tbu' * LowRange + low + gap' \in {time', time' + TimeBaseRange}
      BY <1>1, <2>1, <3>2, <3>4
    <3> QED
      BY <3>5 DEF ReadInv
  <2>4. StartInv'
    <3>1. Reading \in Int /\ Reading <= 2 * MaxGap /\ Reading' = Reading + 1
          /\ Asked' = Asked /\ Asked \in Nat
      BY <1>1, <2>1, AskedBound, Ranges DEF Reading, Asked
    <3>2. pc' = "start" => elapsed' <= Reading'
      BY <1>1, <2>1, <3>1, Ranges DEF StartInv
    <3>3. ASSUME pc = "poll"
          PROVE  \E since \in 0 .. elapsed' :
                   /\ (start + since) % LowRange = time' % LowRange
                   /\ elapsed' <= since + 2 * MaxGap
                   /\ since <= Asked + Reading'
      <4>1. PICK since \in 0 .. elapsed : /\ (start + since) % LowRange = time % LowRange
                                          /\ elapsed <= since + 2 * MaxGap
                                          /\ since <= Asked + Reading
        BY <3>3 DEF StartInv
      <4>2. elapsed' = elapsed + 1
        BY <2>1, <3>3, NotSaturated
      <4>3. since + 1 \in 0 .. elapsed' /\ elapsed' <= since + 1 + 2 * MaxGap
            /\ since + 1 <= Asked + Reading'
        BY <2>1, <3>1, <4>1, <4>2, Ranges
      <4>4. start \in Int /\ since \in Int
        BY <4>1, Ranges DEF TypeOK
      <4>5. PICK j \in Int : time' = time + 1 + LowRange * j
        BY <1>1, NextTime
      <4> DEFINE a == start + since
                 t == time'
      <4>6. /\ LowRange \in Nat /\ LowRange > 0 /\ a \in Int /\ time \in Int /\ t \in Int
            /\ a % LowRange = time % LowRange /\ t = time + 1 + LowRange * j
            /\ a + 1 = start + (since + 1)
        BY <1>1, <4>1, <4>4, <4>5, Ranges
      <4> HIDE DEF a, t
      <4>7. (a + 1) % LowRange = t % LowRange
        BY <4>6, CountOn, SMTT(30)
      <4>8. (start + (since + 1)) % LowRange = time' % LowRange
        BY <4>6, <4>7 DEF t
      <4> QED
        BY <4>3, <4>8
    <3> QED
      BY <1>1, <3>1, <3>2, <3>3 DEF StartInv
  <2> QED
    BY <1>2, <2>2, <2>3, <2>4
<1> QED
  BY <1>3, <1>4

LEMMA CallNowIInv ==
  ASSUME IInv, CallNow
  PROVE  IInv'
BY DEF IInv, CallNow, TypeOK, ReadInv, GapInv, StartInv, locals

LEMMA CallSleepIInv ==
  ASSUME IInv, NEW c \in Cycles, CallSleep(c)
  PROVE  IInv'
<1>1. TypeOK' /\ ReadInv' /\ GapInv'
  BY DEF IInv, CallSleep, TypeOK, ReadInv, GapInv
<1>2. elapsed' <= Reading'
  BY Ranges DEF IInv, CallSleep, GapInv, Reading
<1> QED
  BY <1>1, <1>2 DEF IInv, CallSleep, StartInv

LEMMA ReadHighIInv ==
  ASSUME IInv, ReadHigh
  PROVE  IInv'
<1>1. /\ pc # "idle" /\ half = "tbu" /\ half' = "tbl" /\ gap' = 0
      /\ tbu' = time \div LowRange
      /\ UNCHANGED <<time, pc, start, cycles, elapsed>>
  BY DEF ReadHigh
<1>2. time \div LowRange \in 0 .. HighRange - 1 /\ time % LowRange \in 0 .. LowRange - 1
  BY Halves DEF IInv, TypeOK
<1>3. TypeOK'
  BY <1>1, <1>2, Ranges DEF IInv, TypeOK
<1>4. ReadInv'
  <2>1. time = LowRange * tbu' + (time % LowRange)
    BY <1>1, Ranges, DivMod DEF IInv, TypeOK
  <2>2. tbu' * LowRange + (time % LowRange) + gap' = time'
    BY <1>1, <1>2, <2>1, Ranges, Z3
  <2> QED
    BY <1>2, <2>2 DEF ReadInv
<1>5. GapInv'
  BY <1>1 DEF IInv, TypeOK, GapInv
<1>6. StartInv'
  <2>1. Reading' \in Int /\ Reading \in Int /\ Reading <= Reading' /\ Asked' = Asked
        /\ Asked \in Nat
    BY <1>1, AskedBound, Ranges DEF IInv, TypeOK, Reading, Asked
  <2>2. pc' = "start" => elapsed' <= Reading'
    BY <1>1, <2>1 DEF IInv, TypeOK, StartInv
  <2>3. ASSUME pc = "poll"
        PROVE  \E since \in 0 .. elapsed : /\ (start + since) % LowRange = time % LowRange
                                           /\ elapsed <= since + 2 * MaxGap
                                           /\ since <= Asked + Reading'
    <3>1. PICK since \in 0 .. elapsed : /\ (start + since) % LowRange = time % LowRange
                                        /\ elapsed <= since + 2 * MaxGap
                                        /\ since <= Asked + Reading
      BY <2>3 DEF IInv, StartInv
    <3>2. elapsed \in Int /\ since \in Int
      BY <3>1, Ranges DEF IInv, TypeOK
    <3>3. since <= Asked + Reading'
      <4> DEFINE r == Reading
                 r1 == Reading'
                 asked == Asked
      <4>1. /\ r \in Int /\ r1 \in Int /\ asked \in Int /\ r <= r1
            /\ since <= asked + r
        BY <2>1, <3>1
      <4> HIDE DEF r, r1, asked
      <4>2. since <= asked + r1
        BY <3>2, <4>1
      <4> QED
        BY <4>2 DEF r1, asked
    <3> QED
      BY <3>1, <3>3
  <2> QED
    BY <1>1, <2>1, <2>2, <2>3 DEF StartInv
<1> QED
  BY <1>3, <1>4, <1>5, <1>6 DEF IInv

\* now() and sleep_cycles() return.
LEMMA ReturnIInv ==
  ASSUME IInv, TimeBaseRead, Return, UNCHANGED time
  PROVE  IInv'
BY Ranges DEF IInv, TimeBaseRead, Return, TypeOK, ReadInv, GapInv, StartInv

\* Zero is neutral.
LEMMA AddZero == \A x \in Int : x + 0 = x
OBVIOUS

LEMMA ReadStartIInv ==
  ASSUME IInv, ReadStart
  PROVE  IInv'
<1>1. /\ pc = "start" /\ half = "tbl" /\ half' = "tbu" /\ tbu' = 0 /\ gap' = 0
      /\ start' = TimeRead /\ pc' = "poll"
      /\ UNCHANGED <<time, cycles, elapsed>>
  BY DEF ReadStart, TimeBaseRead
<1>2. start' \in 0 .. TimeBaseRange - 1 /\ start' % LowRange = time % LowRange
  BY <1>1, TimeReadFacts DEF IInv
<1>3. TypeOK'
  BY <1>1, <1>2, Ranges DEF IInv, TypeOK
<1>4. ReadInv' /\ GapInv'
  BY <1>1 DEF IInv, TypeOK, ReadInv, GapInv
<1>5. Reading' = 0 /\ Asked' = Asked /\ Asked \in Nat /\ Reading <= 2 * MaxGap /\ Reading \in Int
  BY <1>1, AskedBound, Ranges DEF IInv, TypeOK, Reading, Asked
<1>6. /\ 0 \in 0 .. elapsed' /\ elapsed' <= 0 + 2 * MaxGap
      /\ 0 <= Asked' + Reading'
      /\ (start' + 0) % LowRange = time' % LowRange
  <2>1. start' \in Int
    BY <1>2, Ranges
  <2>2. elapsed \in Nat /\ elapsed <= Reading
    BY <1>1, Ranges DEF IInv, TypeOK, StartInv
  <2>3. start' + 0 = start'
    BY <2>1, AddZero, Zenon
  <2> QED
    BY <1>1, <1>2, <1>5, <2>2, <2>3, Ranges
<1>7. StartInv'
  BY <1>1, <1>6 DEF StartInv
<1> QED
  BY <1>3, <1>4, <1>7 DEF IInv

\* The difference a poll compares is the time that has passed since start was read.
LEMMA PolledDifference ==
  ASSUME IInv, pc = "poll", half = "tbl"
  PROVE  \E since \in 0 .. elapsed : /\ (start + since) % LowRange = time % LowRange
                                     /\ elapsed <= since + 2 * MaxGap
                                     /\ Narrow(TimeRead - start) = since
<1>1. PICK since \in 0 .. elapsed : /\ (start + since) % LowRange = time % LowRange
                                    /\ elapsed <= since + 2 * MaxGap
                                    /\ since <= Asked + Reading
  BY DEF IInv, StartInv
<1>2. Reading \in Int /\ Reading <= 2 * MaxGap
  BY Ranges DEF IInv, TypeOK, Reading
<1>3. since \in Nat /\ since < LowRange \div 2
  BY <1>1, <1>2, AskedBound, Ranges DEF IInv, TypeOK
<1>4. /\ TimeRead \in Int /\ start \in Int
      /\ (start + since) % LowRange = TimeRead % LowRange
  BY <1>1, TimeReadFacts DEF IInv, TypeOK
<1>5. Narrow(TimeRead - start) = since
  BY <1>3, <1>4, NarrowSmall
<1> QED
  BY <1>1, <1>5

LEMMA PollAgainIInv ==
  ASSUME IInv, PollAgain
  PROVE  IInv'
<1>1. /\ pc = "poll" /\ half = "tbl" /\ half' = "tbu" /\ tbu' = 0 /\ gap' = 0
      /\ ~ (Narrow(TimeRead - start) > Narrow(cycles) - Offset)
      /\ UNCHANGED <<time, pc, start, cycles, elapsed>>
  BY DEF PollAgain, TimeBaseRead, Awake
<1>2. TypeOK'
  BY <1>1, Ranges DEF IInv, TypeOK
<1>3. ReadInv' /\ GapInv'
  BY <1>1 DEF IInv, TypeOK, ReadInv, GapInv
<1>4. PICK since \in 0 .. elapsed : /\ (start + since) % LowRange = time % LowRange
                                    /\ elapsed <= since + 2 * MaxGap
                                    /\ Narrow(TimeRead - start) = since
  BY <1>1, PolledDifference
<1>5. Reading' = 0 /\ Asked' = Asked
  BY <1>1 DEF Reading, Asked
<1>6. since <= Asked' + Reading'
  BY <1>1, <1>4, <1>5, AskedBound, Ranges DEF IInv, TypeOK
<1>7. StartInv'
  BY <1>1, <1>4, <1>6 DEF StartInv
<1> QED
  BY <1>2, <1>3, <1>7 DEF IInv

LEMMA NextIInv ==
  ASSUME IInv, [Next]_vars
  PROVE  IInv'
<1>1. CASE Tick
  BY <1>1, TickIInv
<1>2. CASE CallNow
  BY <1>2, CallNowIInv
<1>3. ASSUME NEW c \in Cycles, CallSleep(c) PROVE IInv'
  BY <1>3, CallSleepIInv
<1>4. CASE ReadHigh
  BY <1>4, ReadHighIInv
<1>5. CASE ReturnNow
  BY <1>5, ReturnIInv DEF ReturnNow
<1>6. CASE ReadStart
  BY <1>6, ReadStartIInv
<1>7. CASE PollAgain
  BY <1>7, PollAgainIInv
<1>8. CASE WakeUp
  BY <1>8, ReturnIInv DEF WakeUp
<1>9. CASE UNCHANGED vars
  BY <1>9 DEF vars, locals, IInv, TypeOK, ReadInv, GapInv, StartInv, Reading, Asked
<1> QED
  BY <1>1, <1>2, <1>3, <1>4, <1>5, <1>6, <1>7, <1>8, <1>9 DEF Next, Step

-----------------------------------------------------------------------------
(***************************************************************************)
(* What a call can rely on.                                                *)
(***************************************************************************)

\* sleep_cycles() does not return early.
LEMMA WakeUpLate ==
  ASSUME IInv, WakeUp
  PROVE  elapsed > Narrow(cycles) - Offset
<1>1. pc = "poll" /\ half = "tbl" /\ Narrow(TimeRead - start) > Narrow(cycles) - Offset
  BY DEF WakeUp, TimeBaseRead, Awake
<1>2. PICK since \in 0 .. elapsed : Narrow(TimeRead - start) = since
  BY <1>1, PolledDifference
<1>3. elapsed \in Int /\ Narrow(cycles) - Offset \in Int
  BY AskedBound, Ranges DEF IInv, TypeOK
<1> QED
  BY <1>1, <1>2, <1>3

\* It does not go on polling when it is late.
LEMMA PollNotLate ==
  ASSUME IInv
  PROVE  SleepsNotTooLong
<1> SUFFICES ASSUME pc = "poll" PROVE elapsed <= Asked + 4 * MaxGap
  BY DEF SleepsNotTooLong
<1>1. PICK since \in 0 .. elapsed : elapsed <= since + 2 * MaxGap /\ since <= Asked + Reading
  BY DEF IInv, StartInv
<1>2. /\ Reading \in Int /\ Reading <= 2 * MaxGap
      /\ elapsed \in Int /\ since \in Int
  BY <1>1, Ranges DEF IInv, TypeOK, Reading
<1> QED
  BY <1>1, <1>2, AskedBound, Ranges DEF IInv

\* Time since the call is not past the time base's range, or wraps around.
LEMMA Wrapped ==
  ASSUME NEW e \in Nat
  PROVE  e % TimeBaseRange <= e
<1>1. CASE e < TimeBaseRange
  <2>1. e % TimeBaseRange = e
    BY <1>1, ModSmall, Ranges
  <2> QED
    BY <2>1
<1>2. CASE e >= TimeBaseRange
  <2>1. e % TimeBaseRange \in 0 .. TimeBaseRange - 1
    BY DivMod, Ranges
  <2> QED
    BY <1>2, <2>1, Ranges
<1> QED
  BY <1>1, <1>2, Ranges

\* A read between whose halves the lower one does not carry gives the time of
\* the second half; otherwise it is one count of the upper half behind.
LEMMA Carry ==
  ASSUME IInv, half = "tbl"
  PROVE  \/ TimeRead = time
         \/ elapsed > 0 /\ TimeRead + LowRange \in {time, time + TimeBaseRange}
<1>1. PICK low \in 0 .. LowRange - 1 :
        tbu * LowRange + low + gap \in {time, time + TimeBaseRange}
  BY DEF IInv, ReadInv
<1>2. /\ tbu \in 0 .. HighRange - 1 /\ time \in 0 .. TimeBaseRange - 1
      /\ gap \in Nat /\ gap <= MaxGap /\ elapsed \in Nat /\ gap <= elapsed
  BY Ranges DEF IInv, TypeOK, GapInv
<1> DEFINE high == tbu * LowRange
<1>3. high \in Int /\ high = LowRange * tbu
  BY <1>2, Ranges, Z3
<1>4. high + (LowRange - 1) \in 0 .. TimeBaseRange - 1
  BY <1>2, Whole, Ranges
<1>5. TimeRead = high + (time % LowRange)
  BY DEF TimeRead
<1> DEFINE r == time % LowRange
<1>6. CASE low + gap < LowRange
  <2>1. time = LowRange * tbu + (low + gap)
    <3> HIDE DEF high
    <3> QED
      BY <1>1, <1>2, <1>3, <1>4, <1>6, Ranges DEF high
  <2>2. r = low + gap
    BY <1>2, <1>6, <2>1, ModIs, Ranges
  <2>3. TimeRead = time
    BY <1>2, <1>3, <1>5, <2>1, <2>2
  <2> QED
    BY <2>3
<1>7. CASE low + gap >= LowRange
  <2>1. r = low + gap - LowRange
    <3> DEFINE rest == low + gap - LowRange
    <3>1. rest \in 0 .. LowRange - 1
      BY <1>2, <1>7, Ranges
    <3>2. CASE high + low + gap = time
      <4>1. time = LowRange * (tbu + 1) + rest /\ tbu + 1 \in Int
        BY <1>2, <1>3, <3>2, Ranges, Z3
      <4>2. LowRange \in Nat /\ LowRange > 0 /\ time \in Int
        BY <1>2, Ranges
      <4> HIDE DEF rest
      <4>3. time % LowRange = rest
        BY <3>1, <4>1, <4>2, ModIs, Zenon
      <4> QED
        BY <4>3 DEF rest
    <3>3. CASE high + low + gap = time + TimeBaseRange
      <4>1. /\ time = LowRange * (tbu + 1 - HighRange) + rest
            /\ tbu + 1 - HighRange \in Int
        BY <1>2, <1>3, <3>3, Ranges, Z3 DEF TimeBaseRange
      <4>2. LowRange \in Nat /\ LowRange > 0 /\ time \in Int
        BY <1>2, Ranges
      <4> HIDE DEF rest
      <4>3. time % LowRange = rest
        BY <3>1, <4>1, <4>2, ModIs, Zenon
      <4> QED
        BY <4>3 DEF rest
    <3> QED
      BY <1>1, <3>2, <3>3
  <2>2. TimeRead + LowRange = high + low + gap
    BY <1>2, <1>3, <1>5, <2>1, Ranges
  <2>3. elapsed > 0
    BY <1>2, <1>7, Ranges
  <2> QED
    BY <1>1, <2>2, <2>3
<1> QED
  BY <1>2, <1>6, <1>7, Ranges

\* now() is off by at most one carry.
LEMMA ReturnNowCarry ==
  ASSUME IInv, ReturnNow
  PROVE  \/ Ahead(TimeRead) <= elapsed
         \/ elapsed > 0 /\ Ahead(TimeRead + LowRange) <= elapsed
<1>1. half = "tbl"
  BY DEF ReturnNow, TimeBaseRead
<1>2. time \in Int /\ elapsed \in Nat /\ TimeRead \in Int
  BY TimeReadFacts, Ranges DEF IInv, TypeOK
<1>3. ASSUME NEW t \in {time, time + TimeBaseRange}
      PROVE  Ahead(t) <= elapsed
  <2>1. CASE t = time
    <3>1. t - (time - elapsed) = elapsed
      BY <1>2, <2>1
    <3> QED
      BY <1>2, <3>1, Wrapped DEF Ahead
  <2>2. CASE t = time + TimeBaseRange
    <3> DEFINE a    == t - (time - elapsed)
               once == 1
    <3>1. a = elapsed + TimeBaseRange * once /\ a \in Int /\ once \in Int
          /\ elapsed \in Int /\ TimeBaseRange \in Nat /\ TimeBaseRange > 0
      BY <1>2, <2>2, Ranges
    <3> HIDE DEF a, once
    <3>2. a % TimeBaseRange = elapsed % TimeBaseRange
      BY <3>1, SameMod, Zenon
    <3> QED
      BY <1>2, <3>2, Wrapped DEF Ahead, a
  <2> QED
    BY <2>1, <2>2
<1>4. CASE TimeRead = time
  BY <1>3, <1>4
<1>5. CASE elapsed > 0 /\ TimeRead + LowRange \in {time, time + TimeBaseRange}
  BY <1>3, <1>5
<1> QED
  BY <1>1, <1>4, <1>5, Carry

-----------------------------------------------------------------------------
(***************************************************************************)
(* The theorems.                                                           *)
(***************************************************************************)

\* What start, the upper half that was read, and the elapsed time tell of each
\* other at every point of now() and sleep_cycles().
THEOREM InductiveInvariant == Spec => []IInv
<1>1. Init => IInv
  BY InitIInv
<1>2. IInv /\ [Next]_vars => IInv'
  BY NextIInv
<1> QED
  BY <1>1, <1>2, PTL DEF Spec

\* Halves, times and counts stay in their ranges.
THEOREM TypeCorrect == Spec => []TypeOK
<1>1. IInv => TypeOK
  BY DEF IInv
<1> QED
  BY <1>1, InductiveInvariant, PTL

\* now() is right, or behind by exactly one count of the upper half
\* (get_time_base() in spr.h).
THEOREM CarryBounded == Spec => OffByOneCarry
<1>1. IInv /\ [Next]_vars =>
        [ReturnNow => \/ Ahead(TimeRead) <= elapsed
                      \/ elapsed > 0 /\ Ahead(TimeRead + LowRange) <= elapsed]_vars
  BY ReturnNowCarry
<1> QED
  BY <1>1, InductiveInvariant, PTL DEF Spec, OffByOneCarry

\* sleep_cycles() sleeps as long as asked, less its offset, carry or not.
THEOREM SleepLongEnough == Spec => SleepsLongEnough
<1>1. IInv /\ [Next]_vars => [WakeUp => elapsed > Narrow(cycles) - Offset]_vars
  BY WakeUpLate
<1> QED
  BY <1>1, InductiveInvariant, PTL DEF Spec, SleepsLongEnough

\* sleep_cycles() is awake after four gaps more than asked, carry or not.
THEOREM SleepNotTooLong == Spec => []SleepsNotTooLong
<1>1. IInv => SleepsNotTooLong
  BY PollNotLate
<1> QED
  BY <1>1, InductiveInvariant, PTL
\* sleep_cycles() sleeps as long as it was asked to, and no longer.
THEOREM SleepOnTime == Spec => SleepsOnTime
<1> QED
  BY SleepLongEnough, SleepNotTooLong DEF SleepsOnTime
===============================================================================

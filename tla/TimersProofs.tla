----------------------------- MODULE TimersProofs -----------------------------
(***************************************************************************)
(* Proofs about the periodic timer: for words of any size, any settings.   *)
(***************************************************************************)
EXTENDS Timers, NumberLemmas

\* The settings are words.
LEMMA Settings ==
  /\ TimeRange \in Nat /\ TimeRange > 0 /\ MaxClock \in Nat /\ MaxRuns \in Nat
  /\ \A x \in Firsts \cup Periods \cup Nums : x \in Times
  BY TimeRangeAssumption, ArgumentsAreWords

\* Remainders are words.
LEMMA Words == \A x \in Int : x % TimeRange \in Times
  BY Settings, DivMod DEF Times

\* A remainder is some turns of the word less.
LEMMA Turned ==
  ASSUME NEW x \in Int
  PROVE  /\ x % TimeRange \in Int
         /\ \E k \in Int : x = (x % TimeRange) + TimeRange * k
         /\ x \in Nat => x % TimeRange <= x
<1> DEFINE k == x \div TimeRange
           r == x % TimeRange
<1>1. TimeRange \in Nat /\ TimeRange > 0
  BY Settings
<1>2. k \in Int /\ r \in 0 .. TimeRange - 1 /\ x = TimeRange * k + r
  BY <1>1, DivMod
<1> HIDE DEF k, r
<1>3. TimeRange * k \in Int
  BY <1>1, <1>2
<1>4. r \in Int /\ x = r + TimeRange * k
  BY <1>1, <1>2, <1>3
<1>5. ASSUME x \in Nat PROVE r <= x
  <2>1. CASE k >= 0
    <3>1. TimeRange * k >= TimeRange * 0
      BY <1>1, <1>2, <2>1, Z3
    <3> QED
      BY <1>1, <1>3, <1>4, <3>1
  <2>2. CASE k < 0
    <3>1. TimeRange * k <= TimeRange * (-1)
      BY <1>1, <1>2, <2>2, Z3
    <3>2. TimeRange * k + r < 0
      BY <1>1, <1>2, <1>3, <3>1
    <3> QED
      BY <1>2, <1>5, <3>2
  <2> QED
    BY <1>2, <2>1, <2>2
<1> QED
  BY <1>2, <1>4, <1>5 DEF r

-----------------------------------------------------------------------------
(* The loop of Timer::next_event() *)

\* The loop ends with the first period that is not in the past.
LEMMA LoopTurns ==
  ASSUME NEW T \in Timers, NEW t \in Times, LoopEnds(T, t) # {}
  PROVE  /\ Turns(T, t) \in Times
         /\ RunAfter(T, Turns(T, t)) >= t
         /\ \A n \in Times : n < Turns(T, t) => RunAfter(T, n) < t
<1> DEFINE n == Turns(T, t)
<1>1. LoopEnds(T, t) \subseteq Nat
  BY Settings DEF LoopEnds, Times
<1>2. n \in LoopEnds(T, t) /\ \A m \in LoopEnds(T, t) : n <= m
  BY <1>1, Smallest DEF Turns
<1> HIDE DEF n
<1>3. n \in Times /\ RunAfter(T, n) >= t
  BY <1>2 DEF LoopEnds
<1>4. ASSUME NEW m \in Times, m < n PROVE RunAfter(T, m) < t
  <2>1. m \notin LoopEnds(T, t)
    BY <1>2, <1>3, <1>4, Settings DEF Times
  <2>2. ~ RunAfter(T, m) >= t
    BY <2>1 DEF LoopEnds
  <2>3. RunAfter(T, m) \in Times
    <3>1. T.lastRun + (m + 1) * T.period \in Int
      BY Settings DEF Timers, Times
    <3> QED
      BY <3>1, Words DEF RunAfter
  <2> QED
    BY <2>2, <2>3, Settings DEF Times
<1> QED
  BY <1>3, <1>4 DEF n

\* What next_event() leaves of the timer when it returns true.
LEMMA Fired ==
  ASSUME NEW T \in Timers, NEW t \in Times, LoopEnds(T, t) # {}
  PROVE  LET n == Turns(T, t)
         IN  /\ TimerFired(T, t) \in Timers
             /\ TimerFired(T, t).lastRun = RunAfter(T, n)
             /\ TimerFired(T, t).missed = (T.missed + n) % TimeRange
             /\ TimerFired(T, t).period = T.period
             /\ TimerFired(T, t).start = T.start
             /\ TimerFired(T, t).endRun = T.endRun
             /\ TimerFired(T, t).numPeriods = T.numPeriods
<1> DEFINE n == Turns(T, t)
<1>1. n \in Times
  BY LoopTurns
<1> HIDE DEF n
<1>2. T.lastRun + (n + 1) * T.period \in Int /\ T.missed + n \in Int
  BY <1>1, Settings DEF Timers, Times
<1>3. RunAfter(T, n) \in Times /\ (T.missed + n) % TimeRange \in Times
  BY <1>2, Words DEF RunAfter
<1>4. TimerFired(T, t) = [T EXCEPT !.lastRun = RunAfter(T, n),
                                   !.missed = (@ + n) % TimeRange]
  BY DEF TimerFired, n
<1> QED
  BY <1>3, <1>4 DEF Timers, n

-----------------------------------------------------------------------------
(* Types *)

\* What a setter leaves of the timer before the end is computed
LEMMA EndIsWord == ASSUME NEW T \in Timers PROVE WithEnd(T) \in Timers
<1>1. T.start + T.period * T.numPeriods \in Int
  BY Settings DEF Timers, Times
<1>2. (T.start + T.period * T.numPeriods) % TimeRange \in Times
  BY <1>1, Words
<1> QED
  BY <1>2 DEF WithEnd, Timers

LEMMA SettersAreTyped ==
  ASSUME NEW T \in Timers, NEW x \in Times
  PROVE  /\ SetFirstDeadline(T, x) \in Timers
         /\ SetPeriod(T, x) \in Timers
         /\ SetNumPeriods(T, x) \in Timers
<1>1. /\ [T EXCEPT !.start = x, !.lastRun = x] \in Timers
      /\ [T EXCEPT !.period = x] \in Timers
      /\ [T EXCEPT !.numPeriods = x] \in Timers
  BY DEF Timers
<1> QED
  BY <1>1, EndIsWord DEF SetFirstDeadline, SetPeriod, SetNumPeriods

\* The word the program reads
LEMMA NowIsWord == ASSUME clock \in 0 .. MaxClock PROVE now \in Times
  BY Settings, Words DEF now

-----------------------------------------------------------------------------
(* The periods *)

\* lastRun is as many periods away from where it was as were emitted or counted, but
\* for some turns of the word.
Accounted ==
  \E k \in Int : timer.lastRun - origin.lastRun =
                   timer.period * (runs + timer.missed - origin.missed) + TimeRange * k

\* A schedule that fits, and that nobody has changed since it began: lastRun has moved
\* over k of the periods.
Scheduled ==
  steady /\ Fits =>
    /\ ~ hung
    /\ timer.endRun = timer.start + timer.period * timer.numPeriods
    /\ \E k \in 0 .. timer.numPeriods : /\ timer.lastRun = timer.start + timer.period * k
                                        /\ runs + timer.missed - origin.missed <= k

IInv == TypeOK /\ Accounted /\ Scheduled

\* The numbers of the timer
LEMMA Numbers ==
  ASSUME TypeOK
  PROVE  /\ timer.numPeriods \in Nat /\ timer.period \in Nat /\ timer.start \in Nat
         /\ timer.missed \in Nat /\ timer.lastRun \in Nat /\ timer.endRun \in Nat
         /\ origin.lastRun \in Nat /\ origin.missed \in Nat /\ runs \in Nat
         /\ timer.missed < TimeRange /\ timer.lastRun < TimeRange
         /\ timer.start < TimeRange /\ timer.endRun < TimeRange
         /\ now \in Times /\ TimeRange \in Nat
  BY Settings, NowIsWord DEF TypeOK, Timers, Times

\* When a timer on its schedule is due, the loop ends at the latest with the end of the
\* schedule, and no sum wraps around on the way: the event is fresh.
LEMMA OnTime ==
  ASSUME IInv, steady, Fits, TimerDue(timer, now)
  PROVE  LET n == Turns(timer, now)
         IN  /\ LoopEnds(timer, now) # {}
             /\ RunAfter(timer, n) = timer.lastRun + (n + 1) * timer.period
             /\ RunAfter(timer, n) >= now
             /\ RunAfter(timer, n) - timer.period <= now
             /\ \E k \in 0 .. timer.numPeriods :
                  /\ timer.lastRun = timer.start + timer.period * k
                  /\ runs + timer.missed - origin.missed <= k
                  /\ k + n + 1 <= timer.numPeriods
<1> DEFINE T == timer
           p == T.period
           N == T.numPeriods
           n == Turns(timer, now)
<1>1. TypeOK /\ timer \in Timers
  BY DEF IInv, TypeOK
<1>2. /\ p \in Nat /\ N \in Nat /\ T.start \in Nat /\ T.lastRun \in Nat /\ now \in Times
      /\ T.missed \in Nat /\ runs \in Nat /\ origin.missed \in Nat /\ TimeRange \in Nat
      /\ now \in Nat /\ now < TimeRange /\ N < TimeRange
  BY <1>1, Numbers, Settings DEF Timers, Times
<1>3. /\ T.endRun = T.start + p * N /\ T.start + p * N < TimeRange
      /\ now >= T.lastRun /\ now < T.endRun
  BY DEF IInv, Scheduled, Fits, TimerDue
<1>4. PICK k \in 0 .. N : /\ T.lastRun = T.start + p * k
                          /\ runs + T.missed - origin.missed <= k
  BY DEF IInv, Scheduled
<1> HIDE DEF p, N
<1> DEFINE ends == LoopEnds(timer, now)
<1>5. ends = {m \in 0 .. TimeRange - 1 : (T.lastRun + (m + 1) * p) % TimeRange >= now}
  BY DEF LoopEnds, RunAfter, Times, p
<1> HIDE DEF ends
<1>6. /\ ends # {}
      /\ \A m \in ends : (\A j \in ends : m <= j) =>
           /\ k + m + 1 <= N
           /\ (T.lastRun + (m + 1) * p) % TimeRange = T.lastRun + (m + 1) * p
           /\ ((T.lastRun + (m + 1) * p) % TimeRange) - p <= now
  <2>1. OnSchedule(TimeRange, T.start, p, N, k, T.lastRun, now, ends)
    BY <1>2, <1>3, <1>4, <1>5, Settings DEF OnSchedule
  <2> QED
    BY <2>1, NextPeriod
<1>7. n \in ends /\ \A j \in ends : n <= j
  <2>1. ends \subseteq Nat
    BY <1>2, <1>5
  <2> QED
    BY <1>6, <2>1, Smallest DEF Turns, ends
<1>8. RunAfter(timer, n) >= now
  BY <1>7 DEF ends, LoopEnds
<1>9. RunAfter(timer, n) = (T.lastRun + (n + 1) * p) % TimeRange
  BY DEF RunAfter, p
<1> QED
  BY <1>4, <1>6, <1>7, <1>8, <1>9 DEF p, N, ends

-----------------------------------------------------------------------------
(* The steps *)

\* What the setters leave in the timer
LEMMA Set ==
  ASSUME NEW T \in Timers, NEW x \in Times
  PROVE  LET first  == SetFirstDeadline(T, x)
             period == SetPeriod(T, x)
             num    == SetNumPeriods(T, x)
         IN  /\ first.start = x /\ first.lastRun = x
             /\ first.period = T.period /\ first.numPeriods = T.numPeriods
             /\ first.missed = T.missed
             /\ first.endRun = (x + T.period * T.numPeriods) % TimeRange
             /\ num.period = T.period /\ num.lastRun = T.lastRun /\ num.missed = T.missed
  BY DEF Timers, SetFirstDeadline, SetPeriod, SetNumPeriods, WithEnd

\* The counts begin anew.
LEMMA Counted == ASSUME TypeOK, timer' \in Timers, Count
                 PROVE  /\ origin' \in [lastRun : Times, missed : Times]
                        /\ runs' = 0 /\ Accounted'
<1>1. /\ timer'.lastRun \in Times /\ timer'.missed \in Times /\ timer'.period \in Times
      /\ origin' = [lastRun |-> timer'.lastRun, missed |-> timer'.missed] /\ runs' = 0
  BY DEF Timers, Count
<1>2. timer'.lastRun - origin'.lastRun =
        timer'.period * (runs' + timer'.missed - origin'.missed) + TimeRange * 0
  <2>1. timer'.lastRun - origin'.lastRun = 0 /\ runs' + timer'.missed - origin'.missed = 0
    BY <1>1, Settings DEF Times
  <2> QED
    BY <1>1, <2>1, Settings DEF Times
<1> QED
  BY <1>1, <1>2 DEF Accounted

\* A schedule that has just begun
LEMMA Begun ==
  ASSUME NEW T \in Timers, T.lastRun = T.start,
         T.endRun = (T.start + T.period * T.numPeriods) % TimeRange,
         T.start + T.period * T.numPeriods < TimeRange
  PROVE  /\ T.endRun = T.start + T.period * T.numPeriods
         /\ 0 \in 0 .. T.numPeriods
         /\ T.lastRun = T.start + T.period * 0
         /\ 0 + T.missed - T.missed <= 0
<1>1. T.start \in Nat /\ T.period \in Nat /\ T.numPeriods \in Nat /\ T.missed \in Nat
  BY Settings DEF Timers, Times
<1>2. T.start + T.period * T.numPeriods \in 0 .. TimeRange - 1
  BY <1>1, Settings
<1>3. T.endRun = T.start + T.period * T.numPeriods
  BY <1>2, Settings
<1> QED
  BY <1>1, <1>3

LEMMA InitInv == Init => IInv
<1> SUFFICES ASSUME Init PROVE IInv
  OBVIOUS
<1>1. PICK first \in Firsts, period \in Periods, num \in Nums :
        timer = SetFirstDeadline(SetNumPeriods(SetPeriod(NewTimer, period), num), first)
  BY DEF Init
<1> DEFINE set == SetNumPeriods(SetPeriod(NewTimer, period), num)
<1>2. first \in Times /\ period \in Times /\ num \in Times /\ 0 \in Times
  BY Settings DEF Times
<1>3. NewTimer \in Timers
  BY <1>2 DEF NewTimer, Timers
<1>4. set \in Timers /\ set.missed = 0
  <2>1. SetPeriod(NewTimer, period) \in Timers
    BY <1>2, <1>3, SettersAreTyped
  <2>2. SetPeriod(NewTimer, period).missed = 0
    BY <1>3 DEF NewTimer, SetPeriod, WithEnd, Timers
  <2> QED
    BY <1>2, <2>1, <2>2, SettersAreTyped, Set
<1> HIDE DEF set
<1>5. timer = SetFirstDeadline(set, first)
  BY <1>1 DEF set
<1>6. timer \in Timers /\ timer.missed = 0
  BY <1>2, <1>4, <1>5, SettersAreTyped, Set
<1>7. /\ timer.lastRun = timer.start
      /\ timer.endRun = (timer.start + timer.period * timer.numPeriods) % TimeRange
  BY <1>2, <1>4, <1>5, Set
<1>9. /\ clock = 0 /\ hung = FALSE /\ runs = 0 /\ steady = TRUE
      /\ origin = [lastRun |-> timer.lastRun, missed |-> timer.missed]
  BY <1>6 DEF Init
<1>10. TypeOK
  <2>1. clock \in 0 .. MaxClock /\ runs \in 0 .. MaxRuns
    BY <1>9, Settings
  <2>2. origin \in [lastRun : Times, missed : Times]
    BY <1>6, <1>9 DEF Timers
  <2> QED
    BY <1>6, <1>9, <2>1, <2>2 DEF TypeOK
<1>11. Accounted
  <2>1. timer.lastRun - origin.lastRun =
          timer.period * (runs + timer.missed - origin.missed) + TimeRange * 0
    BY <1>6, <1>9, Settings DEF Timers, Times
  <2> QED
    BY <2>1 DEF Accounted
<1>12. Scheduled
  <2> SUFFICES ASSUME steady, Fits PROVE Scheduled
    BY DEF Scheduled
  <2>1. timer.start + timer.period * timer.numPeriods < TimeRange
    BY DEF Fits
  <2> QED
    BY <1>6, <1>7, <1>9, <2>1, Begun DEF Scheduled
<1> QED
  BY <1>10, <1>11, <1>12 DEF IInv

\* Steps that leave the periodic timer alone
LEMMA TimerKept ==
  ASSUME IInv, UNCHANGED timerVars, clock' \in 0 .. MaxClock
  PROVE  IInv'
  BY DEF IInv, timerVars, TypeOK, Accounted, Scheduled, Fits

LEMMA FirstDeadlineInv ==
  ASSUME IInv, NEW first \in Firsts, ChangeFirstDeadline(first) PROVE IInv'
<1>1. /\ timer' = SetFirstDeadline(timer, first) /\ Count /\ steady' = TRUE /\ ~ hung
      /\ UNCHANGED <<clock, hung>> /\ first \in Times
  BY Settings DEF ChangeFirstDeadline
<1>2. TypeOK /\ timer \in Timers
  BY DEF IInv, TypeOK
<1>3. timer' \in Timers
  BY <1>1, <1>2, SettersAreTyped
<1>4. origin' \in [lastRun : Times, missed : Times] /\ runs' = 0 /\ Accounted'
  BY <1>1, <1>2, <1>3, Counted
<1>5. TypeOK'
  BY <1>1, <1>2, <1>3, <1>4, Settings DEF TypeOK
<1>6. /\ timer'.lastRun = timer'.start
      /\ timer'.endRun = (timer'.start + timer'.period * timer'.numPeriods) % TimeRange
  BY <1>1, <1>2, Set
<1>7. ~ hung' /\ origin' = [lastRun |-> timer'.lastRun, missed |-> timer'.missed]
  BY <1>1 DEF Count
<1>8. Scheduled'
  <2> SUFFICES ASSUME Fits' PROVE Scheduled'
    BY DEF Scheduled
  <2>1. timer'.start + timer'.period * timer'.numPeriods < TimeRange
    BY DEF Fits
  <2>2. runs' = 0 /\ origin'.missed = timer'.missed
    BY <1>4, <1>7
  <2> QED
    BY <1>3, <1>6, <1>7, <2>1, <2>2, Begun DEF Scheduled
<1> QED
  BY <1>4, <1>5, <1>8 DEF IInv

LEMMA PeriodInv == ASSUME IInv, NEW period \in Periods, ChangePeriod(period) PROVE IInv'
<1>1. /\ timer' = SetPeriod(timer, period) /\ Count /\ steady' = FALSE
      /\ UNCHANGED <<clock, hung>> /\ period \in Times
  BY Settings DEF ChangePeriod
<1>2. TypeOK /\ timer' \in Timers
  BY <1>1, SettersAreTyped DEF IInv, TypeOK
<1>3. origin' \in [lastRun : Times, missed : Times] /\ runs' = 0 /\ Accounted'
  BY <1>1, <1>2, Counted
<1>4. runs' \in 0 .. MaxRuns
  BY <1>3, Settings
<1>5. TypeOK'
  BY <1>1, <1>2, <1>3, <1>4 DEF TypeOK
<1> QED
  BY <1>1, <1>3, <1>5 DEF IInv, Scheduled

LEMMA NumPeriodsInv == ASSUME IInv, NEW num \in Nums, ChangeNumPeriods(num) PROVE IInv'
<1>1. /\ timer' = SetNumPeriods(timer, num) /\ steady' = FALSE
      /\ UNCHANGED <<clock, hung, origin, runs>> /\ num \in Times
  BY Settings DEF ChangeNumPeriods
<1>2. timer \in Timers /\ timer' \in Timers
  BY <1>1, SettersAreTyped DEF IInv, TypeOK
<1>3. TypeOK'
  BY <1>1, <1>2 DEF IInv, TypeOK
<1>4. timer'.period = timer.period /\ timer'.lastRun = timer.lastRun
      /\ timer'.missed = timer.missed
  BY <1>1, <1>2, Set
<1>5. Accounted'
  BY <1>1, <1>4 DEF IInv, Accounted
<1> QED
  BY <1>1, <1>3, <1>5 DEF IInv, Scheduled

\* The arithmetic of an event: a, b and c are turns of the word.
LEMMA Products ==
  ASSUME NEW T \in Int, NEW p \in Int, NEW d \in Int, NEW e \in Int,
         NEW a \in Int, NEW b \in Int, NEW c \in Int
  PROVE  /\ p * (d + e - T * c) = p * d + e * p - T * (p * c)
         /\ T * (a - b + p * c) = T * a - T * b + T * (p * c)
<1>1. p * (d + e - T * c) = p * d + e * p - T * (p * c)
  BY Z3
<1>2. T * (a - b + p * c) = T * a - T * b + T * (p * c)
  BY Z3
<1> QED
  BY <1>1, <1>2

LEMMA FireInv == ASSUME IInv, Fire PROVE IInv'
<1> DEFINE n == Turns(timer, now)
<1>1. /\ timer' = TimerFired(timer, now) /\ runs' = runs + 1 /\ runs < MaxRuns
      /\ UNCHANGED <<clock, hung, origin, steady>>
      /\ TimerDue(timer, now) /\ LoopEnds(timer, now) # {} /\ ~ hung
  BY DEF Fire, TimerHangs
<1>2. TypeOK /\ timer \in Timers
  BY DEF IInv, TypeOK
<1>3. /\ timer.numPeriods \in Nat /\ timer.period \in Nat /\ timer.start \in Nat
      /\ timer.missed \in Nat /\ timer.lastRun \in Nat /\ timer.endRun \in Nat
      /\ origin.lastRun \in Nat /\ origin.missed \in Nat /\ runs \in Nat
      /\ now \in Times /\ TimeRange \in Nat /\ TimeRange > 0
  BY <1>2, Numbers, Settings
<1>4. n \in Nat
  BY <1>1, <1>2, <1>3, LoopTurns DEF Times
<1>5. /\ timer' \in Timers
      /\ timer'.lastRun = RunAfter(timer, n)
      /\ timer'.missed = (timer.missed + n) % TimeRange
      /\ timer'.period = timer.period
      /\ timer'.start = timer.start
      /\ timer'.endRun = timer.endRun
      /\ timer'.numPeriods = timer.numPeriods
  BY <1>1, <1>2, <1>3, Fired
<1>6. TypeOK'
  BY <1>1, <1>3, <1>5, Settings DEF IInv, TypeOK
<1>7. Accounted'
  <2>1. PICK a \in Int : timer.lastRun - origin.lastRun =
                           timer.period * (runs + timer.missed - origin.missed) + TimeRange * a
    BY DEF IInv, Accounted
  <2>2. timer.lastRun + (n + 1) * timer.period \in Int /\ timer.missed + n \in Int
    BY <1>3, <1>4
  <2>3. PICK b \in Int : timer.lastRun + (n + 1) * timer.period =
                           timer'.lastRun + TimeRange * b
    BY <1>5, <2>2, Turned DEF RunAfter
  <2>4. PICK c \in Int : timer.missed + n = timer'.missed + TimeRange * c
    BY <1>5, <2>2, Turned
  <2>6. timer'.lastRun \in Int /\ timer'.missed \in Int
    BY <1>5, <2>2, Turned DEF RunAfter
  <2>7. timer'.lastRun - origin.lastRun =
          timer.period * (runs + 1 + timer'.missed - origin.missed)
            + TimeRange * (a - b + timer.period * c)
    <3> DEFINE p == timer.period
               d == runs + timer.missed - origin.missed
    <3>1. /\ TimeRange \in Int /\ p \in Int /\ d \in Int /\ n + 1 \in Int
          /\ timer.lastRun \in Int /\ origin.lastRun \in Int
      BY <1>3, <1>4
    <3>2. /\ p * d \in Int /\ (n + 1) * p \in Int /\ TimeRange * (p * c) \in Int
          /\ TimeRange * a \in Int /\ TimeRange * b \in Int /\ TimeRange * c \in Int
      BY <3>1
    <3>3. runs + 1 + timer'.missed - origin.missed = d + (n + 1) - TimeRange * c
      <4>1. PICK turns \in Int : turns = TimeRange * c
        BY <3>2
      <4>2. timer.missed \in Int /\ runs \in Int /\ origin.missed \in Int
        BY <1>3
      <4>3. timer.missed + n = timer'.missed + turns
        BY <2>4, <4>1
      <4> HIDE DEF n, p
      <4>4. n \in Int
        BY <1>4
      <4>5. runs + 1 + timer'.missed - origin.missed = d + (n + 1) - turns
        BY <2>6, <4>1, <4>2, <4>3, <4>4
      <4> QED
        BY <4>1, <4>5
    <3>4. timer.lastRun - origin.lastRun = p * d + TimeRange * a
      BY <2>1
    <3>5. timer.lastRun + (n + 1) * p = timer'.lastRun + TimeRange * b
      BY <2>3
    <3> HIDE DEF n, p, d
    <3>6. /\ p * (d + (n + 1) - TimeRange * c) = p * d + (n + 1) * p - TimeRange * (p * c)
          /\ TimeRange * (a - b + p * c) = TimeRange * a - TimeRange * b + TimeRange * (p * c)
      BY <3>1, Products
    <3>7. timer'.lastRun - origin.lastRun =
            (p * d + (n + 1) * p - TimeRange * (p * c))
              + (TimeRange * a - TimeRange * b + TimeRange * (p * c))
      BY <2>6, <3>1, <3>2, <3>4, <3>5
    <3> QED
      BY <3>3, <3>6, <3>7 DEF p
  <2>8. a - b + timer.period * c \in Int
    BY <1>3, <2>1, <2>3, <2>4
  <2> QED
    BY <1>1, <1>5, <2>7, <2>8 DEF Accounted
<1>8. Scheduled'
  <2> SUFFICES ASSUME steady, Fits PROVE Scheduled'
    BY <1>1, <1>5 DEF Scheduled, Fits
  <2>1. PICK k \in 0 .. timer.numPeriods :
               /\ timer.lastRun = timer.start + timer.period * k
               /\ runs + timer.missed - origin.missed <= k
               /\ k + n + 1 <= timer.numPeriods
    BY <1>1, OnTime
  <2>2. RunAfter(timer, n) = timer.lastRun + (n + 1) * timer.period
    BY <1>1, OnTime
  <2>3. timer'.lastRun = timer'.start + timer'.period * (k + n + 1)
    <3>1. timer.period * (k + n + 1) = timer.period * k + (n + 1) * timer.period
      BY <1>3, <1>4, <2>1, Z3
    <3>2. timer.period * k \in Int /\ (n + 1) * timer.period \in Int
      BY <1>3, <1>4, <2>1
    <3> QED
      BY <1>3, <1>5, <2>1, <2>2, <3>1, <3>2
  <2>4. timer'.missed <= timer.missed + n
    <3>1. timer.missed + n \in Nat
      BY <1>3, <1>4
    <3> QED
      BY <1>5, <3>1, Turned
  <2>5. runs' + timer'.missed - origin'.missed <= k + n + 1
    <3>1. timer'.missed \in Nat
      BY <1>3, <1>5 DEF Timers, Times
    <3> QED
      BY <1>1, <1>3, <1>4, <2>1, <2>4, <3>1
  <2>6. k + n + 1 \in 0 .. timer'.numPeriods
    BY <1>3, <1>4, <1>5, <2>1
  <2>7. timer'.endRun = timer'.start + timer'.period * timer'.numPeriods
    BY <1>5 DEF IInv, Scheduled
  <2> QED
    BY <1>1, <2>3, <2>5, <2>6, <2>7 DEF Scheduled
<1> QED
  BY <1>6, <1>7, <1>8 DEF IInv

LEMMA StepInv == IInv /\ [Next]_vars => IInv'
<1> SUFFICES ASSUME IInv, [Next]_vars PROVE IInv'
  OBVIOUS
<1> USE DEF IInv
<1>1. CASE UNCHANGED vars
  BY <1>1, TimerKept DEF vars, TypeOK
<1>2. CASE Tick
  BY <1>2, TimerKept, Settings DEF Tick, TypeOK
<1>3. ASSUME NEW first \in Firsts, ChangeFirstDeadline(first) PROVE IInv'
  BY <1>3, FirstDeadlineInv
<1>4. ASSUME NEW period \in Periods, ChangePeriod(period) PROVE IInv'
  BY <1>4, PeriodInv
<1>5. ASSUME NEW num \in Nums, ChangeNumPeriods(num) PROVE IInv'
  BY <1>5, NumPeriodsInv
<1>6. CASE Fire
  BY <1>6, FireInv
<1>7. CASE Hang
  <2>1. ~ (steady /\ Fits)
    BY <1>7, OnTime DEF Hang, TimerHangs
  <2> QED
    BY <1>7, <2>1 DEF Hang, TypeOK, Accounted, Scheduled, Fits
<1>11. CASE PollInVain
  BY <1>11, TimerKept DEF PollInVain, vars, TypeOK
<1> QED
  BY <1>1, <1>2, <1>3, <1>4, <1>5, <1>6, <1>7, <1>11 DEF Next

-----------------------------------------------------------------------------

\* The inductive invariant of the periodic timer, for words of any size.
THEOREM InductiveInvariant == Spec => []IInv
<1> QED
  BY InitInv, StepInv, PTL DEF Spec

\* The members of the timers are words.
THEOREM TypeCorrect == Spec => []TypeOK
<1>1. IInv => TypeOK
  BY DEF IInv
<1> QED
  BY <1>1, InductiveInvariant, PTL

\* Every period that lastRun has moved over was emitted or counted as missed, up to
\* turns of the word.
THEOREM NoPeriodLost == Spec => []PeriodsAccounted
<1>1. ASSUME IInv PROVE PeriodsAccounted
  <2>1. PICK k \in Int : timer.lastRun - origin.lastRun =
                           timer.period * (runs + timer.missed - origin.missed) + TimeRange * k
    BY <1>1 DEF IInv, Accounted
  <2>2. /\ timer.lastRun - origin.lastRun \in Int
        /\ timer.period * (runs + timer.missed - origin.missed) \in Int
        /\ TimeRange \in Nat /\ TimeRange > 0
    BY <1>1, Numbers, Settings DEF IInv
  <2> DEFINE far   == timer.lastRun - origin.lastRun
             moved == timer.period * (runs + timer.missed - origin.missed)
  <2>3. far % TimeRange = moved % TimeRange
    <3> HIDE DEF far, moved
    <3>1. far \in Int /\ moved \in Int /\ far = moved + TimeRange * k
      BY <2>1, <2>2 DEF far, moved
    <3> QED
      BY <2>2, <3>1, SameMod
  <2> QED
    BY <2>3 DEF PeriodsAccounted
<1> QED
  BY <1>1, InductiveInvariant, PTL

\* A timer on a schedule that fits the word never hangs, does not emit more events than
\* there are periods and never passes its end.
THEOREM Steady == Spec => []SteadyTimer
<1>1. ASSUME IInv, steady, Fits
      PROVE  /\ ~ hung
             /\ runs + timer.missed - origin.missed <= timer.numPeriods
             /\ timer.lastRun \in timer.start .. timer.endRun
  <2>1. PICK k \in 0 .. timer.numPeriods :
               /\ timer.lastRun = timer.start + timer.period * k
               /\ runs + timer.missed - origin.missed <= k
    BY <1>1 DEF IInv, Scheduled
  <2>2. /\ timer.endRun = timer.start + timer.period * timer.numPeriods /\ ~ hung
        /\ timer.period \in Nat /\ timer.numPeriods \in Nat /\ timer.start \in Nat
        /\ runs + timer.missed - origin.missed \in Int
    BY <1>1, Numbers DEF IInv, Scheduled
  <2>3. timer.period * 0 <= timer.period * k
        /\ timer.period * k <= timer.period * timer.numPeriods
    BY <2>1, <2>2, Grows
  <2>4. timer.period * k \in Nat /\ timer.period * timer.numPeriods \in Nat
    BY <2>1, <2>2
  <2>5. timer.lastRun \in timer.start .. timer.endRun
    BY <2>1, <2>2, <2>3, <2>4
  <2> QED
    BY <2>1, <2>2, <2>5
<1>2. IInv => SteadyTimer
  BY <1>1 DEF SteadyTimer
<1> QED
  BY <1>2, InductiveInvariant, PTL

\* An event of a timer on such a schedule is not past its deadline, and not more than
\* one period ahead of it.
THEOREM EventsAreFresh == Spec => FreshDeadline
<1>1. ASSUME IInv, Fire, steady, Fits
      PROVE  timer'.lastRun >= now /\ timer'.lastRun - timer.period <= now
  <2>1. /\ timer' = TimerFired(timer, now) /\ TimerDue(timer, now)
        /\ timer \in Timers /\ now \in Times
    BY <1>1, Numbers DEF Fire, IInv, TypeOK
  <2>2. LoopEnds(timer, now) # {}
    BY <1>1, <2>1, OnTime
  <2>3. timer'.lastRun = RunAfter(timer, Turns(timer, now))
    BY <2>1, <2>2, Fired
  <2> QED
    BY <1>1, <2>1, <2>3, OnTime
<1>2. IInv /\ [Next]_vars => [Fire /\ steady /\ Fits =>
                                /\ timer'.lastRun >= now
                                /\ timer'.lastRun - timer.period <= now]_vars
  BY <1>1
<1> QED
  BY <1>2, InductiveInvariant, PTL DEF Spec, FreshDeadline
=============================================================================

------------------------------ MODULE TimeBase ------------------------------
(***************************************************************************)
(* get_time_base() of include/libnux/vx/spr.h, which reads a 64-bit time   *)
(* base by its two halves, and its callers now() and sleep_cycles() of     *)
(* src/libnux/vx/time.cpp.                                                 *)
(*                                                                         *)
(* The time base counts on between any two instructions, so the lower half *)
(* may carry into the upper one between the two reads.  The upper half of  *)
(* the model is small; int32_t has as many values as the lower half.       *)
(***************************************************************************)
EXTENDS Integers

CONSTANTS LowRange,  \* number of values of tbl: 2^32 in the program
          HighRange, \* number of values of tbu: 2^32 in the program
          Offset,    \* offset of sleep_cycles(): 9 in the program
          Cycles,    \* the arguments of sleep_cycles()
          MaxGap     \* bound: clock cycles between two reads of a half

TimeBaseRange == LowRange * HighRange

\* static_cast<int32_t>
Narrow(x) == LET low == x % LowRange
             IN  IF low < LowRange \div 2 THEN low ELSE low - LowRange

\* The arguments leave room for the gap between two polls below the largest
\* int32_t, and are clear of the negative ones whose difference to the offset
\* overflows: Cycles is what a caller may pass.
ASSUME TimeBaseAssumption ==
  /\ LowRange \in Nat /\ LowRange % 2 = 0 /\ LowRange > 4 * MaxGap
  /\ HighRange \in Nat \ {0}
  /\ Offset \in Nat /\ MaxGap \in Nat
  /\ \A c \in Cycles : /\ c \in 0 .. LowRange - 1
                       /\ Narrow(c) - Offset >= - (LowRange \div 2)
                       /\ Narrow(c) - Offset + 2 * MaxGap < LowRange \div 2

VARIABLES time,   \* the time base
          pc,     \* what the program does
          half,   \* the half get_time_base() reads next
          tbu,    \* the upper half it has read
          start,  \* start of sleep_cycles()
          cycles, \* its argument
          \* history:
          gap,    \* cycles since a half was read
          elapsed \* cycles since now() or sleep_cycles() was called,
                  \* up to a bound

locals == <<half, tbu, start, cycles>>
vars   == <<time, pc, locals, gap, elapsed>>

\* bound: elapsed time is not counted further
MaxElapsed == 2 * LowRange

TypeOK == /\ time \in 0 .. TimeBaseRange - 1
          /\ pc \in {"idle", "now", "start", "poll"}
          /\ half \in {"tbu", "tbl"}
          /\ tbu \in 0 .. HighRange - 1
          /\ start \in 0 .. TimeBaseRange - 1
          /\ cycles \in {0} \cup Cycles
          /\ gap \in 0 .. MaxGap
          /\ elapsed \in 0 .. MaxElapsed

Init == /\ time \in 0 .. TimeBaseRange - 1
        /\ pc = "idle"
        /\ half = "tbu" /\ tbu = 0 /\ start = 0 /\ cycles = 0
        /\ gap = 0 /\ elapsed = 0

\* A clock cycle.  While the program runs, it does not go without an
\* instruction of its own for more than MaxGap cycles.
Tick == /\ pc # "idle" => gap < MaxGap
        /\ time' = (time + 1) % TimeBaseRange
        /\ IF pc = "idle"
           THEN UNCHANGED <<gap, elapsed>>
           ELSE /\ gap' = gap + 1
                /\ elapsed' = IF elapsed < MaxElapsed THEN elapsed + 1 ELSE elapsed
        /\ UNCHANGED <<pc, locals>>

\* now() is called.
CallNow == /\ pc = "idle"
           /\ pc' = "now"
           /\ UNCHANGED <<time, locals, gap, elapsed>>

\* sleep_cycles(c) is called.
CallSleep(c) == /\ pc = "idle"
                /\ pc' = "start"
                /\ cycles' = c
                /\ UNCHANGED <<time, half, tbu, start, gap, elapsed>>

\* tbu = get_tbu()
ReadHigh == /\ pc # "idle" /\ half = "tbu"
            /\ tbu' = time \div LowRange
            /\ half' = "tbl"
            /\ gap' = 0
            /\ UNCHANGED <<time, pc, start, cycles, elapsed>>

\* Mistake: the lower half is read first, the upper half after it.
TimeReadLowFirst == (time \div LowRange) * LowRange + ((time - gap) % LowRange)

\* tbl = get_tbl(): what get_time_base() returns
TimeRead == tbu * LowRange + (time % LowRange)

\* get_time_base() returns.
TimeBaseRead == /\ half = "tbl"
                /\ half' = "tbu" /\ tbu' = 0
                /\ gap' = 0

\* now() or sleep_cycles() returns.
Return == /\ pc' = "idle"
          /\ start' = 0 /\ cycles' = 0
          /\ elapsed' = 0

ReturnNow == /\ pc = "now"
             /\ TimeBaseRead
             /\ Return
             /\ UNCHANGED time

\* start = get_time_base()
ReadStart == /\ pc = "start"
             /\ TimeBaseRead
             /\ start' = TimeRead
             /\ pc' = "poll"
             /\ UNCHANGED <<time, cycles, elapsed>>

\* Mistake: the difference is not narrowed.
AwakeWide(t) == t - start > Narrow(cycles) - Offset

\* Mistake: the comparison is unsigned.
AwakeUnsigned(t) == (t - start) % LowRange > (Narrow(cycles) - Offset) % LowRange

\* The loop of sleep_cycles() ends when it reads time t.
Awake(t) == Narrow(t - start) > Narrow(cycles) - Offset

PollAgain == /\ pc = "poll"
             /\ TimeBaseRead
             /\ ~ Awake(TimeRead)
             /\ UNCHANGED <<time, pc, start, cycles, elapsed>>

WakeUp == /\ pc = "poll"
          /\ TimeBaseRead
          /\ Awake(TimeRead)
          /\ Return
          /\ UNCHANGED time

Step == ReadHigh \/ ReturnNow \/ ReadStart \/ PollAgain \/ WakeUp

Next == \/ Tick
        \/ CallNow
        \/ \E c \in Cycles : CallSleep(c)
        \/ Step

Spec == Init /\ [][Next]_vars

(***************************************************************************)
(* The time base counts and the processor executes.                        *)
(***************************************************************************)
FairSpec == Spec /\ WF_vars(Tick) /\ WF_vars(Step)

-----------------------------------------------------------------------------

\* How far a time t is ahead of the time base at the moment of the call.
Ahead(t) == (t - (time - elapsed)) % TimeBaseRange

\* now() returns a time between its call and its return, or, disturbed by the
\* carry, one that is too small by exactly one count of the upper half: never
\* a time in the future, and never a wrong lower half.
OffByOneCarry ==
  [][ ReturnNow => \/ Ahead(TimeRead) <= elapsed
                   \/ elapsed > 0 /\ Ahead(TimeRead + LowRange) <= elapsed ]_vars

\* sleep_cycles() sleeps as long as it was asked to, less the offset that
\* stands for its own run time, even if one of the two times it compares was
\* read wrong: the narrowing drops the half that may be wrong.
SleepsLongEnough == [][ WakeUp => elapsed > Narrow(cycles) - Offset ]_vars

\* The cycles sleep_cycles() lets pass once it has read start.
Asked == IF Narrow(cycles) > Offset THEN Narrow(cycles) - Offset ELSE 0

\* It wakes up with the first poll after that, also when the time base wraps
\* around or the argument is smaller than the offset.
SleepsNotTooLong == pc = "poll" => elapsed <= Asked + 4 * MaxGap

\* sleep_cycles() sleeps as long as it was asked to (time.cpp:11), and no longer.
SleepsOnTime == SleepsLongEnough /\ []SleepsNotTooLong

\* Every call returns.
CallsReturn == pc # "idle" ~> pc = "idle"

\* "Get current absolute time in ppu cycles" (include/libnux/vx/time.h:24):
\* what now() returns is the time base at a moment of the call.
\* Does not hold: the lower half may carry between the reads of the halves.
NowIsAbsoluteTime == [][ ReturnNow => Ahead(TimeRead) <= elapsed ]_vars

-----------------------------------------------------------------------------

(***************************************************************************)
(* The inductive invariant.                                                *)
(***************************************************************************)

\* The time base was at upper half tbu, and at some lower half, when the upper
\* half was read, and has counted on by gap since.
ReadInv == half = "tbl" => \E low \in 0 .. LowRange - 1 :
                             tbu * LowRange + low + gap \in {time, time + TimeBaseRange}

\* elapsed counts from the call on, gap from a later moment.
GapInv == /\ gap <= elapsed
          /\ pc = "idle" => half = "tbu" /\ gap = 0 /\ elapsed = 0

\* The most that can have passed in the reads of the halves since they began.
Reading == gap + IF half = "tbl" THEN MaxGap ELSE 0

\* In sleep_cycles(), start has the lower half of a moment of the call, not
\* long after its beginning; at the last poll there was something left to sleep.
StartInv ==
  /\ pc = "start" => elapsed <= Reading
  /\ pc = "poll" =>
       \E since \in 0 .. elapsed :
         /\ (start + since) % LowRange = time % LowRange
         /\ elapsed <= since + 2 * MaxGap
         /\ since <= Asked + Reading

IInv == TypeOK /\ ReadInv /\ GapInv /\ StartInv
=============================================================================

------------------------------- MODULE Timers -------------------------------
(***************************************************************************)
(* A periodic Timer in the hands of a program that sets it up, polls it    *)
(* with the time it last read, and changes its settings between polls, in  *)
(* any order and at any time.  (The one-shot timer is in Scheduler.)       *)
(***************************************************************************)
EXTENDS TimerOps

CONSTANTS MaxClock,  \* bound: the model ends at this time
          MaxRuns,   \* bound: events emitted since the period was set
          Firsts,    \* arguments of set_first_deadline
          Periods,   \* of set_period
          Nums       \* of set_num_periods

ASSUME ArgumentsAreWords ==
  /\ MaxClock \in Nat /\ MaxRuns \in Nat
  /\ Firsts \cup Periods \cup Nums \subseteq Times

VARIABLES clock,  \* the time since reset, which the time base counts
          timer,  \* the Timer
          hung,   \* a call of Timer::next_event does not return
          \* history:
          origin, \* lastRun and missed when the period or the start was set
          runs,   \* events the timer has emitted since
          steady  \* no setter was called since set_first_deadline

timerVars == <<timer, hung, origin, runs, steady>>
vars == <<clock, timerVars>>

\* get_time(): the word the program sees.
now == clock % TimeRange

TypeOK == /\ clock \in 0 .. MaxClock
          /\ timer \in Timers
          /\ hung \in BOOLEAN
          /\ origin \in [lastRun : Times, missed : Times]
          /\ runs \in 0 .. MaxRuns
          /\ steady \in BOOLEAN

\* A timer that is set up completely before it is polled for the first time.
Init == /\ clock = 0
        /\ \E first \in Firsts, period \in Periods, num \in Nums :
             timer = SetFirstDeadline(SetNumPeriods(SetPeriod(
                       NewTimer, period), num), first)
        /\ hung = FALSE
        /\ origin = [lastRun |-> timer.lastRun, missed |-> 0]
        /\ runs = 0
        /\ steady = TRUE

Tick == /\ clock < MaxClock
        /\ clock' = clock + 1
        /\ UNCHANGED timerVars

-----------------------------------------------------------------------------

Count == /\ origin' = [lastRun |-> timer'.lastRun, missed |-> timer'.missed]
         /\ runs' = 0

ChangeFirstDeadline(first) ==
  /\ ~ hung
  /\ timer' = SetFirstDeadline(timer, first)
  /\ Count
  /\ steady' = TRUE
  /\ UNCHANGED <<clock, hung>>

ChangePeriod(period) ==
  /\ ~ hung
  /\ timer' = SetPeriod(timer, period)
  /\ Count
  /\ steady' = FALSE
  /\ UNCHANGED <<clock, hung>>

ChangeNumPeriods(num) ==
  /\ ~ hung
  /\ timer' = SetNumPeriods(timer, num)
  /\ steady' = FALSE
  /\ UNCHANGED <<clock, hung, origin, runs>>

\* timer.next_event(e, now) returns true.
Fire == /\ ~ hung
        /\ runs < MaxRuns
        /\ TimerDue(timer, now)
        /\ ~ TimerHangs(timer, now)
        /\ timer' = TimerFired(timer, now)
        /\ runs' = runs + 1
        /\ UNCHANGED <<clock, hung, origin, steady>>

\* timer.next_event(e, now) does not return.
Hang == /\ ~ hung
        /\ TimerHangs(timer, now)
        /\ hung' = TRUE
        /\ UNCHANGED <<clock, timer, origin, runs, steady>>

\* A next_event that returns false leaves everything as it is.
PollInVain == /\ ~ hung
              /\ ~ TimerDue(timer, now)
              /\ UNCHANGED vars

Next == \/ Tick
        \/ \E first \in Firsts : ChangeFirstDeadline(first)
        \/ \E period \in Periods : ChangePeriod(period)
        \/ \E num \in Nums : ChangeNumPeriods(num)
        \/ Fire
        \/ Hang
        \/ PollInVain

Spec == Init /\ [][Next]_vars

-----------------------------------------------------------------------------

\* The schedule start, start + period, ... ends before the word wraps around.
Fits == timer.start + timer.period * timer.numPeriods < TimeRange

\* Since the start or the period was last set, every period lastRun has moved
\* over was either emitted as an event or counted by get_missed_count(), also
\* if the sums wrap around.
PeriodsAccounted ==
  (timer.lastRun - origin.lastRun) % TimeRange =
    (timer.period * (runs + timer.missed - origin.missed)) % TimeRange

\* A timer whose settings are left alone and whose schedule fits the word
\* emits at most numPeriods events, never hangs, and never emits a deadline
\* after the end of the schedule, however late and irregularly it is polled.
SteadyTimer ==
  steady /\ Fits => /\ ~ hung
                    /\ runs + timer.missed - origin.missed <= timer.numPeriods
                    /\ timer.lastRun \in timer.start .. timer.endRun

\* A fresh event is never past its deadline, and never more than one period
\* ahead of it.
FreshDeadline ==
  [][ Fire /\ steady /\ Fits =>
        /\ timer'.lastRun >= now
        /\ timer'.lastRun - timer.period <= now ]_vars
=============================================================================

------------------------------ MODULE TimerOps ------------------------------
(***************************************************************************)
(* The event sources of include/libnux/scheduling: the periodic Timer and  *)
(* the TimerOneshot.  Times are unsigned words (time_type): every sum,     *)
(* product and difference is taken modulo TimeRange.                       *)
(***************************************************************************)
EXTENDS Integers

CONSTANT TimeRange \* number of values of time_type: 2^32, or 2^64

ASSUME TimeRangeAssumption == TimeRange \in Nat \ {0}

Times == 0 .. TimeRange - 1

-----------------------------------------------------------------------------
(* Timer *)

\* numPeriods, period, start, missed, lastRun and endRun are the members.
Timers == [numPeriods : Times, period : Times, start : Times,
           missed : Times, lastRun : Times, endRun : Times]

\* Timer(service)
NewTimer == [numPeriods |-> 0, period |-> 0, start |-> 0,
             missed |-> 0, lastRun |-> 0, endRun |-> 0]

\* Every setter ends with m_end_run = m_start + m_period * m_num_periods.
WithEnd(timer) ==
  [timer EXCEPT !.endRun = (timer.start + timer.period * timer.numPeriods) % TimeRange]

SetFirstDeadline(timer, first) ==
  WithEnd([timer EXCEPT !.start = first, !.lastRun = first])

SetNumPeriods(timer, num) == WithEnd([timer EXCEPT !.numPeriods = num])

SetPeriod(timer, period) == WithEnd([timer EXCEPT !.period = period])

\* Mistake: the last period is open to a run at its very end.
TimerDueToEnd(timer, t) == t >= timer.lastRun /\ t <= timer.endRun

\* The condition of Timer::next_event.
TimerDue(timer, t) == t >= timer.lastRun /\ t < timer.endRun

\* m_last_run after n turns of the while loop.
RunAfter(timer, n) == (timer.lastRun + (n + 1) * timer.period) % TimeRange

\* The turns after which the loop condition m_last_run < t is false.  The
\* values of m_last_run repeat after TimeRange turns at the latest: if none
\* of these ends the loop, none ever does.
LoopEnds(timer, t) == {n \in Times : RunAfter(timer, n) >= t}

\* next_event never returns.
TimerHangs(timer, t) == TimerDue(timer, t) /\ LoopEnds(timer, t) = {}

\* The turns the loop takes.
Turns(timer, t) ==
  CHOOSE n \in LoopEnds(timer, t) : \A m \in LoopEnds(timer, t) : n <= m

\* Mistake: however many periods are skipped, one is counted.
TimerFiredCountsOne(timer, t) ==
  LET n == Turns(timer, t)
  IN  [timer EXCEPT !.lastRun = RunAfter(timer, n),
                    !.missed = (@ + IF n > 0 THEN 1 ELSE 0) % TimeRange]

\* Mistake: the period that is emitted late is skipped as well.
TimerFiredSkipsOne(timer, t) ==
  LET n == Turns(timer, t)
  IN  [timer EXCEPT !.lastRun = RunAfter(timer, n + 1),
                    !.missed = (@ + n + 1) % TimeRange]

\* The timer after next_event has returned true; event.deadline is lastRun.
TimerFired(timer, t) ==
  LET n == Turns(timer, t)
  IN  [timer EXCEPT !.lastRun = RunAfter(timer, n),
                    !.missed = (@ + n) % TimeRange]

-----------------------------------------------------------------------------
(* TimerOneshot *)

\* hasBeenRun is m_has_been_run.
Oneshots == [deadline : Times, window : Times, hasBeenRun : BOOLEAN]

\* TimerOneshot(service), TimerOneshot(service, deadline) and
\* TimerOneshot(service, deadline, window).
NewOneshot == [deadline |-> 0, window |-> 0, hasBeenRun |-> TRUE]

ArmedOneshot(deadline, window) ==
  [deadline |-> deadline, window |-> window, hasBeenRun |-> FALSE]

SetDeadline(oneshot, t) == [oneshot EXCEPT !.deadline = t, !.hasBeenRun = FALSE]

SetWindow(oneshot, t) == [oneshot EXCEPT !.window = t, !.hasBeenRun = FALSE]

\* The condition of TimerOneshot::next_event.
OneshotDue(oneshot, t) ==
  /\ ~ oneshot.hasBeenRun
  /\ t >= (oneshot.deadline - oneshot.window) % TimeRange

\* Mistake: the event is not marked as emitted.
OneshotFiredForgotten(oneshot) == oneshot

OneshotFired(oneshot) == [oneshot EXCEPT !.hasBeenRun = TRUE]
=============================================================================

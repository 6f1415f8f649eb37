------------------------------ MODULE Scheduler ------------------------------
(***************************************************************************)
(* class Scheduler of include/libnux/scheduling/Scheduler.hpp: a loop that *)
(* reads the time, fetches the events of all sources that are due at that  *)
(* time into a bounded queue, moves the event with the earliest deadline   *)
(* to the front, pops it and runs its service, until the stop time.  The   *)
(* queue is an object of class Queue, and used through its functions.      *)
(*                                                                         *)
(* The program has periodic timers and one-shot timers.  A service runs to *)
(* completion; it may arm a one-shot timer again or start a periodic one   *)
(* anew.  How long anything takes is left open: the clock ticks whenever   *)
(* it likes.                                                               *)
(***************************************************************************)
EXTENDS TimerOps, Queue, FiniteSets

CONSTANTS NumPeriodic, \* periodic timers, the first elements of event_sources
          NumOneshot,  \* one-shot timers, the others
          MaxClock,    \* bound: the model ends at this time
          StopTimes,   \* arguments of execute()
          Schedules,   \* settings of a periodic timer: <<first, period, num>>
          Shots,       \* settings of a one-shot timer: <<deadline, window>>
          MaxChanges   \* bound: how often services set a timer

Periodic == 1 .. NumPeriodic
Oneshot  == NumPeriodic + 1 .. NumPeriodic + NumOneshot
Sources  == Periodic \cup Oneshot

\* An event points to the service of the source that emitted it.
Events == [source : Sources, deadline : Times]

ASSUME SchedulerAssumption ==
  /\ NumPeriodic \in Nat /\ NumOneshot \in Nat
  /\ Sources # {}
  /\ Elements = Events
  /\ MaxClock \in Nat
  /\ StopTimes \subseteq Times
  /\ Schedules \subseteq Times \X Times \X Times
  /\ Shots \subseteq Times \X Times
  /\ MaxChanges \in Nat

VARIABLES clock,    \* the time since reset
          pc,       \* where execute() is
          stopTime, \* its argument
          readAt,   \* clock at the last get_time()
          src,      \* the source fetch_events_from_source is at
          timer,    \* the periodic timers
          oneshot,  \* the one-shot timers
          \* history:
          emitted,  \* emitted[s]: events source s has emitted
          ran,      \* ran[s]: how often the service of source s was run
          lastRan,  \* lastRan[s]: deadline of the last event of s that was run,
                    \* -1 if there is none
          changes,  \* how often services have set a timer
          timesSet  \* timesSet[s]: how often one-shot timer s was set, constructor
                    \* included

sources  == <<timer, oneshot>>
settings == <<changes, timesSet>>
history  == <<emitted, ran, lastRan, settings>>
loopVars == <<stopTime, readAt, src>>
vars == <<clock, pc, loopVars, queueVars, sources, history>>

\* current_time
now == readAt % TimeRange

Started(s) == LET first == s[1] period == s[2] num == s[3]
              IN  SetNumPeriods(SetPeriod(SetFirstDeadline(
                    NewTimer, first), period), num)

Locations == {"idle",  \* execute() is not running
              "head",  \* at the condition of its loop
              "fetch", "sort", "run",
              "clock"} \* before get_time()

TypeOK == /\ clock \in 0 .. MaxClock
          /\ pc \in Locations
          /\ stopTime \in Times
          /\ readAt \in 0 .. clock
          /\ src \in 1 .. NumPeriodic + NumOneshot
          /\ QueueTypeOK
          /\ timer \in [Periodic -> Timers]
          /\ oneshot \in [Oneshot -> Oneshots]
          /\ emitted \in [Sources -> Nat]
          /\ ran \in [Sources -> Nat]
          /\ lastRan \in [Sources -> {-1} \cup Times]
          /\ changes \in 0 .. MaxChanges
          /\ timesSet \in [Oneshot -> Nat]

Init == /\ clock = 0
        /\ pc = "idle"
        /\ stopTime = 0 /\ readAt = 0 /\ src = 1
        /\ QueueInit
        /\ timer \in [Periodic -> {Started(s) : s \in Schedules}]
        /\ oneshot \in [Oneshot -> {NewOneshot} \cup {ArmedOneshot(s[1], s[2]) : s \in Shots}]
        /\ emitted = [s \in Sources |-> 0]
        /\ ran = [s \in Sources |-> 0]
        /\ lastRan = [s \in Sources |-> -1]
        /\ changes = 0
        /\ timesSet = [s \in Oneshot |-> IF oneshot[s].hasBeenRun THEN 0 ELSE 1]

Tick == /\ clock < MaxClock
        /\ clock' = clock + 1
        /\ UNCHANGED <<pc, loopVars, queueVars, sources, history>>

-----------------------------------------------------------------------------

\* execute(stop, event_sources) is called.
Execute(stop) ==
  /\ pc = "idle"
  /\ stopTime' = stop
  /\ readAt' = clock
  /\ pc' = "head"
  /\ UNCHANGED <<clock, src, queueVars, sources, history>>

\* while (current_time < stop_time)
Continue == /\ pc = "head"
            /\ now < stopTime
            /\ pc' = "fetch"
            /\ src' = 1
            /\ UNCHANGED <<clock, stopTime, readAt, queueVars, sources, history>>

Return == /\ pc = "head"
          /\ now >= stopTime
          /\ pc' = "idle"
          /\ UNCHANGED <<clock, loopVars, queueVars, sources, history>>

Emit(deadline) ==
  /\ Push([source |-> src, deadline |-> deadline])
  /\ emitted' = [emitted EXCEPT ![src] = @ + 1]

\* Mistake: a source is asked once, "if" in place of "while".
FetchPeriodicOnce ==
  /\ pc = "fetch"
  /\ src \in Periodic
  /\ TimerDue(timer[src], now)
  /\ timer' = [timer EXCEPT ![src] = TimerFired(@, now)]
  /\ Emit(timer'[src].lastRun)
  /\ IF src + 1 \in Sources THEN src' = src + 1 /\ UNCHANGED pc
                            ELSE pc' = "sort" /\ UNCHANGED src
  /\ UNCHANGED <<clock, stopTime, readAt, oneshot, ran, lastRan, settings>>

\* The source at hand has a new event: push it and ask the same source again.
FetchPeriodic ==
  /\ pc = "fetch"
  /\ src \in Periodic
  /\ TimerDue(timer[src], now)
  /\ ~ TimerHangs(timer[src], now)
  /\ timer' = [timer EXCEPT ![src] = TimerFired(@, now)]
  /\ Emit(timer'[src].lastRun)
  /\ UNCHANGED <<clock, pc, loopVars, oneshot, ran, lastRan, settings>>

FetchOneshot ==
  /\ pc = "fetch"
  /\ src \in Oneshot
  /\ OneshotDue(oneshot[src], now)
  /\ oneshot' = [oneshot EXCEPT ![src] = OneshotFired(@)]
  /\ Emit(oneshot[src].deadline)
  /\ UNCHANGED <<clock, pc, loopVars, timer, ran, lastRan, settings>>

\* The source has no (further) event: ask the next one.
NextSource ==
  /\ pc = "fetch"
  /\ src \in Periodic => ~ TimerDue(timer[src], now)
  /\ src \in Oneshot => ~ OneshotDue(oneshot[src], now)
  /\ IF src + 1 \in Sources THEN src' = src + 1 /\ UNCHANGED pc
                            ELSE pc' = "sort" /\ UNCHANGED src
  /\ UNCHANGED <<clock, stopTime, readAt, queueVars, sources, history>>

\* The position sort_earliest_first finds: the first of the earliest.
Earliest(q) ==
  LET Deadline(n) == At(q, n).deadline
      Before(m, n) == Deadline(m) < Deadline(n) \/ (Deadline(m) = Deadline(n) /\ m < n)
  IN  CHOOSE n \in 0 .. q.size - 1 : \A m \in (0 .. q.size - 1) \ {n} : Before(n, m)

\* Mistake: the earliest element is copied to the front, not swapped.
EarliestCopied(q) == Assigned(q, 0, At(q, Earliest(q)))

\* Mistake: the search stops one element early.
EarliestButLast(q) ==
  LET Near == {n \in 0 .. q.size - 1 : n < q.size - 1 \/ n = 0}
      min == CHOOSE n \in Near : \A m \in Near : At(q, n).deadline <= At(q, m).deadline
  IN  Assigned(Assigned(q, 0, At(q, min)), min, At(q, 0))

\* std::swap(m_queue[0], m_queue[min_index])
EarliestFirst(q) == Swapped(q, 0, Earliest(q))

\* sort_earliest_first()
Sort == /\ pc = "sort"
        /\ queue' = IF queue.size > 1 THEN EarliestFirst(queue) ELSE queue
        /\ pc' = "run"
        /\ UNCHANGED <<clock, loopVars, got, sources, history>>

\* A service starts a periodic timer anew.
StartAgain == /\ \E s \in Periodic, schedule \in Schedules :
                   timer' = [timer EXCEPT ![s] =
                     SetFirstDeadline(SetNumPeriods(SetPeriod(
                       @, schedule[2]), schedule[3]), schedule[1])]
              /\ UNCHANGED <<oneshot, timesSet>>

\* A service sets the deadline of a one-shot timer, its window, or both.
SetAgain ==
  /\ \E s \in Oneshot, shot \in Shots :
       /\ \/ oneshot' = [oneshot EXCEPT ![s] = SetDeadline(@, shot[1])]
          \/ oneshot' = [oneshot EXCEPT ![s] = SetWindow(@, shot[2])]
          \/ oneshot' = [oneshot EXCEPT ![s] = SetDeadline(SetWindow(@, shot[2]), shot[1])]
       /\ timesSet' = [timesSet EXCEPT ![s] = @ + 1]
  /\ UNCHANGED timer

\* What a service may do to the timers: nothing, or set one.
Service == \/ UNCHANGED <<sources, settings>>
           \/ /\ changes < MaxChanges
              /\ changes' = changes + 1
              /\ StartAgain \/ SetAgain

\* run_queue_service(): pop the first event and run its service.
RunService ==
  /\ pc = "run"
  /\ Pop
  /\ LET e == Oldest(queue)
     IN  /\ ran' = [ran EXCEPT ![e.source] = @ + 1]
         /\ lastRan' = [lastRan EXCEPT ![e.source] = e.deadline]
  /\ Service
  /\ pc' = "clock"
  /\ UNCHANGED <<clock, loopVars, emitted>>

\* run_queue_service() of an empty queue.
RunNothing == /\ pc = "run"
              /\ PopEmpty
              /\ pc' = "clock"
              /\ UNCHANGED <<clock, loopVars, sources, history>>

\* Mistake: the time is read only before the loop.
ReadClockOnce == /\ pc = "clock"
                 /\ pc' = "head"
                 /\ UNCHANGED <<clock, loopVars, queueVars, sources, history>>

\* current_time = get_time()
ReadClock == /\ pc = "clock"
             /\ readAt' = clock
             /\ pc' = "head"
             /\ UNCHANGED <<clock, stopTime, src, queueVars, sources, history>>

\* One step of the code of execute().
Step == \/ Continue \/ Return
        \/ FetchPeriodic \/ FetchOneshot \/ NextSource
        \/ Sort
        \/ RunService \/ RunNothing
        \/ ReadClock

Next == \/ Tick
        \/ \E stop \in StopTimes : Execute(stop)
        \/ Step

Spec == Init /\ [][Next]_vars

(***************************************************************************)
(* The time base counts, the processor executes, and services return.      *)
(***************************************************************************)
FairSpec == Spec /\ WF_vars(Tick) /\ WF_vars(Step)

-----------------------------------------------------------------------------

\* The sum of a count over all sources
Total(count) ==
  LET sum[s \in 0 .. NumPeriodic + NumOneshot] == IF s = 0 THEN 0 ELSE sum[s - 1] + count[s]
  IN  sum[NumPeriodic + NumOneshot]

\* The queued events of source s.
Queued(s) == {n \in 0 .. queue.size - 1 : At(queue, n).source = s}

\* sort_earliest_first() followed by run_queue_service() runs an event with
\* the earliest deadline of all that are queued, although only one element is
\* moved and the order of the others is disturbed by every swap.
EarliestDeadlineFirst ==
  [][ RunService => \A n \in 0 .. queue.size - 1 :
                      Oldest(queue).deadline <= At(queue, n).deadline ]_vars

\* No event vanishes unnoticed or is run twice: what the sources have emitted
\* was run, is still queued, or is in get_dropped_events_count().
EventsAccounted ==
  /\ Total(emitted) = Total(ran) + queue.size + queue.overflow
  /\ \A s \in Sources : ran[s] + Cardinality(Queued(s)) <= emitted[s]

\* A one-shot timer has an event to emit.
Pending(s) == IF oneshot[s].hasBeenRun THEN 0 ELSE 1

\* The service of a one-shot timer runs at most once for every time the timer was set,
\* from the poll through the queue to execute() (TimerOneshot.hpp:63, 73,
\* Scheduler.hpp:133): whichever setter was called and whether the timer had fired, had
\* an event queued or had lost it, one event at most comes of it.  (set_window() alone
\* on a timer that has fired is such a time, with the old deadline.)
RunsAsSet ==
  \A s \in Oneshot : ran[s] + Cardinality(Queued(s)) + Pending(s) <= timesSet[s]

\* The schedule of a timer ends before the word wraps around.
Fits(t) == t.start + t.period * t.numPeriods < TimeRange

\* The events of one periodic timer whose schedule fits the word are run in
\* the order of their deadlines, also when the queue has dropped some of them
\* and swapped others around, and also when a second execute() finds events
\* the first one has left.
\* (A service that starts the timer anew may set an earlier deadline.)
RunInOrder ==
  [][ RunService /\ changes = 0 =>
        LET e == Oldest(queue)
        IN  e.source \in Periodic /\ Fits(timer[e.source]) =>
              e.deadline > lastRan[e.source] ]_vars

\* The order in which execute() runs what is queued (Scheduler.hpp:148-177): by
\* deadline, and each timer's events one after the other.
ServiceOrder == EarliestDeadlineFirst /\ RunInOrder

\* When the fetching is over, no source has an event left that is due at the
\* time it was polled with: each was asked until it had no more.
SourcesDrained ==
  pc \in {"sort", "run"} =>
    /\ \A s \in Periodic : ~ TimerDue(timer[s], now)
    /\ \A s \in Oneshot : ~ OneshotDue(oneshot[s], now)

\* execute() comes to an end, whatever the timers and services do.
ExecuteReturns == pc # "idle" ~> pc = "idle"

\* "count missed runs" (Timer.hpp:16), "Did the periodic timer miss periods?"
\* (examples/scheduling.cpp:95): after the end of its schedule, the periods of
\* a timer that has emitted and was not set again have been emitted or counted
\* as missed.
\* Does not hold: next_event returns early from the end of the schedule on,
\* so the periods since the last poll before it are not counted.
MissedPeriodsCounted ==
  pc = "idle" /\ stopTime > 0 /\ changes = 0 =>
    \A s \in Periodic :
      emitted[s] > 0 /\ now >= timer[s].endRun =>
        emitted[s] + timer[s].missed = timer[s].numPeriods
=============================================================================

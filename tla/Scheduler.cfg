\* Two periodic timers and a one-shot timer, a queue that overflows, and a
\* service that sets a timer again.
CONSTANTS
  TimeRange = 32
  NumPeriodic = 2
  NumOneshot = 1
  QueueSize = 2
  Garbage = Garbage
  Elements <- Events
  MaxClock = 7
  StopTimes = {4, 7}
  Schedules <- ShortAndLong
  Shots <- NearAndFar
  MaxChanges = 1
SPECIFICATION FairSpec
INVARIANTS EventsAccounted SourcesDrained RunsAsSet
PROPERTIES ServiceOrder ExecuteReturns

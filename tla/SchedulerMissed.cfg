\* A timer whose schedule ends before execute() returns.
CONSTANTS
  TimeRange = 32
  NumPeriodic = 1
  NumOneshot = 0
  QueueSize = 2
  Garbage = Garbage
  Elements <- Events
  MaxClock = 9
  StopTimes = {9}
  Schedules <- OneSchedule
  Shots <- NoShots
  MaxChanges = 0
SPECIFICATION Spec
INVARIANTS MissedPeriodsCounted

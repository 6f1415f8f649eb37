\* A word of four bits: sums wrap around after a few periods, and the clock
\* wraps around once.
CONSTANTS
  TimeRange = 16
  MaxClock = 18
  MaxRuns = 4
  Firsts = {0, 3}
  Periods = {0, 2, 4, 9}
  Nums = {1, 3}
SPECIFICATION Spec
INVARIANTS PeriodsAccounted SteadyTimer
PROPERTIES FreshDeadline
\* The model ends when the clock has reached MaxClock.
CHECK_DEADLOCK FALSE

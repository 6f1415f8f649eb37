\* A time base whose halves have 16 and 3 values.
CONSTANTS
  LowRange = 16
  HighRange = 3
  Offset = 3
  Cycles = {1, 5, 6, 14}
  MaxGap = 2
SPECIFICATION FairSpec
PROPERTIES OffByOneCarry SleepsOnTime CallsReturn

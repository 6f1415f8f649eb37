\* The lower half carries between the two reads.
CONSTANTS
  LowRange = 16
  HighRange = 3
  Offset = 3
  Cycles = {4}
  MaxGap = 2
SPECIFICATION FairSpec
PROPERTIES NowIsAbsoluteTime

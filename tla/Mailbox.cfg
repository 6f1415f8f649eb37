\* Text, numbers, terminators and direct writes in a mailbox of three bytes.
CONSTANTS
  Size = 3
  Beyond = 9
  Base = 2
  IntRange = 8
  Strings <- ShortStrings
  Numbers <- SomeNumbers
  LowestText <- Lowest
  Vectors <- TwoVectors
  Blocks <- TwoBlocks
  Lengths = {2}
  MaxText = 4
SPECIFICATION Spec
INVARIANTS TypeOK TextKept ReturnsCountHead
PROPERTIES TextReadsBack NumbersReadBack
CHECK_DEADLOCK FALSE

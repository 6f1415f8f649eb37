\* Text that fills the mailbox.
CONSTANTS
  Size = 4
  Beyond = 8
  Base = 2
  IntRange = 8
  Strings <- ShortStrings
  Numbers <- Nothing
  LowestText <- Lowest
  Vectors <- Nothing
  Blocks <- Nothing
  Lengths <- Nothing
  MaxText = 8
SPECIFICATION Spec
INVARIANTS StaysInMailbox
CHECK_DEADLOCK FALSE

CONSTANTS
  QueueSize = 4
  Elements = {a, b}
  Garbage = Garbage
  MaxOverflow = 3
SPECIFICATION BoundedSpec
INVARIANT DebugValuesAgree
PROPERTIES ImplementsLossyQueue

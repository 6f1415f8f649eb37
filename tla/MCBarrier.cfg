\* Five agents: their number is not a power of two, so an agent is reached by
\* more than one chain of notifications, and notifications travel three steps.
\* The memory is full of ones, which a waiting agent takes for notifications.
CONSTANTS
  N = 5
  NumFlags = 3
  Pow2 <- MCPow2
  Rounds = 5
  NoAgent = NoAgent
  Image = {1}
SPECIFICATION FairSpec
INVARIANTS BarrierSafe FlagsTruthful
PROPERTIES ImplementsRoundBarrier AllFinish

\* Two tests, room for three, and one restart; a heap of six units below a stack
\* that starts at its end.
CONSTANTS
  NumTests = 2
  MaxTests = 3
  DestructorCounts = {0, 1}
  Codes = {0, 1, 12}
  MaxChecks = 2
  MaxRestarts = 1
  IntEnd = 1
  MailboxBase = 10
  Margin = 2
  IsrFrame = 3
  NearRedzone = 1
  FrameSizes = {1, 2}
  ObjectSizes = {1, 4}
SPECIFICATION RuntimeSpec
INVARIANTS RuntimeTypeOK CasesJudgedAlone EveryTestRuns ExitCodesHonest HeapIntegrity StackBounded
\* The program stops when it has stored its exit code.
CHECK_DEADLOCK FALSE

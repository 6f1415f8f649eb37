\* Two PPUs, with any overlap of their calls and of other writes.
CONSTANTS
  Weights = {0, 7, 32}
  Columns = {0, 1}
SPECIFICATION Spec
INVARIANT RowRestored
PROPERTIES LocationLearned AlwaysSucceeds

SPECIFICATION Spec
CONSTANTS
  Calls = {look, close, trash}
  Modifying = {close, trash}
  MaxRounds = 2
  MaxCalls = 3
  MaxBatch = 2
INVARIANTS
  NothingStartsAfterStop
CHECK_DEADLOCK FALSE

INIT Init
NEXT Next
CONSTANTS
  MaxActs = 4
INVARIANTS
  OneCopyIsKept
CHECK_DEADLOCK FALSE

INIT Init
NEXT Next
CONSTANTS
  MaxTurns = 3
  MaxRules = 1
INVARIANTS
  HistoryOffIsHonoured
CHECK_DEADLOCK FALSE

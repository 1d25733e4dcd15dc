INIT Init
NEXT Next
CONSTANTS
  Prep = 1
  Grace = 2
  Dur = 2
  MaxSessions = 1
  MaxLate = 1
  Platform = {TRUE, FALSE}
INVARIANTS
  MaskIsLifted
CHECK_DEADLOCK FALSE

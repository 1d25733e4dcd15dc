INIT ScheduleInit
NEXT CalmNext
CONSTANTS
  MaxTurns = 6
  Period = 1
  Grace = 0
  Receipts = 8
  Bits = 1
INVARIANTS
  OccurrenceIsNotRepeated
CHECK_DEADLOCK FALSE

SPECIFICATION Spec
CONSTANTS
  MapActs = 4
  QuickActs = 2
  FileActs = 3
  AppActs = 4
  ScanActs = 2
  NativeActs = 3
  PrefTurns = 4
INVARIANTS
  RemovedAsConfirmed
  ClearedIsGone
  StoredAsTold
PROPERTIES
  WorkEnds
CHECK_DEADLOCK FALSE

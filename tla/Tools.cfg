SPECIFICATION Spec
CONSTANTS
  KillActs = 2
  KillTurns = 3
  PatchJobs = 2
  PatchTurns = 3
  ImageJobs = 2
  ImageTurns = 3
  SimpleTurns = 3
  Prep = 1
  Grace = 1
  Dur = 1
  Sessions = 2
  Late = 1
INVARIANTS
  DoneAsAsked
  NothingIsHeld
  ShownIsSo
PROPERTIES
  LateAnswersFit
  ToolsEnd
CHECK_DEADLOCK FALSE

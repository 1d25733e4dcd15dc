SPECIFICATION BothSpec
CONSTANTS
  Calls = {look, close, trash}
  Modifying = {close, trash}
  MaxRounds = 2
  MaxCalls = 3
  MaxBatch = 2
  Sessions = {s1}
  TempSessions = {}
  Requests = {r1, r2}
  Submissions = {u1}
  Preparations = {p1, p2}
  NoRequest = NoRequest
  NoOrigin = NoOrigin
  NoPreparation = NoPreparation
  MaxEpoch = 2
  MaxPrepared = 1
INVARIANTS
  OnlyApprovedRun
  RunAtMostOnce
  RefusalHolds
  AtMostOneLateStart
  PromptIsLive
  CompleteMeansRan
  TraceBeforeRun
PROPERTIES
  LoopEnds
  SlotComesFree
CHECK_DEADLOCK FALSE

SPECIFICATION Spec
CONSTANTS
  Sessions = {s1, s2}
  TempSessions = {s2}
  Requests = {r1, r2}
  Submissions = {u1, u2}
  Preparations = {p1}
  NoRequest = NoRequest
  NoOrigin = NoOrigin
  NoPreparation = NoPreparation
  MaxEpoch = 2
  MaxPrepared = 1
SYMMETRY Symmetry
INVARIANTS
  TypeOK
  ActiveIsCurrent
  FlagFollowsSlot
  SentIsRecorded
  StopWins
  NoAbandonedReply
  NoReplay
PROPERTIES
  DeletedStaysDeleted
  SendIsChecked
  ImplementsReply

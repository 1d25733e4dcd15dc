SPECIFICATION FairSpec
CONSTANTS
  Connections = {c1}
  Slots = {"auth"}
  Tasks = {t1, t2}
  NoConnection = NoConnection
  NoTask = NoTask
  NoEdit = NoEdit
  MaxRevision = 3
  MaxEpoch = 3
INVARIANTS
  GuardIsOwned
  PlacesAreOwned
  ModelUseIsExclusive
  ClearingIsQuiet
  NoOrphanSecret
PROPERTIES
  WorkFinishes
  SecretsStayWithTarget

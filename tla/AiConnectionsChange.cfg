SPECIFICATION Spec
CONSTANTS
  Connections = {c1}
  Slots = {"auth"}
  Tasks = {t1}
  NoConnection = NoConnection
  NoTask = NoTask
  NoEdit = NoEdit
  MaxRevision = 1
  MaxEpoch = 3
INVARIANTS
  NoWorkAfterChange

CONSTANTS
  App = {a1, a2}
  Progress = pt
  None = none
  NReq = 3
  Slots = 2
  Period = 1
  Calls = {"VE", "VH", "SYNC", "block"}
  Faults = {}
  ShareIds = TRUE
SPECIFICATION Spec
SYMMETRY AppSymmetry
INVARIANTS WakeupPending BlockContiguous
PROPERTY SyncBarrier
CHECK_DEADLOCK FALSE

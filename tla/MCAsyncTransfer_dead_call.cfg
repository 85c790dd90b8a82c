CONSTANTS
  App = {a1, a2}
  None = None
  Requests <- SomeRequests
  PartSend = 16
  PartSmall = 4
  CutSize = 8
  Align = 2
  MaxCmd = 8
  MaxStack = 4
  Slots = 2
  NReq = 8
  Faults = {"exception"}
SPECIFICATION Spec
INVARIANT CallComplete
CHECK_DEADLOCK FALSE

CONSTANTS
  App = {a1}
  Progress = pt
  None = none
  NReq = 3
  Slots = 2
  Period = 1
  Calls = {"VE", "VH", "NOWAIT", "wait", "SYNC", "close"}
  Faults = {"exception", "kill", "eagain", "senderr"}
  ShareIds = TRUE
SPECIFICATION Spec
PROPERTY StreamSpec
CHECK_DEADLOCK FALSE

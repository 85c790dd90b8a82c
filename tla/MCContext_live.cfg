CONSTANTS
  App = {a1}
  Progress = pt
  None = none
  NReq = 2
  Slots = 3
  Period = 2
  Calls = {"VE", "VH", "SYNC", "NOWAIT", "wait", "peek", "close"}
  Faults = {"exception", "kill"}
  ShareIds = FALSE
SPECIFICATION FairSpec
PROPERTIES CallsReturn DeadCallsReturn
CHECK_DEADLOCK FALSE

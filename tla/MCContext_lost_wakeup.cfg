CONSTANTS
  App = {a1, a2}
  Progress = pt
  None = none
  NReq = 2
  Slots = 2
  Period = 1
  Calls = {"VE", "wait"}
  Faults = {}
  ShareIds = FALSE
SPECIFICATION FairSpec
PROPERTY WaitReturns
CHECK_DEADLOCK FALSE

CONSTANTS
  App = {a1, a2}
  Progress = pt
  None = none
  NReq = 2
  Slots = 2
  Period = 1
  Calls = {"VE", "VH", "wait", "peek"}
  Faults = {"exception"}
  ShareIds = TRUE
SPECIFICATION Spec
SYMMETRY AppSymmetry
INVARIANTS TypeOK OnePlace Claimable WireMatchesInFlight
CHECK_DEADLOCK FALSE

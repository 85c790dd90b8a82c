CONSTANTS
  App = {a1, a2}
  None = None
  Requests <- MixedRequests
  PartSend = 16
  PartSmall = 4
  CutSize = 8
  Align = 2
  MaxCmd = 8
  MaxStack = 4
  Slots = 2
  NReq = 8
  Faults = {"senderr", "exception", "kill"}
SPECIFICATION FairSpec
INVARIANTS TypeOK TransferComplete SubmittedCallComplete StackDeletedLast ResultsReady NothingLeft FragmentsFit
PROPERTY RequestsReturn
CHECK_DEADLOCK FALSE

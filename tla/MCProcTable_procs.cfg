CONSTANTS
  App = {a1, a2}
  None = None
  Null = Null
  Destructor = Destructor
  NProcs = 3
  VA = {v1}
  VEO_MAX_HMEM_PROCS = 2
  MaxCalls = 5
SPECIFICATION FairSpec
INVARIANTS TypeOK TableExact AddressResolves OwnerReached MemoryKnown  NoneLeft
PROPERTIES IdentifierStable CallsEnd
CHECK_DEADLOCK FALSE

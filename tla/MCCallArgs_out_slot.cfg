CONSTANTS
  b1 = b1
  b2 = b2
  c1 = c1
  c2 = c2
  Contexts = {c1, c2}
  Buffers = {b1, b2}
  BufLen <- TwoLengths
  Stacked <- ThreeUses
  ValueSizes = {1}
  Null = Null
  Word = 2
  PARAM_AREA_OFFSET = 4
  NUM_ARGS_ON_REGISTER = 1
  VeSp <- TwoStacks
  ReservedStack = 4
  Page = 32
  MaxArgs = 3
  MaxSets = 1
  MaxCalls = 2
SPECIFICATION Spec
INVARIANT EveryArgumentArrives
CHECK_DEADLOCK FALSE

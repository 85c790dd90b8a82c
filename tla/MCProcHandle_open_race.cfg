SPECIFICATION Spec
CONSTANTS
  App = {a1, a2}
  Progress = prog
  None = none
  Null = null
  NCtx = 2
  Libs = {l1, l2}
  VeDma = vedma
  LibHandles = {h1, h2}
  Syms = {f, g}
  Static = {g}
  VeDmaSyms <- PostAndPoll
  Workloads <- OpenSym
SYMMETRY Symmetry
CHECK_DEADLOCK FALSE
INVARIANT
  EveryReplyExpected

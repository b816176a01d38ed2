SPECIFICATION FairSpec
CONSTANTS
  c1 = c1
  c2 = c2
  c3 = c3
  Cmd <- Cmds
  Slots = 2
INVARIANTS
  ReturnIsExact
PROPERTIES
  RunReturns
  PromiseKept
CHECK_DEADLOCK FALSE

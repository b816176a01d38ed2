SPECIFICATION Spec
CONSTANTS
  Proc <- TwoProcs
  N = 2
  MaxCalls = 2
  Power = TRUE
CHECK_DEADLOCK FALSE
INVARIANTS
  OneTest
PROPERTIES
  KeepsFlags

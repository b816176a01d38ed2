SPECIFICATION FairSpec
CONSTANTS
  Tests = 2
  MaxExec = 2
  MaxFail = 2
  Devices <- OneDevice
  MaxLost = 1
CHECK_DEADLOCK FALSE
INVARIANTS
  PutBack
  Prepared
  WholeTrace
PROPERTIES
  ProcessEnds

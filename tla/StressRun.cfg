SPECIFICATION FairSpecBoot
CONSTANTS
  Modes = 1
  Count = 3
  FailMax = 2
  Pings = 2
  ResetEvery = 1
  RebootPings = 1
  MayFail <- OnlyInstall
  MayBeLate <- OnlyUpdate
CHECK_DEADLOCK FALSE
INVARIANTS
  ReadyWhenTested
  CleanExit
  GrubSwapped
PROPERTIES
  CommandEnds

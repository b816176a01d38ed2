SPECIFICATION BootFairSpec
CONSTANTS
  MaxStarts = 3
  MaxFaults = 2
  MaxBoots = 2
CHECK_DEADLOCK FALSE
INVARIANTS
  GrubKept
  CronKept
PROPERTIES
  RequestKept

SPECIFICATION AsyncFairSpec
CONSTANTS
  MaxRuns = 3
  Uses <- AllUses
  RerunOn = "timeout"
INVARIANTS
  VerdictTrue
PROPERTIES
  EveryRunIsJudged
CHECK_DEADLOCK FALSE

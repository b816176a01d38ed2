SPECIFICATION FairSpec
CONSTANTS
  N = 3
  Times <- Clock
  Heights <- SomeHeights
  FirstRow = 2
CHECK_DEADLOCK FALSE
INVARIANTS
  NoOverlap
PROPERTIES
  LayoutEnds

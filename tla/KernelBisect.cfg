SPECIFICATION Spec
CONSTANTS
  N = 4
  MaxRounds = 3
  Settings <- MCSettings
  Leftovers <- MCLeftovers
INVARIANTS
  Blame
  NamesOne
PROPERTY
  BisectEnds

SPECIFICATION NetSpec
CONSTANT MaxFaults = 1
CHECK_DEADLOCK FALSE
INVARIANTS
  Repaired
  ComesBack
  StatusTrue

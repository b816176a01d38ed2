SPECIFICATION FairSpec
CONSTANTS
  Proc <- TwoProcs
  Paths <- FolderPaths
  Calls = 2
  Wait = 2
  Retries = 1
  LostReply = TRUE
  MaxFolders = 3
CHECK_DEADLOCK FALSE
INVARIANTS
  LockHoldsOnce
  IdsTrue
PROPERTIES
  CallEnds

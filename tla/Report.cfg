SPECIFICATION ReportSpec
CONSTANTS
  p1 = p1
  p2 = p2
  p3 = p3
  Proc <- Procs
  Count <- Counts
  MaxCount = 2
  Wait = 2
  Jobs <- MCJobs
  Tarball <- MCTarball
  BrokenTar = {"t4"}
  RcOf <- MCRc
  WebStart <- MCWeb
  MaxLaunch = 3
  MaxCrash = 1
  MaxSkip = 1
  MayCrash = {p1}
INVARIANTS
  AtMostMaxCount
  TarballSafe
  WorkDone
  RowsKept
  CountsTrue
PROPERTIES
  WaitEnds

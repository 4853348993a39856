\* A printer whose faults never lead to a state no call leaves.
SPECIFICATION FairSpec
CONSTANTS
  ChunkBytes = 1
  JobLimit = 1
  PagesLimit = 2
  ChunksPerPage = 1
  LateReports = FALSE
  Traps = {}
  AbortedIsCanceled = TRUE
PROPERTIES
  EndsWhenTold
  JobsRecover
CHECK_DEADLOCK FALSE

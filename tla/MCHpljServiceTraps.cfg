\* A printer that may be unplugged in the middle of a firmware upload.
SPECIFICATION FairSpec
CONSTANTS
  ChunkBytes = 1
  JobLimit = 1
  PagesLimit = 1
  ChunksPerPage = 1
  LateReports = FALSE
  Traps = {"FIRMWARE_TRANSFER_FAILED"}
  AbortedIsCanceled = TRUE
PROPERTIES
  JobsRecover
CHECK_DEADLOCK FALSE

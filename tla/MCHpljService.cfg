\* Two jobs on a printer that may do anything, and report a document late.
SPECIFICATION Spec
CONSTANTS
  ChunkBytes = 1
  JobLimit = 2
  PagesLimit = 2
  ChunksPerPage = 2
  LateReports = TRUE
  Traps = {"UNSUPPORTED", "FIRMWARE_UNVERIFIED", "FIRMWARE_TRANSFER_FAILED"}
  AbortedIsCanceled = TRUE
INVARIANTS
  CompletedUnlessMistaken
  RecordIsHonest
  CancelStopsTransmission
  DeviceHasOneUser
CHECK_DEADLOCK FALSE

\* Every fault, with a printer that may lose power behind an open handle.
SPECIFICATION FairSpec
CONSTANTS
  Versions = {expected, other}
  NoVersion = none
  ExpectedVersion = expected
  Unread = unread
  MaxAttempts = 3
  ChunkBytes = 2
INVARIANTS
  HandleDiscipline
  ReadyIsVouched
  PrintReachesVerifiedPrinter
  UploadReachesBlankPrinter
  TransferResultIsHonest
PROPERTIES
  ImplementsContract
  CallsReturn

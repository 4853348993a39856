SPECIFICATION FairSpec
CONSTANTS
  Unreliable <- NoCommand
  Divisible <- Creation
  Deaf <- NothingUnseen
  Collisions <- NoCollision
  Operations <- InOut
  Again = "uninstall"
  MaxRuns = 1
PROPERTIES
  UninstallConverges
CHECK_DEADLOCK FALSE

\* Five operations on a Mac where somebody else may hold any of our names.
SPECIFICATION FairSpec
CONSTANTS
  Unreliable <- AllButOverride
  Divisible <- AnyPart
  Deaf <- NothingUnseen
  Collisions <- AnyCollision
  Operations <- AllOperations
  Again = "uninstall"
  MaxRuns = 5
INVARIANTS
  TypeOK
  ReportIsTrue
PROPERTIES
  ForeignUntouched
  RemovalStaysPossible
  RemovalConverges
CHECK_DEADLOCK FALSE

\* Three transactions in every order of failures, crashes and restarts.
SPECIFICATION FairSpec
CONSTANTS
  MaxRuns = 3
  Unreliable <- AllUnreliable
  Meanwhile = {"disable"}
INVARIANTS
  EnabledIsWhole
  GateFollowsJournal
  NothingLost
PROPERTIES
  NoJobOverwritten
  OutcomeIsTrue
  PendingRecovers

\* A journal no recovery can finish.
SPECIFICATION FairSpec
CONSTANTS
  MaxRuns = 2
  Unreliable <- AllUnreliable
  Meanwhile = {}
PROPERTIES
  PendingAlwaysRecovers

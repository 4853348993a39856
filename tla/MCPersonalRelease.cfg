\* Two runs for one version, one unexpected event.
SPECIFICATION FairSpec
CONSTANTS
  Commits = {c1, c2}
  Builds = {r1, r2}
  Merged = {c1}
  None = none
  Scopes <- MCScopes
  Scenarios <- MCScenarios
  Content <- MCContent
  Affected <- MCAffected
  Versions = {"v1"}
  Version <- MCVersion
  MaxChanges = 1
INVARIANTS
  TaggedIsBacked
  RecordsAreTrue
  ExpiredIsRefused
PROPERTIES
  ReleasesAreImmutable
  FailedIsFinal
  PromotionResumes

SPECIFICATION FairSpec
CONSTANTS
  None = None
  Files <- MCFiles
  Builds <- MCBuilds
INVARIANTS
  TypeOK
  AvailabilityIsHonest
  CountsAgree
  DecisionsAgree
  OnlyDetectorTakesSides
  EditingHistoryIsFounded
  AnalyzersIsolated
  GapsAreReported
  DocumentAgrees
PROPERTIES RunIsAnExecution ScansEnd

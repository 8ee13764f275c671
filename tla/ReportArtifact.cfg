\* Two callers that submit the same scan: its pipeline is started up to twice,
\* under up to two faults of every kind.
SPECIFICATION SpecReport
CONSTANTS
  s1 = s1
  s2 = s2
  t1 = t1
  t2 = t2
  w1 = w1
  w2 = w2
  Scans = {s1}
  Workers = {w1, w2}
  Triggers = {t1, t2}
  MayTrigger <- MCRacingTriggers
  StageCount = 2
  Registered = {1, 2}
  RowsOf <- MCAllRows
  CreatedAt <- MCCreatedAt
  Free = Free
  NoScan = NoScan
  FaultKinds = {"database", "ack", "stop", "hang"}
  MaxFaults = 2
  ReportStage = 2
  MaxRuns = 2
INVARIANTS
  TypeOKReport
  PipelinesExclude
  ReportMatchesOutcome
  ResidueIsBoundedByFaults
PROPERTY PublishesWhatIsStored

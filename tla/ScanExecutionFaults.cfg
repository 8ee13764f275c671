\* Two workers, a caller per scan, every kind of fault, at most two of them.
SPECIFICATION FairSpec
CONSTANTS
  s1 = s1
  s2 = s2
  t1 = t1
  t2 = t2
  w1 = w1
  w2 = w2
  Scans = {s1, s2}
  Workers = {w1, w2}
  Triggers = {t1, t2}
  MayTrigger <- MCOwnTrigger
  StageCount <- MCStageCount
  Registered <- MCRegistered
  RowsOf <- MCRowsOf
  CreatedAt <- MCCreatedAt
  Free = Free
  NoScan = NoScan
  FaultKinds = {"database", "ack", "stop", "hang"}
  MaxFaults = 2
INVARIANTS
  TypeOK
  AtMostOneExecutor
  OutcomeIsConsistent
  FaultsStrandAtMostOneEach
PROPERTIES
  ImplementsLifecycle
  QueuedScansFinish

\* Two callers that submit the same scan: it is claimed twice.
SPECIFICATION Spec
CONSTANTS
  s1 = s1
  s2 = s2
  t1 = t1
  t2 = t2
  w1 = w1
  w2 = w2
  Scans = {s1}
  Workers = {w1, w2}
  Triggers = {t1, t2}
  MayTrigger <- MCRacingTriggers
  StageCount <- MCStageCount
  Registered <- MCRegistered
  RowsOf <- MCRowsOf
  CreatedAt <- MCCreatedAt
  Free = Free
  NoScan = NoScan
  FaultKinds = {}
  MaxFaults = 0
INVARIANT AtMostOneExecutor

\* Two uploads of anything; up to two faults of every kind.
SPECIFICATION FairSpec
CONSTANTS
  u1 = u1
  u2 = u2
  Uploads = {u1, u2}
  Inputs <- MCInputs
  ChunkSize <- MCChunkSize
  Limit <- MCLimit
  FaultKinds = {"io", "database", "ack", "cancel", "crash"}
  MaxFaults = 2
INVARIANTS
  TypeOK
  
  AcknowledgedIsDurable
  RowsAreVerified
  ResidueIsAccountedFor
PROPERTIES
  PersistBeforeCommit
  UploadsEnd
CHECK_DEADLOCK FALSE

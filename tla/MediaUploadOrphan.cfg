\* A cancelled request, no crash: a file without a row.
SPECIFICATION Spec
CONSTANTS
  u1 = u1
  u2 = u2
  Uploads = {u1, u2}
  Inputs <- MCImages
  ChunkSize <- MCChunkSize
  Limit <- MCLimit
  FaultKinds = {"cancel"}
  MaxFaults = 1
INVARIANT OrphanOnlyByCrash
CHECK_DEADLOCK FALSE

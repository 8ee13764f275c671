\* Good and corrupt images, no fault at all.
SPECIFICATION Spec
CONSTANTS
  u1 = u1
  u2 = u2
  Uploads = {u1, u2}
  Inputs <- MCParsed
  ChunkSize <- MCChunkSize
  Limit <- MCLimit
  FaultKinds = {}
  MaxFaults = 0
INVARIANT CorruptIsInvalid
CHECK_DEADLOCK FALSE

\* One client, pages of one or two of three scans, of any status or
\* COMPLETED ones.
SPECIFICATION Spec
CONSTANTS
  s1 = s1
  s2 = s2
  s3 = s3
  Scans = {s1, s2, s3}
  StageCount = 1
  Registered = {1}
  RowsOf <- MCRowsOf
  CreationTimes <- MCCreationTimes
  TieOrders <- MCTieOrders
  PageSizes = {1, 2}
  Filters = {NoFilter, "COMPLETED"}
  NoScan = NoScan
  NoFilter = NoFilter
INVARIANTS
  TypeOK
  DetailIsConsistent
  WalkIsComplete
  AnnouncedPagesReach

SPECIFICATION FairSpec
CONSTANTS
  None = None
  Files <- MCFiles
  Builds <- MCBuilds
INVARIANT ReportShowsCompletion

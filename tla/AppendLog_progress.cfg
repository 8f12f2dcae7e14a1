CONSTANTS
  MaxRecords = 2
  MaxGens = 2
  MaxRefs = 1
  MaxRewrites = 2
  MaxFailures = 1
  MaxCrashes = 0
  TornWrites = FALSE
  LateRewrite = FALSE
  Corrupt = Corrupt
  Torn = Torn
  NoTail = NoTail
SPECIFICATION FairSpec
INVARIANTS NothingDropped
PROPERTIES FlushReportsDurable EventuallyWritten
CHECK_DEADLOCK FALSE

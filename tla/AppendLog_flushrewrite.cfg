CONSTANTS
  MaxRecords = 2
  MaxGens = 1
  MaxRefs = 0
  MaxRewrites = 1
  MaxFailures = 0
  MaxCrashes = 0
  TornWrites = FALSE
  LateRewrite = FALSE
  Corrupt = Corrupt
  Torn = Torn
  NoTail = NoTail
SPECIFICATION Spec
INVARIANTS FlushedIsDurable
CHECK_DEADLOCK FALSE

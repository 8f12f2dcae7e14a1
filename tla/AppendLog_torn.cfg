CONSTANTS
  MaxRecords = 2
  MaxGens = 1
  MaxRefs = 0
  MaxRewrites = 0
  MaxFailures = 0
  MaxCrashes = 1
  TornWrites = TRUE
  LateRewrite = FALSE
  Corrupt = Corrupt
  Torn = Torn
  NoTail = NoTail
SPECIFICATION Spec
INVARIANTS LogReadable
CHECK_DEADLOCK FALSE

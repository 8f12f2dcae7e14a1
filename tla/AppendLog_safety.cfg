CONSTANTS
  MaxRecords = 3
  MaxGens = 2
  MaxRefs = 1
  MaxRewrites = 1
  MaxFailures = 1
  MaxCrashes = 1
  TornWrites = TRUE
  LateRewrite = TRUE
  Corrupt = Corrupt
  Torn = Torn
  NoTail = NoTail
SPECIFICATION Spec
INVARIANTS TypeOK OneStorageOperation OrderedOnce HandoffOrder
CHECK_DEADLOCK FALSE

CONSTANTS
  Keys = {a, b}
  Writers = {w1, w2}
  Batches = FALSE
  MaxCommits = 3
  MaxCompactions = 1
  MaxPasses = 1
  MaxFaults = 1
  DiskFailures = FALSE
  Overlapped = TRUE
  EarlyAppend = FALSE
  CompactUnopened = FALSE
  None = None
SPECIFICATION Spec
INVARIANT AckedSurvive
SYMMETRY Symmetry
CHECK_DEADLOCK FALSE

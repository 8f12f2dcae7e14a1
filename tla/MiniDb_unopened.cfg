CONSTANTS
  Keys = {a, b}
  Writers = {w1}
  Batches = FALSE
  MaxCommits = 2
  MaxCompactions = 3
  MaxPasses = 1
  MaxFaults = 1
  DiskFailures = FALSE
  Overlapped = FALSE
  EarlyAppend = FALSE
  CompactUnopened = TRUE
  None = None
SPECIFICATION Spec
INVARIANT AckedSurvive
SYMMETRY Symmetry
CHECK_DEADLOCK FALSE

CONSTANTS
  Keys = {a, b}
  Writers = {w1, w2}
  Batches = FALSE
  MaxCommits = 3
  MaxCompactions = 1
  MaxPasses = 1
  MaxFaults = 0
  DiskFailures = FALSE
  Overlapped = FALSE
  EarlyAppend = FALSE
  CompactUnopened = FALSE
  None = None
SPECIFICATION Spec
INVARIANT NeverDiverges
SYMMETRY Symmetry
CHECK_DEADLOCK FALSE

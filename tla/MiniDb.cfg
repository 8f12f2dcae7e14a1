CONSTANTS
  Keys = {a, b}
  Writers = {w1, w2}
  Batches = FALSE
  MaxCommits = 3
  MaxCompactions = 2
  MaxPasses = 1
  MaxFaults = 1
  DiskFailures = FALSE
  Overlapped = FALSE
  EarlyAppend = FALSE
  CompactUnopened = FALSE
  None = None
SPECIFICATION Spec
INVARIANTS AckedSurvive PointersRead MemoryIsDurable NobodyLeftParked
SYMMETRY Symmetry
CHECK_DEADLOCK FALSE

SPECIFICATION FairSpec
CONSTANTS
  MaxPrompts = 2
  MaxOthers = 0
  MaxCompactions = 1
PROPERTIES LaunchesAfterCompaction
CHECK_DEADLOCK FALSE

SPECIFICATION FairSpec
CONSTANTS
  SenderKinds = {"prompt", "steer"}
  MaxSent = 2
  MaxConts = 0
  MaxSteps = 0
  MaxAttempts = 1
  MaxLeases = 0
  MaxWaiters = 0
PROPERTIES SteersCarryOver
CHECK_DEADLOCK FALSE

SPECIFICATION FairSpec
CONSTANTS
  SenderKinds = {"prompt"}
  MaxSent = 1
  MaxConts = 0
  MaxSteps = 0
  MaxAttempts = 2
  MaxLeases = 0
  MaxWaiters = 0
PROPERTIES StepCancelKeepsTurn
CHECK_DEADLOCK FALSE

SPECIFICATION FairSpec
CONSTANTS
  SenderKinds = {"prompt", "steer"}
  MaxSent = 2
  MaxConts = 2
  MaxSteps = 2
  MaxAttempts = 2
  MaxLeases = 0
  MaxWaiters = 0
INVARIANTS TurnsLeaveNothing DeliveredOnce RunningIsCurrent
PROPERTIES TurnsEnd
CHECK_DEADLOCK FALSE

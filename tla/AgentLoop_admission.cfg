SPECIFICATION Spec
CONSTANTS
  SenderKinds = {"prompt", "steer", "stop_hook"}
  MaxSent = 3
  MaxConts = 0
  MaxSteps = 0
  MaxAttempts = 1
  MaxLeases = 1
  MaxWaiters = 1
INVARIANTS TypeOK LeaseExcludesTurns WaitersServed AssignmentsKept
PROPERTIES ImplementsTurnQueue
CHECK_DEADLOCK FALSE

CONSTANTS
  u1 = u1
  u2 = u2
  u3 = u3
  p1 = p1
  p2 = p2
  p3 = p3
  Users = {u1, u2, u3}
  Procs = {p1, p2, p3}
  Owner <- OwnProcess
  Stale = Stale
  NoLock = NoLock
  MaxAttempts = 2
  MaxCrashes = 1
  MaxFailures = 2
  BidDropped = FALSE
  ScanFails = FALSE
  LateRenew = FALSE
SPECIFICATION FairSpec
INVARIANTS OneHolder LockTellsTruth
PROPERTY TakeoverCompletes
CHECK_DEADLOCK FALSE

CONSTANTS
  u1 = u1
  u2 = u2
  u3 = u3
  p1 = p1
  p2 = p2
  p3 = p3
  Users = {u1, u2, u3}
  Procs = {p1, p2, p3}
  Owner <- SharedProcess
  Stale = Stale
  NoLock = NoLock
  MaxAttempts = 2
  MaxCrashes = 1
  MaxFailures = 1
  BidDropped = FALSE
  ScanFails = FALSE
  LateRenew = FALSE
SPECIFICATION LockSpec
INVARIANT OneHolder
CHECK_DEADLOCK FALSE

SPECIFICATION Spec
CONSTANTS
  Ids = {1, 2}
  sessionTimeout = 0
  sessionLifetime = 2
  CleanupInterval = 1
  MaxTime = 3
  MaxFaults = 1
PROPERTIES ZeroIsNoLimit
CHECK_DEADLOCK FALSE

CONSTANTS
  N = 2
  t1 = t1
  t2 = t2
  t3 = t3
  Tasks = {t1, t3}
  NoTask = NoTask
  Priority <- MCPriority
  Stamp <- MCStamp
  RestartRunning = FALSE
  MaxCalls = 3
  MaxSpurious = 0
SPECIFICATION FairSpec
PROPERTIES ReadyIsCompleted CallsReturn
CHECK_DEADLOCK FALSE

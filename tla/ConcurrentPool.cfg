CONSTANTS
  N = 2
  t1 = t1
  t2 = t2
  t3 = t3
  Tasks = {t1, t3}
  NoTask = NoTask
  Priority <- MCPriority
  Stamp <- MCStamp
  RestartRunning = FALSE
  MaxCalls = 3
  MaxSpurious = 1
SPECIFICATION Spec
INVARIANTS EachTaskInOnePlace NoLostCompletion NoLostWakeup
PROPERTIES OutcomeSettled ImplementsService
CHECK_DEADLOCK FALSE

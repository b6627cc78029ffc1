SPECIFICATION MCSpec
CONSTANTS
  Clients = {1, 2}
  Workers = {1, 2}
  maxConnections = 1
  MaxStarts = 1
  DirectJoin = FALSE
  Bits = 3
  Ids = {1, 2}
  sessionTimeout = 1
  sessionLifetime = 2
  CleanupInterval = 1
  MaxDate = 2
  MaxFaults = 1
  Users = {u}
  Groups = {g}
  Paths <- MCPaths
  Docs <- MCDocs
  Size = 3
  Width = 16
  MaxTime = 6
  MaxEvents = 4
  MaxBack = 1
  MaxResets = 1
INVARIANTS OneHolder Attended SharedOnlyLate ContainsMembers CleanIsSaved AllowIsCurrent RateIsAverage
PROPERTIES ProcessedEventually JoinReturns SavedAtOnce
CHECK_DEADLOCK FALSE

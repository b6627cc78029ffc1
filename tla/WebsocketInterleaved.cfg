SPECIFICATION Spec
CONSTANTS
  Scripts <- Interleaved
  Batching = FALSE
  MaxBody = 2
  MaxSends = 1
INVARIANTS MessagesAsSent
CHECK_DEADLOCK FALSE

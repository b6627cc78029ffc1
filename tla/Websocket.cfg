SPECIFICATION FairSpec
CONSTANTS
  Scripts <- Orderly
  Batching = FALSE
  MaxBody = 2
  MaxSends = 1
INVARIANTS MessagesArrive
PROPERTIES ClosingHandshake PingAnswered
CHECK_DEADLOCK FALSE

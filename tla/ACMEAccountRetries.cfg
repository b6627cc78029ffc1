SPECIFICATION Spec
CONSTANTS
  NumCerts = 2
  MaxAuths = 1
  RetryLimits = {1}
  Servers = {"orderly"}
INVARIANTS RetriesBounded
CHECK_DEADLOCK FALSE

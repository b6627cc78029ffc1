SPECIFICATION Spec
CONSTANTS
  Reqs = {r1, r2, r3}
  MaxRetries = 1
  Customs = {{"reenter"}}
INVARIANTS ResponsesMatch
CHECK_DEADLOCK FALSE

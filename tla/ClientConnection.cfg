SPECIFICATION FairSpec
CONSTANTS
  Reqs = {r1, r2, r3}
  MaxRetries = 1
  Customs = {{"continue"}, {"cancel"}, {"reenter"}, {"resubmit"}}
INVARIANTS SettledOnce WrittenOnce Watched
PROPERTIES Answered
CHECK_DEADLOCK FALSE

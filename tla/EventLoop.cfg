SPECIFICATION MCSpec
CONSTANTS
  Clients = {c1, c2, c3, c4}
  MaxConnections = 2
  MaxTTL = TRUE
  Evicting = TRUE
  Addresses = 1
  Requests <- KeepAlive
  Manners = {{}, {"pipeline"}, {"split"}}
  Handlers = {"reply", "later", "chunked", "raise", "refuse", "decline"}
  MaxBody = 2
  MaxHeader = 0
  Answers <- MCAnswers
  Retry = 3
  MaxCalls = 3
  MaxData = 3
INVARIANTS AcceptsWithRoom WholeLinesParsed NothingUnread AnswersInOrder AssertionsHold ResultsShown Delivered
PROPERTIES BacklogServed Answered Ended Prompt
CHECK_DEADLOCK FALSE

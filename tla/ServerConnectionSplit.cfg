SPECIFICATION Spec
CONSTANTS
  Scripts <- Plain
  Manners = {{"split"}}
  Handlers = {"reply", "later", "chunked", "raise", "refuse"}
  MaxBody = 2
  MaxHeader = 0
INVARIANTS ParsedAsSent
CHECK_DEADLOCK FALSE

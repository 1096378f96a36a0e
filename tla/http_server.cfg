CONSTANTS
  c1 = c1
  c2 = c2
  c3 = c3
  Clients = {c1, c2, c3}
  NoClient = NoClient
  Keeping = {c1}
  Methods = {"GET", "HEAD"}
  Supported = {"GET"}
  NotAllowed = NotAllowed
  MAX_CLIENTS = 2
  MAX_REQUESTS = 2
  FD_LIMIT = 7
SPECIFICATION FairSpec
INVARIANTS
  
  AnswersInOrder
PROPERTIES
  
  CloseNoticed
CHECK_DEADLOCK FALSE

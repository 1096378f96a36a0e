CONSTANTS
  c1 = c1
  c2 = c2
  c3 = c3
  c4 = c4
  Clients = {c1, c2, c3, c4}
  NoClient = NoClient
  MAX_CLIENTS = 2
  MESSAGE_INTERVAL = 2
  MAX_STEP = 2
  ROOM = 1
  FD_LIMIT = 8
  Leaving = {c1}
SPECIFICATION FairSpec
INVARIANTS
  ReadyIsCurrent
  SlotsAreUsed
  SentInTime
PROPERTIES
  InfoKeepsComing
CHECK_DEADLOCK FALSE

CONSTANTS
  c1 = c1
  c2 = c2
  c3 = c3
  Clients = {c1, c2, c3}
  NoClient = NoClient
  Manual = {c3}
  ManualLines = {"USER", "PASS", "PORT", "BADPORT"}
  Crashing = {c3}
  Paced = TRUE
  DATA_BACKLOG = 1
  MAX_LINES = 4
  FD_LIMIT = 7
SPECIFICATION FairSpec
INVARIANTS
  OwnDescriptors
  DescriptorsReleased
  NobodyWaitsInVain
PROPERTIES
  ClientsAreServed
  SessionEnds
CHECK_DEADLOCK FALSE

CONSTANTS
  c1 = c1
  c2 = c2
  c3 = c3
  Clients = {c1}
  NoClient = NoClient
  Manual = {}
  ManualLines = {"USER", "PASS", "PORT", "BADPORT"}
  Crashing = {}
  Paced = FALSE
  DATA_BACKLOG = 1
  MAX_LINES = 4
  FD_LIMIT = 7
SPECIFICATION FairSpec
PROPERTIES
  ListIsAnswered
CHECK_DEADLOCK FALSE

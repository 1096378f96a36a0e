CONSTANTS
  c1 = c1
  c2 = c2
  Clients = {c1, c2}
  NoClient = NoClient
  Summands = {1, 2}
  RES_DATA = 3
  INT_HALF = 4
  BUFFER_UNITS = 2
  BACKLOG = 1
  MAX_SENDS = 2
  Crashing = {c2}
  Paced = TRUE
  MAX_CLIENT_SUPPORTED = 4
  FD_LIMIT = 7
  ConsoleInput = {}
SPECIFICATION SumSpec
INVARIANTS
  SumInv
  PacedAnswerIsSum
PROPERTIES
  RequestEnds
  ImplementsService
CHECK_DEADLOCK FALSE

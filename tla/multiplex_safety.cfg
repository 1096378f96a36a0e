CONSTANTS
  c1 = c1
  c2 = c2
  c3 = c3
  Clients = {c1, c2, c3}
  NoClient = NoClient
  Summands = {1}
  RES_DATA = 3
  INT_HALF = 2
  BUFFER_UNITS = 2
  BACKLOG = 1
  MAX_SENDS = 1
  Crashing = {c1, c2, c3}
  Paced = FALSE
  MAX_CLIENT_SUPPORTED = 4
  FD_LIMIT = 6
  ConsoleInput = {"line", "eof"}
SPECIFICATION Spec
SYMMETRY ClientSymmetry
INVARIANTS
  OwnSumOnly
  ScanNeverBlocks
  NotCutOff
  IInv
CHECK_DEADLOCK FALSE

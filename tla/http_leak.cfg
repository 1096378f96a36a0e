CONSTANTS
  c1 = c1
  c2 = c2
  c3 = c3
  Clients = {c1, c2, c3}
  NoClient = NoClient
  Keeping = {}
  Methods = {"GET"}
  Supported = {"GET"}
  NotAllowed = NotAllowed
  MAX_CLIENTS = 2
  MAX_REQUESTS = 1
  FD_LIMIT = 7
SPECIFICATION Spec
INVARIANTS
  RoomForConnected
CHECK_DEADLOCK FALSE

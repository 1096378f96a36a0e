CONSTANTS
  v1 = v1
  u1 = u1
  u2 = u2
  r0 = r0
  r1 = r1
  r2 = r2
  bad = bad
  d = d
  Routes = {r0, r1, r2, bad}
  Destinations = {d}
  destination <- OneDestination
  NoRoute = NoRoute
  NoClient = NoClient
  FirstRoute = r0
  Garbled = bad
  Viewers = {v1}
  Updaters = {u1, u2}
  Offered = {r1, r2}
  TextLength <- TwoLengths
  MAX_TEXT = 2
  ConsoleLengths = {1}
  MAX_SENDS = 1
  Leaving = {u1}
  MAX_CLIENT_SUPPORTED = 4
  FD_LIMIT = 7
  MAX_ROUTE_TABLE_ENTRY = 3
  BACKLOG = 1
SPECIFICATION FairSpec
INVARIANTS
  RoutingInv
  
  MonitoredAreUpToDate
  NobodyDropped
PROPERTIES
  ViewersCatchUp
  
CHECK_DEADLOCK FALSE

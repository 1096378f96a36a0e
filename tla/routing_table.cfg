CONSTANTS
  r1 = r1
  r2 = r2
  r3 = r3
  r4 = r4
  d1 = d1
  d2 = d2
  Routes = {r1, r2, r3, r4}
  Destinations = {d1, d2}
  destination <- TwoDestinations
  NoRoute = NoRoute
  MAX_ROUTE_TABLE_ENTRY = 4
SPECIFICATION TableSpec
PROPERTIES
  ImplementsBag

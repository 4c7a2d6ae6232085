SPECIFICATION Spec
CONSTANTS
  Requests = {r1, r2, r3, r4}
  Vehicles = {v1, v2}
  Imeis = {m1, m2}
  MaxIds = 4
  MaxFailures = 1
  MaxInFlight = 2
  MaxStops = 2
SYMMETRY Interchangeable
CHECK_DEADLOCK FALSE
INVARIANTS TypeOK DevicesLive RoutingFollowsRows ListsWhole StopsFenced

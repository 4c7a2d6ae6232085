SPECIFICATION Spec
CONSTANTS
  Vehicles = {v1, v2}
  Drivers = {}
  Loaders = {boot, timer}
  Boot = boot
  Requests = {}
  MaxDay = 1
  MaxInFlight = 2
  MaxLeg = 1
  MaxPosition = 2
  MaxFailures = 1
SYMMETRY Interchangeable
CHECK_DEADLOCK FALSE
PROPERTY PositionsKept

SPECIFICATION Spec
CONSTANTS
  Vehicles = {v1}
  Drivers = {}
  Loaders = {boot, r1, r2, r3}
  Boot = boot
  Requests = {r1, r2, r3}
  MaxDay = 2
  MaxInFlight = 2
  MaxLeg = 2
  MaxPosition = 0
  MaxFailures = 1
SYMMETRY Interchangeable
CHECK_DEADLOCK FALSE
INVARIANTS TypeOK NumbersConsecutive 

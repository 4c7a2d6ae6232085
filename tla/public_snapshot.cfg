SPECIFICATION Spec
CONSTANTS
  Vehicles = {v1, v2}
  Drivers = {d1}
  MaxMessages = 2
  MaxChanges = 1
  MaxClients = 1
  MaxTroubles = 0
  MaxOutages = 0
CHECK_DEADLOCK FALSE
INVARIANT DispatchedOnly

SPECIFICATION FairSpec
CONSTANTS
  Vehicles = {v1, v2}
  Drivers = {d1}
  MaxMessages = 2
  MaxChanges = 1
  MaxClients = 1
  MaxTroubles = 1
  MaxOutages = 1
CHECK_DEADLOCK FALSE
INVARIANTS TypeOK OneAttempt NothingMissed
PROPERTIES BackwardOnlyInBursts EventuallyConnected

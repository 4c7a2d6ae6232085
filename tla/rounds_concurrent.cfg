SPECIFICATION Spec
CONSTANTS
  Requests = {r1, r2, r3, r4}
  Kinds <- AllKinds
  MaxInFlight = 4
  Failures = TRUE
SYMMETRY Interchangeable
INVARIANTS TypeOK NeverStranded OpenRoundsBounded NumbersShared
PROPERTY ReopenedOnlyStale

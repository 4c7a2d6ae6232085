SPECIFICATION Spec
CONSTANTS
  Requests = {r1, r2, r3, r4, r5, r6}
  Kinds <- AllKinds
  MaxInFlight = 1
  Failures = FALSE
SYMMETRY Interchangeable
INVARIANT ClosedHasNoOpenRound
PROPERTY ImplementsDispatchDay

SPECIFICATION Spec
CONSTANTS
  Infractions = {i1, i2}
  Requests = {r1, r2, r3}
  Kinds <- AllKinds
  MaxBatch = 2
  MaxInFlight = 3
  SequenceSeeded = TRUE
  NULL = NULL
SYMMETRY Interchangeable
INVARIANTS TypeOK ReceiptsConsecutive LinksResolve OwedUncharged
PROPERTIES ImplementsReceiptBook SettledTogether RechargedOnlyAnnulled

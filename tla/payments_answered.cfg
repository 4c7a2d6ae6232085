SPECIFICATION FairSpec
CONSTANTS
  Infractions = {i1, i2}
  Requests = {r1, r2}
  Kinds <- AllKinds
  MaxBatch = 2
  MaxInFlight = 2
  SequenceSeeded = FALSE
  NULL = NULL
PROPERTY AllAnswered

SPECIFICATION Spec
CONSTANTS
  Requests = {r1, r2}
  Jobs = {j1}
  c1 = c1
  c2 = c2
  back = back
  out1 = out1
  out2 = out2
  end = end
  Checkpoints <- ThreeCheckpoints
  StartStops <- TwoStarts
  EndStops = {end}
  OnRoute <- TheRoute
  OnWay <- TheWay
  Planned <- AtDeparture
  Times = {0, 1}
  Lists <- SomeLists
  MaxInFlight = 1
  MaxAttempts = 2
  Crossings <- PassedBy
CHECK_DEADLOCK FALSE
INVARIANT TypeOK
PROPERTIES AuditLeavesNoTentative AuditChargesEachDelay EventuallyAudited ImplementsStopMark

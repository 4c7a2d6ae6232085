SPECIFICATION Spec
CONSTANTS
  Requests = {r1, r2}
  Jobs = {j1}
  c1 = c1
  c2 = c2
  back = back
  out1 = out1
  out2 = out2
  end = end
  Checkpoints = {c1}
  StartStops = {out1}
  EndStops = {end}
  OnRoute <- ShortWay
  OnWay <- ShortWay
  Planned <- AtDeparture
  Times = {0, 1}
  Lists <- FewLists
  MaxInFlight = 2
  MaxAttempts = 2
  Crossings <- PassedBy
SYMMETRY AnyRequest
CHECK_DEADLOCK FALSE
INVARIANT MarksPerStop
PROPERTY SettledForGood

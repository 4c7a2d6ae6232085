---------------------------- MODULE DispatchDay ----------------------------
(***************************************************************************)
(* The working day of one vehicle as its dispatcher sees it: trips that    *)
(* alternate between the two directions, one at a time, each of which      *)
(* waits at the terminal, runs and arrives, until the day is closed.       *)
(* RoundLifecycle implements it when its requests do not overlap.          *)
(***************************************************************************)
EXTENDS Naturals

VARIABLES trip,      \* number of the current trip
          direction, \* its direction
          phase,     \* "PENDING", "IN_PROGRESS", or "DONE" after the close
          closed     \* has the day been closed?

dayVars == <<trip, direction, phase, closed>>

Opposite(d) == IF d = "IDA" THEN "VUELTA" ELSE "IDA"

DayInit == trip = 1 /\ direction = "IDA" /\ phase = "PENDING" /\ ~closed

Depart ==
  /\ ~closed
  /\ phase = "PENDING"
  /\ phase' = "IN_PROGRESS"
  /\ UNCHANGED <<trip, direction, closed>>

Arrive ==
  /\ ~closed
  /\ phase = "IN_PROGRESS"
  /\ phase' = "PENDING"
  /\ trip' = trip + 1
  /\ direction' = Opposite(direction)
  /\ UNCHANGED closed

Close ==
  /\ ~closed
  /\ closed' = TRUE
  /\ phase' = "DONE"
  /\ UNCHANGED <<trip, direction>>

DayNext == Depart \/ Arrive \/ Close

DaySpec == DayInit /\ [][DayNext]_dayVars
=============================================================================

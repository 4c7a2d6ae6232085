------------------------------ MODULE StopMark ------------------------------
(***************************************************************************)
(* What one round promises of the record of its stops: an arrival is       *)
(* written once, by the driver's app or by the satellite; the satellite    *)
(* may correct the hour the app wrote; and once an hour is the satellite's *)
(* it stands.                                                              *)
(***************************************************************************)
EXTENDS Naturals

CONSTANTS Stops, Times

VARIABLE record  \* what is known of the arrival at each stop

None      == [by |-> "nobody", time |-> 0]
Arrivals  == [by : {"app", "satellite"}, time : Times]

StopMarkInit == record = [s \in Stops |-> None]

\* Several stops may be recorded at once: the app reports in lists.
RecordOrRectify ==
  /\ record' \in [Stops -> Arrivals \cup {None}]
  /\ \A s \in Stops : \/ record'[s] = record[s]
                      \/ record[s].by = "nobody"
                      \/ record[s].by = "app" /\ record'[s].by = "satellite"

StopMarkSpec == StopMarkInit /\ [][RecordOrRectify]_record
=============================================================================

---------------------- MODULE TraccarProvisioningProofs ----------------------
(***************************************************************************)
(* What TraccarProvisioning guarantees of the stops of the route, for any  *)
(* requests, vehicles and bounds; and the typing of its requests, which    *)
(* the proofs about the devices of the vehicles build upon.                *)
(***************************************************************************)
EXTENDS TraccarProvisioning, SequenceTheorems, FiniteSetTheorems, TLAPS

Ids      == 1 .. MaxIds
RouteRow == [active : BOOLEAN, group : 0 .. MaxIds, there : BOOLEAN]

\* The work of a request for a vehicle, and of one for the route.
VehicleJob == [op : VehicleOps, vehicle : Vehicles, old : Row \cup {NoRow}, new : Row]
RouteWork  == [op : RouteOps, direction : Directions, list : Seq(0 .. MaxIds), new : RouteRow,
               seen : SUBSET Requests, todo : SUBSET Ids, known : SUBSET Ids, made : Seq(Ids)]

\* Traccar is asked for a device with an identifier.
Asks(label, j) == label \in {"check", "create"} => j.new.imei \in Imeis

\* How far the loop over the list of stops has come.
Progress(label, j) ==
  /\ Len(j.list) <= MaxStops
  /\ Len(j.made) <= Len(j.list)
  /\ label \in {"group", "update", "clear", "known"} => j.made = <<>>
  /\ label = "fence" => Len(j.made) < Len(j.list)
  /\ label = "link" => Len(j.made) > 0

\* What a request at a label works with.
Fits(label, j) ==
  \/ label = "done" /\ j = NoJob
  \/ label \notin {"idle", "done"} /\ j \in VehicleJob /\ Asks(label, j)
  \/ label \notin {"idle", "done"} /\ j \in RouteWork /\ Progress(label, j)

JobsTyped ==
  /\ DOMAIN pc = Requests /\ DOMAIN job = Requests
  /\ \A r \in Requests : (pc[r] = "idle" /\ job[r] = NoJob) \/ Fits(pc[r], job[r])

TInv == TypeOK /\ JobsTyped

-----------------------------------------------------------------------------
\* A request goes to a label with its work; the others stay where they are.
Moves(r, label, j) ==
  /\ DOMAIN pc' = Requests /\ DOMAIN job' = Requests
  /\ pc'[r] = label /\ job'[r] = j
  /\ \A q \in Requests \ {r} : pc'[q] = pc[q] /\ job'[q] = job[q]

LEMMA MovesTyped ==
  ASSUME JobsTyped, NEW r \in Requests, NEW label, NEW j, Moves(r, label, j), Fits(label, j)
  PROVE  JobsTyped'
BY DEF JobsTyped, Moves

\* What the handlers do with their own place and work.
LEMMA GotoMoves ==
  ASSUME JobsTyped, NEW r \in Requests, NEW label, Goto(r, label)
  PROVE  /\ UNCHANGED job => Moves(r, label, job[r])
         /\ \A j : job' = [job EXCEPT ![r] = j] => Moves(r, label, j)
BY DEF JobsTyped, Goto, Moves

LEMMA FinishMoves ==
  ASSUME JobsTyped, NEW r \in Requests, Finish(r)
  PROVE  Moves(r, "done", NoJob) /\ JobsTyped'
<1>1. Moves(r, "done", NoJob)
  BY DEF JobsTyped, Finish, Goto, Moves
<1>2. Fits("done", NoJob)
  BY DEF Fits
<1> QED BY <1>1, <1>2, MovesTyped

\* What a request at work works with.
LEMMA WorkTyped ==
  ASSUME JobsTyped, NEW r \in Requests, pc[r] \notin {"idle", "done"}
  PROVE  /\ r \in Running
         /\ IsVehicleJob(r) => job[r] \in VehicleJob /\ Asks(pc[r], job[r])
         /\ IsRouteJob(r) => job[r] \in RouteWork /\ Progress(pc[r], job[r])
         /\ IsVehicleJob(r) \/ IsRouteJob(r)
         /\ ~(IsVehicleJob(r) /\ IsRouteJob(r))
BY DEF JobsTyped, Fits, Running, IsVehicleJob, IsRouteJob, VehicleJob, RouteWork, VehicleOps, RouteOps

\* Requests that are not at work have none.
LEMMA RunningFacts ==
  ASSUME JobsTyped
  PROVE  \A r \in Running : r \in Requests /\ pc[r] \notin {"idle", "done"}
BY DEF Running

-----------------------------------------------------------------------------
(* The calls of TraccarProvider, whatever their answer.                     *)

Call ==
  \/ Same
  \/ \E i \in Imeis : CreateDevice(i)
  \/ CreateGroup \/ CreateGeofence
  \/ \E d \in 0 .. MaxIds : DeleteDevice(d) \/ DeleteGroup(d) \/ DeleteGeofence(d)
  \/ \E g, f \in 0 .. MaxIds : LinkGeofenceToGroup(g, f)

Counted == Ok \/ Fails

LEMMA CallTyped == ApiTypeOK /\ Call /\ Counted => ApiTypeOK' /\ lastId <= lastId'
<1> SUFFICES ASSUME ApiTypeOK, Call, Counted PROVE ApiTypeOK' /\ lastId <= lastId'
  OBVIOUS
<1>0. MaxIds \in Nat /\ MaxFailures \in Nat
  BY ApiAssumptions
<1>1. failures' \in 0 .. MaxFailures
  BY <1>0 DEF ApiTypeOK, Counted, Ok, Fails
<1>2. ASSUME Draw PROVE lastId' \in 0 .. MaxIds /\ Fresh \in 1 .. MaxIds /\ lastId <= lastId'
  BY <1>0, <1>2 DEF ApiTypeOK, Draw, Fresh
<1>3. CASE Same
  BY <1>0, <1>1, <1>3 DEF ApiTypeOK, Same, traccar
<1>4. ASSUME NEW i \in Imeis, CreateDevice(i) PROVE ApiTypeOK' /\ lastId <= lastId'
  BY <1>1, <1>2, <1>4 DEF ApiTypeOK, CreateDevice
<1>5. CASE CreateGroup
  BY <1>1, <1>2, <1>5 DEF ApiTypeOK, CreateGroup
<1>6. CASE CreateGeofence
  BY <1>1, <1>2, <1>6 DEF ApiTypeOK, CreateGeofence
<1>7. ASSUME NEW d \in 0 .. MaxIds, DeleteDevice(d) \/ DeleteGroup(d) \/ DeleteGeofence(d)
      PROVE  ApiTypeOK' /\ lastId <= lastId'
  <2>1. CASE DeleteDevice(d)
    BY <1>0, <1>1, <2>1 DEF ApiTypeOK, DeleteDevice
  <2>2. CASE DeleteGroup(d)
    BY <1>0, <1>1, <2>2 DEF ApiTypeOK, DeleteGroup
  <2>3. CASE DeleteGeofence(d)
    BY <1>0, <1>1, <2>3 DEF ApiTypeOK, DeleteGeofence
  <2> QED BY <1>7, <2>1, <2>2, <2>3
<1>8. ASSUME NEW g \in 0 .. MaxIds, NEW f \in 0 .. MaxIds, LinkGeofenceToGroup(g, f)
      PROVE  ApiTypeOK' /\ lastId <= lastId'
  BY <1>0, <1>1, <1>8 DEF ApiTypeOK, LinkGeofenceToGroup
<1> QED BY <1>3, <1>4, <1>5, <1>6, <1>7, <1>8 DEF Call

-----------------------------------------------------------------------------
\* The rows a vehicle job carries.
LEMMA JobRows ==
  ASSUME VehicleTypeOK, NEW v \in Vehicles, NEW op \in VehicleOps, NEW s \in Statuses,
         NEW i \in Imeis \cup {NoImei}
  PROVE  LET j == Job(op, v, s, i)
         IN  [j EXCEPT !.new.device = KeptDevice(j)] =
               [op |-> op, vehicle |-> v, old |-> rows[v],
                new |-> [status |-> s, imei |-> i, device |-> KeptDevice(j)]]
             /\ [j EXCEPT !.new.device = KeptDevice(j)] \in VehicleJob
<1> DEFINE j == Job(op, v, s, i)
           d == KeptDevice(j)
           k == [op |-> op, vehicle |-> v, old |-> rows[v],
                 new |-> [status |-> s, imei |-> i, device |-> d]]
<1>1. rows[v] \in Row \cup {NoRow}
  BY DEF VehicleTypeOK
<1>2. rows[v].device \in 0 .. MaxIds /\ 0 \in 0 .. MaxIds
  BY <1>1, ApiAssumptions DEF Row, NoRow
<1>3. d \in 0 .. MaxIds
  BY <1>2 DEF KeptDevice, Job
<1>4. [j EXCEPT !.new.device = d] = k
  BY DEF Job
<1> HIDE DEF d
<1>5. k \in VehicleJob
  BY <1>1, <1>3 DEF VehicleJob, Row
<1> QED BY <1>4, <1>5 DEF d

\* What a request for a vehicle is to do.
Asked(k) ==
  /\ k \in VehicleJob
  /\ k.old = rows[k.vehicle] /\ k.new.device = KeptDevice(k)
  /\ k.op = "CREATE" <=> k.old = NoRow
  /\ k.op = "STATUS" => k.new.imei = IF Retires(k) THEN NoImei ELSE k.old.imei
  /\ k.op = "DELETE" => k.new.status = "BAJA" /\ k.new.imei = NoImei

LEMMA VehicleBegins ==
  ASSUME TInv, NEW r \in Requests, BeginVehicle(r)
  PROVE  /\ UNCHANGED <<traccar, failures, vehicleVars>>
         /\ pc[r] = "idle" /\ Room
         /\ \E k \in VehicleJob : Asked(k) /\ Moves(r, First(k), k)
<1>0. VehicleTypeOK /\ JobsTyped
  BY DEF TInv, TypeOK
<1> DEFINE Began(op, v, s, i) ==
             LET j == Job(op, v, s, i)
                 k == [j EXCEPT !.new.device = KeptDevice(j)]
             IN  k \in VehicleJob /\ Moves(r, First(j), k) /\ First(k) = First(j)
<1>1. ASSUME NEW op \in VehicleOps, NEW v \in Vehicles, NEW s \in Statuses,
             NEW i \in Imeis \cup {NoImei}, Begin(r, Job(op, v, s, i))
      PROVE  /\ UNCHANGED <<traccar, failures, vehicleVars>> /\ pc[r] = "idle" /\ Room
             /\ Began(op, v, s, i)
  <2> DEFINE j == Job(op, v, s, i)
             k == [j EXCEPT !.new.device = KeptDevice(j)]
  <2>1. k \in VehicleJob
    BY <1>0, JobRows
  <2>2. /\ pc[r] = "idle" /\ Room /\ job' = [job EXCEPT ![r] = k]
        /\ Goto(r, First(j)) /\ UNCHANGED <<traccar, failures, vehicleVars>>
    BY <1>1 DEF Begin
  <2>4. k = [op |-> op, vehicle |-> v, old |-> rows[v],
             new |-> [status |-> s, imei |-> i, device |-> KeptDevice(j)]]
    BY <1>0, JobRows
  <2>5. First(k) = First(j)
    BY <2>4 DEF First, DeviceGone, Retires, Reactivates, Job
  <2>6. Moves(r, First(j), k)
    <3> HIDE DEF j, k
    <3> QED BY <1>0, <2>2, GotoMoves
  <2> QED BY <2>1, <2>2, <2>5, <2>6
<1> HIDE DEF Began
<1>2. \E v \in Vehicles : BeginCreate(r, v) \/ BeginUpdate(r, v) \/ BeginStatus(r, v) \/ BeginDelete(r, v)
  BY DEF BeginVehicle
<1> DEFINE Sent(op, v, s, i) ==
             /\ Begin(r, Job(op, v, s, i))
             /\ (op = "CREATE") <=> (rows[v] = NoRow)
             /\ op = "STATUS" => i = IF s = "BAJA" /\ rows[v].status # "BAJA"
                                     THEN NoImei ELSE rows[v].imei
             /\ op = "DELETE" => s = "BAJA" /\ i = NoImei
           Some == \E op \in VehicleOps, v \in Vehicles, s \in Statuses, i \in Imeis \cup {NoImei} :
                     Sent(op, v, s, i)
<1>3. Some
  <2>1. \A v \in Vehicles : rows[v] # NoRow => rows[v].imei \in Imeis \cup {NoImei}
    BY <1>0 DEF VehicleTypeOK, Row
  <2>2. "BAJA" \in Statuses /\ {"CREATE", "UPDATE", "STATUS", "DELETE"} = VehicleOps
    BY DEF Statuses, VehicleOps
  <2>3. ASSUME NEW v \in Vehicles, BeginCreate(r, v) \/ BeginUpdate(r, v) PROVE Some
    BY <2>2, <2>3 DEF BeginCreate, BeginUpdate
  <2>4. ASSUME NEW v \in Vehicles, BeginStatus(r, v) PROVE Some
    <3>1. PICK s \in Statuses : Begin(r, Job("STATUS", v, s, IF s = "BAJA" /\ rows[v].status # "BAJA"
                                    THEN NoImei ELSE rows[v].imei))
      BY <2>4 DEF BeginStatus
    <3> DEFINE i == IF s = "BAJA" /\ rows[v].status # "BAJA" THEN NoImei ELSE rows[v].imei
    <3>2. i \in Imeis \cup {NoImei} /\ rows[v] # NoRow
      BY <2>1, <2>4 DEF BeginStatus
    <3> QED BY <2>2, <3>1, <3>2
  <2>5. ASSUME NEW v \in Vehicles, BeginDelete(r, v) PROVE Some
    BY <2>2, <2>5 DEF BeginDelete
  <2> QED BY <1>2, <2>3, <2>4, <2>5
<1>4. PICK op \in VehicleOps, v \in Vehicles, s \in Statuses, i \in Imeis \cup {NoImei} :
        Sent(op, v, s, i)
  BY <1>3
<1>5. /\ UNCHANGED <<traccar, failures, vehicleVars>> /\ pc[r] = "idle" /\ Room
      /\ Began(op, v, s, i)
  BY <1>1, <1>4
<1>6. \E k \in VehicleJob : Asked(k) /\ Moves(r, First(k), k)
  <2> DEFINE j == Job(op, v, s, i)
             k == [j EXCEPT !.new.device = KeptDevice(j)]
  <2>1. k = [op |-> op, vehicle |-> v, old |-> rows[v],
             new |-> [status |-> s, imei |-> i, device |-> KeptDevice(j)]]
    BY <1>0, JobRows
  <2>2. k \in VehicleJob /\ Moves(r, First(k), k)
    BY <1>5 DEF Began
  <2>3. KeptDevice(k) = KeptDevice(j) /\ (Retires(k) <=> s = "BAJA" /\ rows[v].status # "BAJA")
    BY <2>1 DEF KeptDevice, Retires, Job
  <2> HIDE DEF j
  <2>4. k.op = op /\ k.vehicle = v /\ k.old = rows[v] /\ k.new.status = s /\ k.new.imei = i
        /\ k.new.device = KeptDevice(j)
    BY <2>1
  <2> HIDE DEF k
  <2>5. Asked(k)
    BY <1>4, <2>2, <2>3, <2>4 DEF Asked
  <2> QED BY <2>2, <2>5
<1> QED BY <1>5, <1>6

\* The labels of a request at work.
LEMMA VehicleMoves ==
  ASSUME JobsTyped, NEW r \in Requests, NEW label, label \notin {"idle", "done"},
         NEW j \in VehicleJob, Asks(label, j), Moves(r, label, j)
  PROVE  JobsTyped'
<1>1. Fits(label, j)
  BY DEF Fits
<1> QED BY <1>1, MovesTyped

\* How the steps of a request for a vehicle, after its first, change tables and work.
LEMMA VehicleSteps ==
  ASSUME TInv, NEW r \in Requests, pc[r] \notin {"idle", "done"}, IsVehicleJob(r),
         \/ CheckDevice(r) \/ Register(r) \/ Uncache(r) \/ Drop(r) \/ SaveVehicle(r)
         \/ Cache(r) \/ CutOffVehicle(r)
  PROVE  /\ JobsTyped' /\ VehicleTypeOK' /\ Call /\ Counted
         /\ UNCHANGED <<groups, geofences, links>>
         /\ \/ Moves(r, "done", NoJob)
            \/ \E label \in {"check", "create", "uncache", "drop", "save", "cache"}, d \in 0 .. MaxIds :
                 /\ Moves(r, label, [job[r] EXCEPT !.new.device = d])
                 /\ d = job[r].new.device \/ pc[r] = "create"
                 /\ label \in {"check", "create"} => pc[r] = "check"
<1> DEFINE j == job[r]
<1>0. JobsTyped /\ VehicleTypeOK /\ ApiTypeOK /\ MaxIds \in Nat
  BY ApiAssumptions DEF TInv, TypeOK
<1>1. j \in VehicleJob /\ r \in Running /\ Asks(pc[r], j)
  BY <1>0, WorkTyped
<1>2. /\ j.vehicle \in Vehicles /\ j.new \in Row /\ j.new.device \in 0 .. MaxIds
      /\ j.old.device \in 0 .. MaxIds
      /\ \A d \in 0 .. MaxIds : [j EXCEPT !.new.device = d] \in VehicleJob
      /\ [j EXCEPT !.new.device = j.new.device] = j
  BY <1>0, <1>1 DEF VehicleJob, Row, NoRow
<1> DEFINE Labels == {"check", "create", "uncache", "drop", "save", "cache"}
           Goes == \/ Moves(r, "done", NoJob)
                   \/ \E label \in Labels, d \in 0 .. MaxIds :
                        /\ Moves(r, label, [job[r] EXCEPT !.new.device = d])
                        /\ d = job[r].new.device \/ pc[r] = "create"
                        /\ label \in {"check", "create"} => pc[r] = "check"
<1>3. Goes => JobsTyped'
  <2>1. CASE Moves(r, "done", NoJob)
    <3>1. Fits("done", NoJob)
      BY DEF Fits
    <3> QED BY <1>0, <2>1, <3>1, MovesTyped
  <2>2. ASSUME NEW label \in Labels, NEW d \in 0 .. MaxIds,
               Moves(r, label, [job[r] EXCEPT !.new.device = d]),
               label \in {"check", "create"} => pc[r] = "check"
        PROVE  JobsTyped'
    <3>1. Asks(label, [j EXCEPT !.new.device = d])
      BY <1>1, <1>2, <2>2 DEF Asks, VehicleJob, Row
    <3> QED BY <1>0, <1>2, <2>2, <3>1, VehicleMoves
  <2> QED BY <2>1, <2>2
<1>4. ASSUME NEW label \in Labels, Goto(r, label), UNCHANGED job,
             label \in {"check", "create"} => pc[r] = "check"
      PROVE  Goes
  BY <1>0, <1>2, <1>4, GotoMoves
<1>5. Finish(r) => Goes
  BY <1>0, FinishMoves
<1>6. Refused(r) => Goes
  BY <1>4, <1>5 DEF Refused
<1>7. UNCHANGED vehicleVars => VehicleTypeOK'
  BY <1>0 DEF VehicleTypeOK, vehicleVars
<1> DEFINE Still == UNCHANGED <<groups, geofences, links>>
<1>8. Same => Call /\ Still
  BY DEF Call, Same, traccar
<1>9. CASE CheckDevice(r)
  <2>1. Same /\ Counted /\ UNCHANGED vehicleVars
    BY <1>9 DEF CheckDevice, Counted
  <2>2. Goes
    BY <1>4, <1>6, <1>9 DEF CheckDevice
  <2> HIDE DEF Goes
  <2> QED BY <1>3, <1>7, <1>8, <2>1, <2>2 DEF Goes
<1>10. CASE Register(r)
  <2>1. CASE ~(Same \/ CreateDevice(j.new.imei))
    BY <1>10, <2>1 DEF Register, Lost
  <2>2. UNCHANGED vehicleVars /\ Counted
    BY <1>10 DEF Register, Counted, Lost
  <2>3. pc[r] = "create"
    BY <1>10 DEF Register
  <2>4. ASSUME ~Refused(r)
        PROVE  CreateDevice(j.new.imei) /\ job' = [job EXCEPT ![r].new.device = Fresh]
               /\ Goto(r, "save")
    BY <1>10, <2>4 DEF Register
  <2>5. ASSUME CreateDevice(j.new.imei) PROVE Still /\ Fresh \in 0 .. MaxIds
    BY <1>0, <2>5 DEF CreateDevice, Draw, Fresh, ApiTypeOK
  <2>6. ASSUME CreateDevice(j.new.imei) PROVE Call
    <3>1. j.new.imei \in Imeis
      BY <1>1, <2>3 DEF Asks
    <3> QED BY <2>6, <3>1 DEF Call
  <2>7. Goes
    <3>1. CASE ~Refused(r)
      <4>1. job' = [job EXCEPT ![r] = [j EXCEPT !.new.device = Fresh]]
        BY <2>4, <3>1
      <4>2. Moves(r, "save", [j EXCEPT !.new.device = Fresh])
        BY <1>0, <2>4, <3>1, <4>1, GotoMoves
      <4> QED BY <2>3, <2>4, <2>5, <3>1, <4>2
    <3> QED BY <1>6, <3>1
  <2> QED BY <1>3, <1>7, <1>8, <2>1, <2>2, <2>5, <2>6, <2>7
<1>11. CASE Uncache(r)
  <2>1. Same /\ Counted
    BY <1>11 DEF Uncache, Same, Counted, Ok
  <2>2. VehicleTypeOK'
    BY <1>0, <1>2, <1>11 DEF Uncache, Changes, VehicleTypeOK, RemoveState
  <2>3. Goes
    BY <1>4, <1>11 DEF Uncache
  <2> HIDE DEF Goes
  <2> QED BY <1>3, <1>8, <2>1, <2>2, <2>3 DEF Goes
<1>12. CASE Drop(r)
  <2>1. Counted /\ (Same \/ DeleteDevice(j.old.device))
    BY <1>12 DEF Drop, Counted, Lost
  <2>4. VehicleTypeOK'
    BY <1>0, <1>2, <1>12 DEF Drop, Changes, VehicleTypeOK
  <2>2. Call /\ Still
    BY <1>2, <1>8, <2>1 DEF Call, DeleteDevice
  <2>3. Goes
    BY <1>4, <1>5, <1>12 DEF Drop
  <2> HIDE DEF Goes
  <2> QED BY <1>3, <2>1, <2>2, <2>3, <2>4 DEF Goes
<1>13. CASE SaveVehicle(r)
  <2>1. Same /\ Counted
    BY <1>13 DEF SaveVehicle, Same, Counted
  <2>2. VehicleTypeOK'
    BY <1>0, <1>2, <1>13 DEF SaveVehicle, Changes, VehicleTypeOK
  <2>3. Goes
    <3>1. Saved(j) \in {"uncache", "done", "cache"}
      BY DEF Saved
    <3> QED BY <1>4, <1>5, <1>13, <3>1 DEF SaveVehicle
  <2> HIDE DEF Goes
  <2> QED BY <1>3, <1>8, <2>1, <2>2, <2>3 DEF Goes
<1>14. CASE Cache(r)
  <2>1. Same /\ Counted
    BY <1>14 DEF Cache, Same, Counted, Ok
  <2>2. VehicleTypeOK'
    <3>1. Shows(j) => j.new.device \in 1 .. MaxIds
      BY <1>0, <1>2 DEF Shows
    <3> QED BY <1>0, <1>2, <1>14, <3>1 DEF Cache, Changes, VehicleTypeOK, SetState
  <2>3. Goes
    BY <1>5, <1>14 DEF Cache
  <2> HIDE DEF Goes
  <2> QED BY <1>3, <1>8, <2>1, <2>2, <2>3 DEF Goes
<1>15. CASE CutOffVehicle(r)
  <2>1. Same /\ Counted
    BY <1>15 DEF CutOffVehicle, Same, Counted
  <2>2. VehicleTypeOK'
    BY <1>0, <1>2, <1>15 DEF CutOffVehicle, VehicleTypeOK
  <2>3. Goes
    BY <1>5, <1>15 DEF CutOffVehicle
  <2> HIDE DEF Goes
  <2> QED BY <1>3, <1>8, <2>1, <2>2, <2>3 DEF Goes
<1> QED BY <1>9, <1>10, <1>11, <1>12, <1>13, <1>14, <1>15

-----------------------------------------------------------------------------
\* The lists clients send.
LEMMA ListsTyped ==
  ASSUME ApiTypeOK, NEW list \in Lists
  PROVE  list \in Seq(0 .. MaxIds) /\ Len(list) <= MaxStops
<1>0. MaxIds \in Nat /\ MaxStops \in Nat /\ lastId \in 0 .. MaxIds
  BY ApiAssumptions, StopsAssumption DEF ApiTypeOK
<1>1. PICK n \in 0 .. MaxStops : list \in [1 .. n -> {0} \cup Seen]
  BY DEF Lists
<1>2. {0} \cup Seen \subseteq 0 .. MaxIds
  BY <1>0 DEF Seen
<1>3. n \in Nat /\ n <= MaxStops
  BY <1>0, <1>1
<1>4. list \in [1 .. n -> 0 .. MaxIds]
  BY <1>1, <1>2
<1> HIDE DEF Seen
<1>5. list \in Seq(0 .. MaxIds)
  BY <1>3, <1>4, SeqDef
<1>6. Len(list) = n
  BY <1>3, <1>4, <1>5, LenProperties
<1> QED BY <1>3, <1>5, <1>6

\* The fields of a request's work for the route.
Fields(op, dir, list, new, seen, todo, known, made) ==
  [op |-> op, direction |-> dir, list |-> list, new |-> new, seen |-> seen, todo |-> todo,
   known |-> known, made |-> made]

\* The work a request for the route begins with.
RouteStart(r, j) ==
  /\ j \in RouteWork /\ j.made = <<>> /\ Len(j.list) <= MaxStops
  /\ \/ /\ j.op \in {"NEW_ROUTE", "STOPS"}
        /\ \E label \in {"group", "update", "clear"} :
             Moves(r, label, j) /\ (label = "clear" => j.op = "STOPS")
     \/ /\ j.op = "DEACTIVATE"
        /\ Moves(r, "unfence", j)

LEMMA RouteBegins ==
  ASSUME TInv, NEW r \in Requests, BeginRoute(r)
  PROVE  /\ UNCHANGED <<traccar, failures, routeVars>> /\ pc[r] = "idle"
         /\ \E j \in RouteWork : RouteStart(r, j)
         /\ JobsTyped'
<1>0. JobsTyped /\ RouteTypeOK /\ ApiTypeOK /\ MaxIds \in Nat /\ MaxStops \in Nat
  BY ApiAssumptions, StopsAssumption DEF TInv, TypeOK
<1>1. /\ UNCHANGED <<traccar, failures, routeVars>> /\ pc[r] = "idle"
      /\ BeginNew(r) \/ BeginStops(r) \/ BeginDeactivation(r)
  BY DEF BeginRoute
<1>2. <<>> \in Seq(0 .. MaxIds) /\ <<>> \in Seq(Ids) /\ Len(<<>>) = 0
  BY EmptySeq
<1>3. route \in RouteRow /\ {s.by : s \in stops} \in SUBSET Requests
      /\ {s.fence : s \in stops} \in SUBSET Ids
  BY <1>0 DEF RouteTypeOK, RouteRow, Stop, Ids
<1>4. ASSUME NEW op \in RouteOps, NEW dir \in Directions, NEW list \in Seq(0 .. MaxIds),
             NEW active \in BOOLEAN, NEW todo \in SUBSET Ids
      PROVE  [op |-> op, direction |-> dir, list |-> list,
              new |-> [active |-> active, group |-> route.group, there |-> route.there],
              seen |-> {s.by : s \in stops}, todo |-> todo, known |-> {}, made |-> <<>>] \in RouteWork
  BY <1>2, <1>3 DEF RouteWork, RouteRow
<1>5. [active |-> route.active, group |-> route.group, there |-> route.there] = route
      /\ route.active \in BOOLEAN
  BY <1>3 DEF RouteRow
<1>6. {"NEW_ROUTE", "STOPS", "DEACTIVATE"} = RouteOps /\ {"IDA", "VUELTA"} = Directions
  BY DEF RouteOps, Directions
<1> DEFINE inserters == {s.by : s \in stops}
           fences == {s.fence : s \in stops}
           Some == \E j \in RouteWork : RouteStart(r, j)
<1>7. ASSUME BeginNew(r) PROVE Some
  <2> DEFINE j == RouteJob("NEW_ROUTE")
  <2>1. j \in RouteWork
    BY <1>2, <1>4, <1>5, <1>6 DEF RouteJob
  <2>2. j.op = "NEW_ROUTE" /\ j.made = <<>> /\ j.list = <<>>
    BY DEF RouteJob
  <2>3. Goto(r, "group") /\ job' = [job EXCEPT ![r] = j]
    BY <1>7 DEF BeginNew, StartRoute
  <2> HIDE DEF j
  <2>4. Moves(r, "group", j)
    BY <1>0, <2>3, GotoMoves
  <2> QED BY <1>0, <1>2, <2>1, <2>2, <2>4 DEF RouteStart
<1>8. ASSUME BeginStops(r) PROVE Some
  <2>1. PICK dir \in Directions, list \in Lists, active \in {route.active, TRUE} :
          \E label \in StopsLabels(active) :
            StartRoute(r, [RouteJob("STOPS") EXCEPT !.direction = dir, !.list = list,
                                                    !.new.active = active], label)
    BY <1>8 DEF BeginStops
  <2> DEFINE j == [RouteJob("STOPS") EXCEPT !.direction = dir, !.list = list,
                                            !.new.active = active]
             k == [op |-> "STOPS", direction |-> dir, list |-> list,
                   new |-> [active |-> active, group |-> route.group, there |-> route.there],
                   seen |-> {s.by : s \in stops}, todo |-> {}, known |-> {}, made |-> <<>>]
  <2>2. PICK label \in StopsLabels(active) : StartRoute(r, j, label)
    BY <2>1
  <2>3. label \in {"group", "update", "clear"}
    BY <2>2 DEF StopsLabels
  <2>4. list \in Seq(0 .. MaxIds) /\ Len(list) <= MaxStops
    BY <1>0, ListsTyped
  <2>5. [route EXCEPT !.active = active] =
           [active |-> active, group |-> route.group, there |-> route.there]
    BY <1>3 DEF RouteRow
  <2>6. j = k
    <3> DEFINE none == {}
               empty == <<>>
               row == [route EXCEPT !.active = active]
               work == Fields("STOPS", "IDA", empty, route, inserters, none, none, empty)
    <3>1. RouteJob("STOPS") = work
      BY DEF RouteJob, Fields
    <3>2. j = [RouteJob("STOPS") EXCEPT !.direction = dir, !.list = list,
                                        !.new = [RouteJob("STOPS").new EXCEPT !.active = active]]
      OBVIOUS
    <3>3. RouteJob("STOPS").new = route
      BY <3>1 DEF Fields
    <3>4. j = [work EXCEPT !.direction = dir, !.list = list, !.new = row]
      <4> HIDE DEF work, j
      <4> QED BY <3>1, <3>2, <3>3
    <3>5. k = Fields("STOPS", dir, list, row, inserters, none, none, empty)
      BY <2>5 DEF Fields
    <3> HIDE DEF j, k, none, empty, row, inserters
    <3>6. [work EXCEPT !.direction = dir, !.list = list, !.new = row] =
             Fields("STOPS", dir, list, row, inserters, none, none, empty)
      <4> DEFINE first  == Fields("STOPS", dir, empty, route, inserters, none, none, empty)
                 second == Fields("STOPS", dir, list, route, inserters, none, none, empty)
      <4>1. [work EXCEPT !.direction = dir] = first
        BY DEF Fields
      <4>2. [first EXCEPT !.list = list] = second
        BY DEF Fields
      <4>3. [second EXCEPT !.new = row] = Fields("STOPS", dir, list, row, inserters, none, none, empty)
        BY DEF Fields
      <4>4. [work EXCEPT !.direction = dir, !.list = list, !.new = row] =
               [[[work EXCEPT !.direction = dir] EXCEPT !.list = list] EXCEPT !.new = row]
        BY DEF Fields
      <4> HIDE DEF first, second, work
      <4> QED BY <4>1, <4>2, <4>3, <4>4
    <3> QED BY <3>4, <3>5, <3>6
  <2>7. active \in BOOLEAN
    BY <1>5
  <2>8. k \in RouteWork
    BY <1>4, <1>6, <2>4, <2>7
  <2>9. k.op = "STOPS" /\ k.made = <<>> /\ k.list = list
    OBVIOUS
  <2>10. Goto(r, label) /\ job' = [job EXCEPT ![r] = k]
    BY <2>2, <2>6 DEF StartRoute
  <2> HIDE DEF k
  <2>11. Moves(r, label, k)
    BY <1>0, <2>10, GotoMoves
  <2> QED BY <2>3, <2>4, <2>8, <2>9, <2>11 DEF RouteStart
<1>9. ASSUME BeginDeactivation(r) PROVE Some
  <2> DEFINE j == [RouteJob("DEACTIVATE") EXCEPT !.todo = {s.fence : s \in stops}]
             k == [op |-> "DEACTIVATE", direction |-> "IDA", list |-> <<>>,
                   new |-> [active |-> route.active, group |-> route.group, there |-> route.there],
                   seen |-> {s.by : s \in stops}, todo |-> {s.fence : s \in stops}, known |-> {},
                   made |-> <<>>]
  <2>1. j = k
    <3> DEFINE none == {}
               empty == <<>>
               work == Fields("DEACTIVATE", "IDA", empty, route, inserters, none, none, empty)
    <3>1. RouteJob("DEACTIVATE") = work
      BY DEF RouteJob, Fields
    <3>2. j = [work EXCEPT !.todo = fences]
      <4> HIDE DEF work
      <4> QED BY <3>1
    <3>3. k = Fields("DEACTIVATE", "IDA", empty, route, inserters, fences, none, empty)
      BY <1>5 DEF Fields
    <3> HIDE DEF j, k, none, empty, inserters, fences
    <3>4. [work EXCEPT !.todo = fences] =
             Fields("DEACTIVATE", "IDA", empty, route, inserters, fences, none, empty)
      BY DEF Fields
    <3> QED BY <3>2, <3>3, <3>4
  <2>2. k \in RouteWork
    BY <1>2, <1>3, <1>4, <1>5, <1>6
  <2>3. k.op = "DEACTIVATE" /\ k.made = <<>> /\ k.list = <<>>
    OBVIOUS
  <2>4. Goto(r, "unfence") /\ job' = [job EXCEPT ![r] = k]
    BY <1>9, <2>1 DEF BeginDeactivation, StartRoute
  <2> HIDE DEF k
  <2>5. Moves(r, "unfence", k)
    BY <1>0, <2>4, GotoMoves
  <2> QED BY <1>0, <1>2, <2>2, <2>3, <2>4, <2>5 DEF RouteStart
<1>10. PICK j \in RouteWork : RouteStart(r, j)
  BY <1>1, <1>7, <1>8, <1>9
<1>11. JobsTyped'
  <2>1. PICK label \in {"group", "update", "clear", "unfence"} : Moves(r, label, j)
    BY <1>10 DEF RouteStart
  <2>2. Len(j.list) \in Nat /\ j.made = <<>> /\ Len(j.list) <= MaxStops
    BY <1>10, LenProperties DEF RouteStart, RouteWork
  <2>3. Fits(label, j)
    BY <1>2, <2>2 DEF Fits, Progress
  <2> QED BY <1>0, <2>1, <2>3, MovesTyped
<1> QED BY <1>1, <1>10, <1>11

\* Changes to the work of a request for the route.
LEMMA WorkChanges ==
  ASSUME NEW j \in RouteWork
  PROVE  /\ \A new \in RouteRow : /\ [j EXCEPT !.new = new] \in RouteWork
                                  /\ [j EXCEPT !.new = new].op = j.op
                                  /\ [j EXCEPT !.new = new].made = j.made
                                  /\ [j EXCEPT !.new = new].list = j.list
         /\ \A known \in SUBSET Ids : /\ [j EXCEPT !.known = known] \in RouteWork
                                      /\ [j EXCEPT !.known = known].op = j.op
                                      /\ [j EXCEPT !.known = known].made = j.made
                                      /\ [j EXCEPT !.known = known].list = j.list
         /\ \A todo \in SUBSET Ids : /\ [j EXCEPT !.todo = todo] \in RouteWork
                                     /\ [j EXCEPT !.todo = todo].op = j.op
                                     /\ [j EXCEPT !.todo = todo].made = j.made
                                     /\ [j EXCEPT !.todo = todo].list = j.list
         /\ \A made \in Seq(Ids) : /\ [j EXCEPT !.made = made] \in RouteWork
                                   /\ [j EXCEPT !.made = made].op = j.op
                                   /\ [j EXCEPT !.made = made].made = made
                                   /\ [j EXCEPT !.made = made].list = j.list
BY DEF RouteWork

\* Where a request for the route goes.
RouteGoes(r) ==
  \/ Moves(r, "done", NoJob)
  \/ \E label \in {"update", "clear", "known", "fence", "link", "stops", "unfence", "ungroup",
                   "wipe", "close"}, j \in RouteWork :
       Progress(label, j) /\ j.op = job[r].op /\ Moves(r, label, j)

LEMMA RouteMoves ==
  ASSUME JobsTyped, NEW r \in Requests, RouteGoes(r)
  PROVE  JobsTyped'
<1>1. CASE Moves(r, "done", NoJob)
  <2>1. Fits("done", NoJob)
    BY DEF Fits
  <2> QED BY <1>1, <2>1, MovesTyped
<1>2. CASE \E label \in {"update", "clear", "known", "fence", "link", "stops", "unfence", "ungroup",
                         "wipe", "close"}, j \in RouteWork :
             Progress(label, j) /\ j.op = job[r].op /\ Moves(r, label, j)
  <2>1. PICK label \in {"update", "clear", "known", "fence", "link", "stops", "unfence", "ungroup",
                        "wipe", "close"}, j \in RouteWork :
             Progress(label, j) /\ j.op = job[r].op /\ Moves(r, label, j)
    BY <1>2
  <2>2. Fits(label, j)
    BY <2>1 DEF Fits
  <2> QED BY <2>1, <2>2, MovesTyped
<1> QED BY <1>1, <1>2 DEF RouteGoes

\* The steps of an update of the stops, and those of a deactivation.
UpdateStep(r) == \/ MakeGroup(r) \/ SaveRoute(r) \/ ClearStops(r) \/ KnownFences(r)
                 \/ Fence(r) \/ Link(r) \/ SaveStops(r)
RetireStep(r) == Unfence(r) \/ Ungroup(r) \/ Wipe(r) \/ CloseRoute(r)

\* What each step of a request for the route calls, and where it goes.
LEMMA RouteSteps ==
  ASSUME TInv, NEW r \in Requests, pc[r] \notin {"idle", "done"}, IsRouteJob(r),
         UpdateStep(r) \/ RetireStep(r) \/ CutOffRoute(r)
  PROVE  Call /\ Counted /\ UNCHANGED devices /\ RouteGoes(r)
<1> DEFINE j == job[r]
<1>0. JobsTyped /\ RouteTypeOK /\ ApiTypeOK /\ MaxIds \in Nat
  BY ApiAssumptions DEF TInv, TypeOK
<1>1. j \in RouteWork /\ r \in Running /\ Progress(pc[r], j)
  BY <1>0, WorkTyped
<1>2. /\ j.new \in RouteRow /\ j.new.group \in 0 .. MaxIds /\ j.list \in Seq(0 .. MaxIds)
      /\ j.made \in Seq(Ids) /\ j.todo \in SUBSET Ids /\ j.known \in SUBSET Ids
      /\ Len(j.list) \in Nat /\ Len(j.made) \in Nat
  BY <1>1, LenProperties DEF RouteWork, RouteRow
<1>3. Finish(r) => RouteGoes(r)
  BY <1>0, FinishMoves DEF RouteGoes
<1>4. ASSUME NEW label \in {"update", "clear", "known", "fence", "link", "stops", "unfence", "ungroup",
                            "wipe", "close"},
             Goto(r, label), UNCHANGED job, Progress(label, j)
      PROVE  RouteGoes(r)
  BY <1>0, <1>1, <1>4, GotoMoves DEF RouteGoes
<1>5. ASSUME NEW label \in {"update", "clear", "known", "fence", "link", "stops", "unfence", "ungroup",
                            "wipe", "close"},
             NEW k \in RouteWork, k.op = j.op, Progress(label, k),
             Goto(r, label), job' = [job EXCEPT ![r] = k]
      PROVE  RouteGoes(r)
  <2>1. Moves(r, label, k)
    BY <1>0, <1>5, GotoMoves
  <2> QED BY <1>5, <2>1 DEF RouteGoes
<1>6. Same => Call /\ UNCHANGED devices
  BY DEF Call, Same, traccar
<1>7. ASSUME Draw PROVE Fresh \in 0 .. MaxIds /\ Fresh \in Ids
  BY <1>0, <1>7 DEF ApiTypeOK, Draw, Fresh, Ids
<1>8. CreateGroup \/ CreateGeofence => Call /\ UNCHANGED devices
  BY DEF Call, CreateGroup, CreateGeofence
<1>9. ASSUME NEW d \in 0 .. MaxIds, DeleteGroup(d) \/ DeleteGeofence(d)
      PROVE  Call /\ UNCHANGED devices
  BY <1>9 DEF Call, DeleteGroup, DeleteGeofence
<1>10. ASSUME NEW g \in 0 .. MaxIds, NEW f \in 0 .. MaxIds, LinkGeofenceToGroup(g, f)
       PROVE  Call /\ UNCHANGED devices
  BY <1>10 DEF Call, LinkGeofenceToGroup
<1>11. CASE MakeGroup(r)
  <2>1. Counted /\ (Same \/ CreateGroup)
    BY <1>11 DEF MakeGroup, Counted, Lost
  <2>2. CASE Finish(r)
    BY <1>3, <1>6, <1>8, <2>1, <2>2
  <2>3. CASE /\ CreateGroup
             /\ job' = [job EXCEPT ![r].new = [active |-> TRUE, group |-> Fresh, there |-> TRUE]]
             /\ Goto(r, "update")
    <3> DEFINE new == [active |-> TRUE, group |-> Fresh, there |-> TRUE]
               k == [j EXCEPT !.new = new]
    <3>1. new \in RouteRow
      BY <1>7, <2>3 DEF CreateGroup, RouteRow
    <3>2. k \in RouteWork /\ k.op = j.op /\ k.made = j.made /\ k.list = j.list
      BY <1>1, <3>1, WorkChanges
    <3>3. j.made = <<>> /\ Len(j.made) <= Len(j.list) /\ Len(j.list) <= MaxStops
      BY <1>1, <1>11 DEF Progress, MakeGroup
    <3>4. job' = [job EXCEPT ![r] = k]
      BY <2>3
    <3> HIDE DEF k
    <3>5. Progress("update", k)
      BY <3>2, <3>3 DEF Progress
    <3> QED BY <1>5, <1>6, <1>8, <2>1, <2>3, <3>2, <3>4, <3>5
  <2> QED BY <1>11, <2>2, <2>3 DEF MakeGroup
<1>12. CASE SaveRoute(r)
  <2>1. Counted /\ Same
    BY <1>12 DEF SaveRoute, Counted
  <2>2. Progress("clear", j)
    BY <1>1, <1>12 DEF SaveRoute, Progress
  <2>3. Finish(r) \/ (Goto(r, "clear") /\ UNCHANGED job)
    BY <1>12 DEF SaveRoute
  <2> QED BY <1>3, <1>4, <1>6, <2>1, <2>2, <2>3
<1>13. CASE ClearStops(r)
  <2>1. Counted /\ Same /\ Goto(r, "known") /\ UNCHANGED job
    BY <1>13 DEF ClearStops, Counted, Same
  <2>2. Progress("known", j)
    BY <1>1, <1>13 DEF ClearStops, Progress
  <2> QED BY <1>4, <1>6, <2>1, <2>2
<1>14. CASE KnownFences(r)
  <2> DEFINE label == IF j.list = <<>> THEN "stops" ELSE "fence"
  <2>1. Counted /\ Same /\ Goto(r, label)
    BY <1>14 DEF KnownFences, Counted, Same
  <2>2. j.made = <<>> /\ Len(j.list) <= MaxStops
    BY <1>1, <1>14 DEF KnownFences, Progress
  <2>3. j.list # <<>> => Len(j.list) > 0
    BY <1>2, EmptySeq
  <2>4. Len(<<>>) = 0
    BY EmptySeq
  <2>5. ASSUME NEW k, k.made = j.made, k.list = j.list PROVE Progress(label, k)
    BY <1>2, <2>2, <2>3, <2>4, <2>5 DEF Progress
  <2>6. CASE UNCHANGED job
    <3>1. Progress(label, j)
      BY <2>5
    <3> QED BY <1>4, <1>6, <2>1, <2>6, <3>1
  <2>7. CASE job' = [job EXCEPT ![r].known = Linked(j.new.group)]
    <3> DEFINE k == [j EXCEPT !.known = Linked(j.new.group)]
    <3>1. Linked(j.new.group) \in SUBSET Ids
      BY <1>0 DEF Linked, ApiTypeOK, Ids
    <3>2. k \in RouteWork /\ k.op = j.op /\ k.made = j.made /\ k.list = j.list
      BY <1>1, <3>1, WorkChanges
    <3>3. job' = [job EXCEPT ![r] = k]
      BY <2>7
    <3> HIDE DEF k
    <3>4. Progress(label, k)
      BY <2>5, <3>2
    <3>5. label \in {"fence", "stops"}
      OBVIOUS
    <3> HIDE DEF label
    <3> QED BY <1>5, <1>6, <2>1, <3>2, <3>3, <3>4, <3>5
  <2> QED BY <1>14, <2>6, <2>7 DEF KnownFences
<1>15. CASE Fence(r)
  <2> DEFINE given == j.list[At(j)]
  <2>1. Len(j.made) < Len(j.list) /\ Len(j.list) <= MaxStops
    BY <1>1, <1>15 DEF Fence, Progress
  <2>2. given \in 0 .. MaxIds
    <3>1. At(j) \in 1 .. Len(j.list)
      BY <1>2, <2>1 DEF At
    <3> HIDE DEF j
    <3> QED BY <1>2, <3>1, ElementOfSeq
  <2>3. Counted /\ (Same \/ CreateGeofence)
    BY <1>15 DEF Fence, UpdateGeofence, Lost, Counted
  <2>4. ASSUME NEW fence \in Ids, Fenced(r, fence) PROVE RouteGoes(r)
    <3> DEFINE k == [j EXCEPT !.made = Append(j.made, fence)]
    <3>1. Append(j.made, fence) \in Seq(Ids) /\ Len(Append(j.made, fence)) = Len(j.made) + 1
      BY <1>2, AppendProperties
    <3>2. k \in RouteWork /\ k.op = j.op /\ k.made = Append(j.made, fence) /\ k.list = j.list
      BY <1>1, <3>1, WorkChanges
    <3>3. job' = [job EXCEPT ![r] = k]
      BY <2>4 DEF Fenced
    <3> HIDE DEF k
    <3>4. Progress("link", k) /\ Progress("stops", k)
      BY <1>2, <2>1, <3>1, <3>2 DEF Progress
    <3>5. At(j) # Len(j.list) => Progress("fence", k)
      BY <1>2, <2>1, <3>1, <3>2 DEF Progress, At
    <3>6. Goto(r, "link") \/ Goto(r, "stops") \/ (At(j) # Len(j.list) /\ Goto(r, "fence"))
      BY <2>4 DEF Fenced
    <3> QED BY <1>5, <3>2, <3>3, <3>4, <3>5, <3>6
  <2>5. Finish(r) \/ (\E fence \in Ids : Fenced(r, fence))
    <3>1. given # 0 => given \in Ids
      BY <1>0, <2>2 DEF Ids
    <3>2. CreateGeofence => Fresh \in Ids
      BY <1>7 DEF CreateGeofence
    <3> QED BY <1>15, <3>1, <3>2 DEF Fence
  <2> QED BY <1>3, <1>6, <1>8, <2>3, <2>4, <2>5
<1>16. CASE Link(r)
  <2> DEFINE fence == j.made[Len(j.made)]
  <2>1. Len(j.made) > 0 /\ Len(j.made) <= Len(j.list) /\ Len(j.list) <= MaxStops
    BY <1>1, <1>16 DEF Link, Progress
  <2>2. fence \in 0 .. MaxIds
    BY <1>0, <1>2, <2>1, ElementOfSeq DEF Ids
  <2>3. Counted /\ (Same \/ LinkGeofenceToGroup(j.new.group, fence))
    BY <1>16 DEF Link, Lost, Counted
  <2>4. /\ Progress("stops", j)
        /\ Len(j.made) # Len(j.list) => Progress("fence", j)
    BY <1>2, <2>1 DEF Progress
  <2>5. \/ Finish(r)
        \/ UNCHANGED job /\ Goto(r, "stops")
        \/ UNCHANGED job /\ Goto(r, "fence") /\ Len(j.made) # Len(j.list)
    BY <1>16 DEF Link
  <2> HIDE DEF fence
  <2> QED BY <1>2, <1>3, <1>4, <1>6, <1>10, <2>2, <2>3, <2>4, <2>5
<1>17. CASE SaveStops(r)
  <2>1. Counted /\ Same /\ Finish(r)
    BY <1>17 DEF SaveStops, Counted, Same
  <2> QED BY <1>3, <1>6, <2>1
<1>18. ASSUME NEW label \in {"unfence", "ungroup", "wipe", "close"}, pc[r] = "unfence" \/ label # "unfence",
              NEW k, k.list = j.list, k.made = j.made
       PROVE  Progress(label, k)
  BY <1>1, <1>18 DEF Progress
<1>19. CASE Unfence(r)
  <2>1. CASE j.todo = {}
    <3>1. Same /\ Counted /\ UNCHANGED job
      BY <1>19, <2>1 DEF Unfence, Counted
    <3>2. Goto(r, "ungroup") \/ Goto(r, "wipe")
      BY <1>19, <2>1 DEF Unfence
    <3>3. Progress("ungroup", j) /\ Progress("wipe", j)
      BY <1>18
    <3> QED BY <1>4, <1>6, <3>1, <3>2, <3>3
  <2>2. CASE j.todo # {}
    <3>1. PICK g \in j.todo : /\ (Ok /\ DeleteGeofence(g)) \/ Lost(DeleteGeofence(g))
                              /\ job' = [job EXCEPT ![r].todo = @ \ {g}]
                              /\ UNCHANGED pc
      BY <1>19, <2>2 DEF Unfence
    <3>2. g \in 0 .. MaxIds
      BY <1>2 DEF Ids
    <3>3. Counted /\ (Same \/ DeleteGeofence(g))
      BY <3>1 DEF Counted, Lost
    <3> DEFINE k == [j EXCEPT !.todo = j.todo \ {g}]
    <3>4. k \in RouteWork /\ k.op = j.op /\ k.made = j.made /\ k.list = j.list
      BY <1>1, <1>2, WorkChanges
    <3>5. job' = [job EXCEPT ![r] = k]
      BY <3>1
    <3> HIDE DEF k
    <3>6. Moves(r, "unfence", k)
      BY <1>0, <1>19, <3>1, <3>5 DEF JobsTyped, Unfence, Moves
    <3>7. Progress("unfence", k)
      BY <1>18, <1>19, <3>4 DEF Unfence
    <3> QED BY <1>6, <1>9, <3>2, <3>3, <3>4, <3>6, <3>7 DEF RouteGoes
  <2> QED BY <2>1, <2>2
<1>20. CASE Ungroup(r)
  <2>1. Counted /\ (Same \/ DeleteGroup(j.new.group)) /\ Goto(r, "wipe") /\ UNCHANGED job
    BY <1>20 DEF Ungroup, Counted, Lost
  <2>2. Progress("wipe", j)
    BY <1>18
  <2> QED BY <1>2, <1>4, <1>6, <1>9, <2>1, <2>2
<1>21. CASE Wipe(r)
  <2>1. Counted /\ Same /\ Goto(r, "close") /\ UNCHANGED job
    BY <1>21 DEF Wipe, Counted, Same
  <2>2. Progress("close", j)
    BY <1>18
  <2> QED BY <1>4, <1>6, <2>1, <2>2
<1>22. CASE CloseRoute(r) \/ CutOffRoute(r)
  <2>1. Counted /\ Same /\ Finish(r)
    BY <1>22 DEF CloseRoute, CutOffRoute, Counted, Same
  <2> QED BY <1>3, <1>6, <2>1
<1> QED BY <1>11, <1>12, <1>13, <1>14, <1>15, <1>16, <1>17, <1>19, <1>20, <1>21, <1>22
        DEF UpdateStep, RetireStep

LEMMA NewStopsTyped ==
  ASSUME NEW r \in Requests, job[r] \in RouteWork, Progress(pc[r], job[r])
  PROVE  NewStops(r) \subseteq Stop
<1> DEFINE j == job[r]
           made == j.made
<1>1. made \in Seq(Ids) /\ Len(made) \in Nat /\ Len(j.list) \in Nat /\ j.direction \in Directions
      /\ MaxStops \in Nat
  BY LenProperties, StopsAssumption DEF RouteWork
<1>2. Len(made) <= MaxStops
  BY <1>1 DEF Progress
<1>3. ASSUME NEW n \in 1 .. Len(made)
      PROVE  [direction |-> j.direction, order |-> n, fence |-> made[n],
              kind |-> Kind(n, Len(made)), by |-> r] \in Stop
  <2>1. n \in 1 .. MaxStops
    BY <1>1, <1>2
  <2>2. made[n] \in 1 .. MaxIds
    <3> HIDE DEF made
    <3> QED BY <1>1, ElementOfSeq DEF Ids
  <2>3. Kind(n, Len(made)) \in {"START", "CHECKPOINT", "END"}
    BY DEF Kind
  <2> HIDE DEF made, j
  <2> QED BY <1>1, <2>1, <2>2, <2>3 DEF Stop
<1> QED BY <1>3 DEF NewStops

LEMMA RouteTyped ==
  ASSUME TInv, NEW r \in Requests, pc[r] \notin {"idle", "done"}, IsRouteJob(r),
         UpdateStep(r) \/ RetireStep(r) \/ CutOffRoute(r)
  PROVE  RouteTypeOK'
<1> DEFINE j == job[r]
<1>0. JobsTyped /\ RouteTypeOK
  BY DEF TInv, TypeOK
<1>1. j \in RouteWork /\ Progress(pc[r], j) /\ j.new \in RouteRow
  BY <1>0, WorkTyped DEF RouteWork
<1>2. UNCHANGED routeVars => RouteTypeOK'
  BY <1>0 DEF RouteTypeOK, routeVars
<1>3. CASE MakeGroup(r) \/ KnownFences(r) \/ Fence(r) \/ Link(r) \/ Ungroup(r)
  BY <1>2, <1>3 DEF MakeGroup, KnownFences, Fence, Link, Ungroup
<1>10. CASE Unfence(r)
  <2>1. UNCHANGED <<stops, route>> /\ unclean' \in BOOLEAN
    BY <1>0, <1>10 DEF Unfence, RouteTypeOK
  <2> QED BY <1>0, <2>1 DEF RouteTypeOK
<1>4. CASE SaveRoute(r)
  BY <1>0, <1>1, <1>4 DEF SaveRoute, RouteTypeOK, RouteRow
<1>5. CASE ClearStops(r)
  BY <1>0, <1>5 DEF ClearStops, RouteTypeOK
<1>6. CASE SaveStops(r)
  <2>1. NewStops(r) \subseteq Stop
    BY <1>1, NewStopsTyped
  <2>2. stops' = stops \/ stops' = stops \cup NewStops(r)
    BY <1>6 DEF SaveStops
  <2>3. UNCHANGED <<route, unclean>>
    BY <1>6 DEF SaveStops
  <2> QED BY <1>0, <2>1, <2>2, <2>3 DEF RouteTypeOK
<1>7. CASE Wipe(r)
  <2>1. stops' \subseteq stops /\ route' = route /\ unclean' \in BOOLEAN
    BY <1>0, <1>7 DEF Wipe, RouteTypeOK
  <2> QED BY <1>0, <2>1 DEF RouteTypeOK
<1>8. CASE CloseRoute(r)
  <2>1. UNCHANGED <<stops, unclean>> /\ (route' = route \/ route' = [route EXCEPT !.active = FALSE, !.group = 0])
    BY <1>8 DEF CloseRoute
  <2>2. 0 \in 0 .. MaxIds
    BY ApiAssumptions
  <2> QED BY <1>0, <2>1, <2>2 DEF RouteTypeOK
<1>9. CASE CutOffRoute(r)
  <2>1. UNCHANGED <<stops, route>> /\ unclean' \in BOOLEAN
    BY <1>9 DEF CutOffRoute
  <2> QED BY <1>0, <2>1 DEF RouteTypeOK
<1> QED BY <1>3, <1>4, <1>5, <1>6, <1>7, <1>8, <1>9, <1>10 DEF UpdateStep, RetireStep

\* One step of the whole, with what it is a step of.
VehicleStep(r) ==
  /\ pc[r] \notin {"idle", "done"} /\ IsVehicleJob(r)
  /\ \/ CheckDevice(r) \/ Register(r) \/ Uncache(r) \/ Drop(r) \/ SaveVehicle(r)
     \/ Cache(r) \/ CutOffVehicle(r)

RouteStep(r) ==
  /\ pc[r] \notin {"idle", "done"} /\ IsRouteJob(r)
  /\ UpdateStep(r) \/ RetireStep(r) \/ CutOffRoute(r)

LEMMA Steps ==
  ASSUME Next
  PROVE  \E r \in Requests : \/ (BeginVehicle(r) \/ VehicleStep(r)) /\ UNCHANGED routeVars
                             \/ (BeginRoute(r) \/ RouteStep(r)) /\ UNCHANGED vehicleVars
<1>1. PICK r \in Requests : \/ VehicleRequest(r) /\ UNCHANGED routeVars
                            \/ RouteRequest(r) /\ UNCHANGED vehicleVars
  BY DEF Next
<1>2. VehicleRequest(r) => BeginVehicle(r) \/ VehicleStep(r)
  BY DEF VehicleRequest, VehicleStep, CheckDevice, Register, Uncache, Drop, SaveVehicle, Cache,
         CutOffVehicle, Running
<1>3. RouteRequest(r) => BeginRoute(r) \/ RouteStep(r)
  BY DEF RouteRequest, RouteStep, UpdateStep, RetireStep, MakeGroup, SaveRoute, ClearStops,
         KnownFences, Fence, Link, SaveStops, Unfence, Ungroup, Wipe, CloseRoute, CutOffRoute, Running
<1> QED BY <1>1, <1>2, <1>3

LEMMA TypeInit == Init => TInv
<1> SUFFICES ASSUME Init PROVE TInv
  OBVIOUS
<1>0. MaxIds \in Nat /\ MaxFailures \in Nat
  BY ApiAssumptions
<1>1. ApiTypeOK
  BY <1>0 DEF Init, ApiInit, ApiTypeOK
<1>2. VehicleTypeOK
  BY DEF Init, VehicleInit, VehicleTypeOK
<1>3. RouteTypeOK
  <2>1. NoRoute \in [active : BOOLEAN, group : 0 .. MaxIds, there : BOOLEAN]
    BY <1>0 DEF NoRoute
  <2>2. route = NoRoute /\ stops = {} /\ unclean = FALSE
    BY DEF Init, RouteInit
  <2>3. unclean \in BOOLEAN
    BY <2>2, Zenon
  <2> QED BY <2>1, <2>2, <2>3 DEF RouteTypeOK
<1>4. JobsTyped
  <2>1. pc = [r \in Requests |-> "idle"] /\ job = [r \in Requests |-> NoJob]
    BY DEF Init, ApiInit
  <2>2. DOMAIN pc = Requests /\ DOMAIN job = Requests
    BY <2>1
  <2>3. \A r \in Requests : pc[r] = "idle" /\ job[r] = NoJob
    BY <2>1
  <2> QED BY <2>2, <2>3 DEF JobsTyped
<1> QED BY <1>1, <1>2, <1>3, <1>4 DEF TInv, TypeOK

LEMMA TypeNext == TInv /\ [Next]_vars => TInv'
<1> SUFFICES ASSUME TInv, [Next]_vars PROVE TInv'
  OBVIOUS
<1>0. ApiTypeOK /\ VehicleTypeOK /\ RouteTypeOK /\ JobsTyped
  BY DEF TInv, TypeOK
<1>1. UNCHANGED <<traccar, failures>> => ApiTypeOK'
  BY <1>0 DEF ApiTypeOK, traccar
<1>2. UNCHANGED vehicleVars => VehicleTypeOK'
  BY <1>0 DEF VehicleTypeOK, vehicleVars
<1>3. UNCHANGED routeVars => RouteTypeOK'
  BY <1>0 DEF RouteTypeOK, routeVars
<1>4. CASE UNCHANGED vars
  <2>1. JobsTyped'
    BY <1>0, <1>4 DEF vars, apiVars, JobsTyped
  <2> QED BY <1>1, <1>2, <1>3, <1>4, <2>1 DEF vars, apiVars, TInv, TypeOK
<1>5. ASSUME NEW r \in Requests, BeginVehicle(r), UNCHANGED routeVars PROVE TInv'
  <2>1. UNCHANGED <<traccar, failures, vehicleVars>>
    BY <1>5, VehicleBegins
  <2>2. PICK k \in VehicleJob : Asked(k) /\ Moves(r, First(k), k)
    BY <1>5, VehicleBegins
  <2>3. First(k) \in {"uncache", "check", "save"} /\ Asks(First(k), k)
    BY <2>2 DEF First, Asks, VehicleJob, Row
  <2>4. JobsTyped'
    BY <1>0, <2>2, <2>3, VehicleMoves
  <2> QED BY <1>1, <1>2, <1>3, <1>5, <2>1, <2>4 DEF TInv, TypeOK
<1>6. ASSUME NEW r \in Requests, VehicleStep(r), UNCHANGED routeVars PROVE TInv'
  <2>1. JobsTyped' /\ VehicleTypeOK' /\ Call /\ Counted
    BY <1>6, VehicleSteps DEF VehicleStep
  <2>2. ApiTypeOK'
    BY <1>0, <2>1, CallTyped
  <2> QED BY <1>3, <1>6, <2>1, <2>2 DEF TInv, TypeOK
<1>7. ASSUME NEW r \in Requests, BeginRoute(r), UNCHANGED vehicleVars PROVE TInv'
  <2>1. UNCHANGED <<traccar, failures, routeVars>> /\ JobsTyped'
    BY <1>7, RouteBegins
  <2> QED BY <1>1, <1>2, <1>3, <1>7, <2>1 DEF TInv, TypeOK
<1>8. ASSUME NEW r \in Requests, RouteStep(r), UNCHANGED vehicleVars PROVE TInv'
  <2>1. Call /\ Counted /\ RouteGoes(r)
    BY <1>8, RouteSteps DEF RouteStep
  <2>2. ApiTypeOK' /\ JobsTyped'
    BY <1>0, <2>1, CallTyped, RouteMoves
  <2>3. RouteTypeOK'
    BY <1>8, RouteTyped DEF RouteStep
  <2> QED BY <1>2, <1>8, <2>2, <2>3 DEF TInv, TypeOK
<1> QED BY <1>4, <1>5, <1>6, <1>7, <1>8, Steps

\* Everything is of its type: the rows, the devices and what each request works
\* with, for any requests and however many calls of Traccar fail.
THEOREM Typing == Spec => []TypeOK
<1>1. TInv => TypeOK
  BY DEF TInv
<1> QED BY <1>1, TypeInit, TypeNext, PTL DEF Spec

-----------------------------------------------------------------------------
(* The stops and their geofences.                                           *)

RetireLabels == {"unfence", "ungroup", "wipe", "close"}
Clearing     == {"unfence", "ungroup", "wipe"}

\* The labels of each kind of request.
Placed(label, j) ==
  \/ j.op \in {"NEW_ROUTE", "STOPS"} /\ label \in {"group", "update"}
  \/ j.op = "STOPS" /\ label \in {"clear", "known", "fence", "link", "stops"}
  \/ j.op = "DEACTIVATE" /\ label \in RetireLabels
  \/ j.op \notin RouteOps /\ label \notin Clearing

\* The geofences an update has made or changed are there.
Whole(j) == j.op = "STOPS" => \A n \in 1 .. Len(j.made) : j.made[n] \in geofences

\* The invariant behind StopsFenced.
FInv ==
  /\ TInv /\ StopsFenced
  /\ \A r \in Running : Placed(pc[r], job[r]) /\ (unclean \/ Whole(job[r]))

\* A step of one request, seen from the places and geofences of all.
LEMMA PlacesKept ==
  ASSUME FInv, TInv', StopsFenced', NEW r \in Requests, NEW label, NEW j, Moves(r, label, j),
         unclean => unclean',
         unclean' \/ geofences \subseteq geofences' \/ \A q \in Running : job[q].op # "STOPS",
         label = "done" \/ (Placed(label, j) /\ (unclean' \/ Whole(j)'))
  PROVE  FInv'
<1>1. /\ pc'[r] = label /\ job'[r] = j
      /\ \A q \in Requests \ {r} : pc'[q] = pc[q] /\ job'[q] = job[q]
  BY DEF Moves
<1>2. ASSUME NEW q \in Requests, q \in Running'
      PROVE  (Placed(pc[q], job[q]))' /\ (unclean' \/ Whole(job[q])')
  <2>1. CASE q = r
    <3>1. label # "done"
      BY <1>1, <1>2, <2>1 DEF Running
    <3>2. Placed(label, j) /\ (unclean' \/ Whole(j)')
      BY <3>1
    <3> QED BY <1>1, <2>1, <3>2 DEF Placed, Whole
  <2>2. CASE q # r
    <3>1. q \in Running /\ pc'[q] = pc[q] /\ job'[q] = job[q]
      BY <1>1, <1>2, <2>2 DEF Running
    <3>2. Placed(pc[q], job[q]) /\ (unclean \/ Whole(job[q]))
      BY <3>1 DEF FInv
    <3>3. PICK k, l : k = job[q] /\ l = pc[q]
      OBVIOUS
    <3>4. unclean' \/ Whole(k)'
      BY <3>1, <3>2, <3>3 DEF Whole
    <3> QED BY <3>1, <3>2, <3>3, <3>4 DEF Placed, Whole
  <2> QED BY <2>1, <2>2
<1> QED BY <1>2 DEF FInv, Running

\* The same, with the requests that are about to delete the stops.
LEMMA FencesKept ==
  ASSUME FInv, NEW r \in Requests, NEW label, NEW j, Moves(r, label, j),
         pc[r] \notin Clearing, geofences \subseteq geofences', unclean => unclean',
         \A s \in stops' : s \in stops \/ s.fence \in geofences' \/ unclean'
  PROVE  StopsFenced'
<1> SUFFICES ASSUME ~unclean', \A q \in Running' : pc'[q] \notin Clearing, NEW s \in stops'
             PROVE  s.fence \in geofences'
  BY DEF StopsFenced, Clearing
<1>1. ASSUME NEW q \in Running PROVE pc[q] \notin Clearing
  <2>1. CASE q = r
    BY <2>1
  <2>2. CASE q # r
    <3>1. q \in Requests /\ pc'[q] = pc[q]
      BY <2>2 DEF Running, Moves
    <3>2. q \in Running'
      BY <1>1, <3>1 DEF Running
    <3> QED BY <3>1, <3>2
  <2> QED BY <2>1, <2>2
<1>2. ~unclean
  OBVIOUS
<1> QED BY <1>1, <1>2 DEF FInv, StopsFenced, Clearing

LEMMA FInit == Init => FInv
<1> SUFFICES ASSUME Init PROVE FInv
  OBVIOUS
<1>1. TInv
  BY TypeInit
<1>2. Running = {} /\ stops = {}
  BY DEF Init, ApiInit, RouteInit, Running
<1> QED BY <1>1, <1>2 DEF FInv, StopsFenced

\* What a step of an update does to its list of geofences and to the stops.
LEMMA UpdateKeeps ==
  ASSUME FInv, NEW r \in Requests, pc[r] \notin {"idle", "done"}, IsRouteJob(r), UpdateStep(r)
  PROVE  /\ pc[r] \notin Clearing
         /\ geofences \subseteq geofences' /\ unclean' = unclean
         /\ \A s \in stops' : s \in stops \/ s.fence \in geofences' \/ unclean
         /\ \/ pc'[r] = "done"
            \/ Placed(pc'[r], job[r]) /\ (unclean \/ Whole(job[r])')
<1> DEFINE j == job[r]
           Grows == geofences \subseteq geofences' /\ unclean' = unclean
           Kept == pc'[r] = "done" \/ (Placed(pc'[r], job[r]) /\ (unclean \/ Whole(job[r])'))
           NoNew == \A s \in stops' : s \in stops
<1>0. JobsTyped
  BY DEF FInv, TInv
<1>1. j \in RouteWork /\ r \in Running /\ Progress(pc[r], j)
  BY <1>0, WorkTyped
<1>2. pc[r] \in {"group", "update", "clear", "known", "fence", "link", "stops"}
  BY DEF UpdateStep, MakeGroup, SaveRoute, ClearStops, KnownFences, Fence, Link, SaveStops
<1>3. /\ Placed(pc[r], j) /\ (unclean \/ Whole(j)) /\ pc[r] \notin Clearing
      /\ j.op \in {"NEW_ROUTE", "STOPS"}
      /\ pc[r] \notin {"group", "update"} => j.op = "STOPS"
  BY <1>1, <1>2 DEF FInv, Placed, RetireLabels, Clearing, IsRouteJob
<1>4. r \in DOMAIN pc /\ r \in DOMAIN job
  BY <1>0 DEF JobsTyped
<1>5. Finish(r) => pc'[r] = "done"
  BY <1>4 DEF Finish, Goto
<1>6. j.made \in Seq(Ids) /\ Len(j.made) \in Nat
  BY <1>1, LenProperties DEF RouteWork
<1>7. ASSUME Grows, Placed(pc'[r], j), job'[r].made = j.made, job'[r].op = j.op PROVE Kept
  <2>1. unclean \/ Whole(job[r])'
    <3> HIDE DEF j
    <3> QED BY <1>3, <1>7 DEF Whole
  <2> QED BY <1>7, <2>1
<1>8. CASE MakeGroup(r)
  <2>1. Grows /\ NoNew
    BY <1>8 DEF MakeGroup, CreateGroup, Lost, Same, traccar, routeVars
  <2>2. pc'[r] = "done" \/ (pc'[r] = "update" /\ job'[r].made = j.made /\ job'[r].op = j.op)
    BY <1>1, <1>4, <1>5, <1>8 DEF MakeGroup, Goto, RouteWork
  <2>3. pc'[r] = "done" \/ Placed(pc'[r], j)
    BY <1>3, <2>2 DEF Placed
  <2> HIDE DEF Kept
  <2>4. Kept
    BY <1>7, <2>1, <2>2, <2>3 DEF Kept
  <2> QED BY <1>3, <2>1, <2>4 DEF Kept
<1>9. CASE SaveRoute(r)
  <2>1. Grows /\ NoNew
    BY <1>9 DEF SaveRoute, Same, traccar
  <2>2. pc'[r] = "done" \/ (pc'[r] = "clear" /\ job'[r].made = j.made /\ job'[r].op = j.op /\ j.op = "STOPS")
    BY <1>4, <1>5, <1>9 DEF SaveRoute, Goto
  <2>3. pc'[r] = "done" \/ Placed(pc'[r], j)
    BY <2>2 DEF Placed
  <2> HIDE DEF Kept
  <2>4. Kept
    BY <1>7, <2>1, <2>2, <2>3 DEF Kept
  <2> QED BY <1>3, <2>1, <2>4 DEF Kept
<1>10. CASE ClearStops(r)
  <2>1. Grows /\ NoNew
    BY <1>10 DEF ClearStops, traccar
  <2>2. pc'[r] = "known" /\ job'[r].made = j.made /\ job'[r].op = j.op /\ j.op = "STOPS"
    BY <1>3, <1>4, <1>10 DEF ClearStops, Goto
  <2>3. Placed(pc'[r], j)
    BY <2>2 DEF Placed
  <2> QED BY <1>3, <1>7, <2>1, <2>2, <2>3
<1>11. CASE KnownFences(r)
  <2>1. Grows /\ NoNew
    BY <1>11 DEF KnownFences, traccar, routeVars
  <2>2. pc'[r] \in {"stops", "fence"} /\ job'[r].made = j.made /\ job'[r].op = j.op /\ j.op = "STOPS"
    BY <1>1, <1>3, <1>4, <1>11 DEF KnownFences, Goto, RouteWork
  <2>3. Placed(pc'[r], j)
    BY <2>2 DEF Placed
  <2> QED BY <1>3, <1>7, <2>1, <2>2, <2>3
<1>12. CASE Fence(r)
  <2>1. Grows /\ NoNew
    BY <1>12 DEF Fence, UpdateGeofence, CreateGeofence, Lost, Same, traccar, routeVars
  <2>2. ASSUME NEW fence, Fenced(r, fence), fence \in geofences', fence \in Ids PROVE Kept
    <3>1. pc'[r] \in {"link", "stops", "fence"} /\ job'[r].made = Append(j.made, fence)
      BY <1>1, <1>4, <2>2 DEF Fenced, Goto, RouteWork
    <3>2. /\ Len(Append(j.made, fence)) = Len(j.made) + 1
          /\ Append(j.made, fence)[Len(j.made) + 1] = fence
          /\ \A n \in 1 .. Len(j.made) : Append(j.made, fence)[n] = j.made[n]
      BY <1>6, <2>2, AppendProperties
    <3>3. j.op = "STOPS"
      BY <1>3, <1>12 DEF Fence
    <3>4. unclean \/ \A n \in 1 .. Len(j.made) : j.made[n] \in geofences'
      BY <1>3, <2>1, <3>3 DEF Whole
    <3>5. Placed(pc'[r], j)
      BY <3>1, <3>3 DEF Placed
    <3> DEFINE made == Append(j.made, fence)
    <3> HIDE DEF j, made
    <3>6. unclean \/ \A n \in 1 .. Len(made) : made[n] \in geofences'
      <4>1. ASSUME NEW n \in 1 .. Len(made) PROVE n \in 1 .. Len(j.made) \/ n = Len(j.made) + 1
        BY <1>6, <3>2 DEF made
      <4> QED BY <2>2, <3>2, <3>4, <4>1 DEF made
    <3>7. unclean \/ Whole(job[r])'
      BY <3>1, <3>6 DEF Whole, made
    <3>8. Placed(pc'[r], job[r])
      BY <3>5 DEF j
    <3> QED BY <3>7, <3>8
  <2>3. pc'[r] = "done" \/ \E fence \in Ids : Fenced(r, fence) /\ fence \in geofences'
    <3>1. MaxIds \in Nat /\ ApiTypeOK
      BY ApiAssumptions DEF FInv, TInv, TypeOK
    <3>2. UpdateGeofence(j.list[At(j)]) => j.list[At(j)] \in Ids /\ j.list[At(j)] \in geofences'
      BY <3>1 DEF UpdateGeofence, Same, traccar, ApiTypeOK, Ids
    <3>3. CreateGeofence => Fresh \in Ids /\ Fresh \in geofences'
      BY <3>1 DEF CreateGeofence, Draw, Fresh, ApiTypeOK, Ids
    <3> QED BY <1>5, <1>12, <3>2, <3>3 DEF Fence
  <2> HIDE DEF Kept
  <2>4. Kept
    BY <2>2, <2>3 DEF Kept
  <2> QED BY <1>3, <2>1, <2>4 DEF Kept
<1>13. CASE Link(r)
  <2>1. Grows /\ NoNew
    BY <1>13 DEF Link, LinkGeofenceToGroup, Lost, Same, traccar, routeVars
  <2>2. \/ pc'[r] = "done"
        \/ pc'[r] \in {"stops", "fence"} /\ job'[r].made = j.made /\ job'[r].op = j.op /\ j.op = "STOPS"
    BY <1>3, <1>4, <1>5, <1>13 DEF Link, Goto
  <2>3. pc'[r] = "done" \/ Placed(pc'[r], j)
    BY <2>2 DEF Placed
  <2> HIDE DEF Kept
  <2>4. Kept
    BY <1>7, <2>1, <2>2, <2>3 DEF Kept
  <2> QED BY <1>3, <2>1, <2>4 DEF Kept
<1>14. CASE SaveStops(r)
  <2>1. Grows /\ geofences' = geofences
    BY <1>14 DEF SaveStops, traccar
  <2>2. unclean \/ \A s \in NewStops(r) : s.fence \in geofences
    <3>1. j.op = "STOPS"
      BY <1>3, <1>14 DEF SaveStops
    <3> QED BY <1>3, <1>6, <3>1 DEF NewStops, Whole
  <2>3. \A s \in stops' : s \in stops \/ s \in NewStops(r)
    BY <1>14 DEF SaveStops
  <2>4. pc'[r] = "done"
    BY <1>5, <1>14 DEF SaveStops
  <2> QED BY <1>3, <2>1, <2>2, <2>3, <2>4
<1> QED BY <1>8, <1>9, <1>10, <1>11, <1>12, <1>13, <1>14 DEF UpdateStep

\* What a deactivation leaves, step by step.
LEMMA RetireKeeps ==
  ASSUME FInv, NEW r \in Requests, pc[r] \notin {"idle", "done"}, IsRouteJob(r), RetireStep(r)
  PROVE  /\ job[r].op = "DEACTIVATE" /\ (unclean => unclean')
         /\ unclean' \/ geofences \subseteq geofences' \/ \A q \in Running : job[q].op # "STOPS"
         /\ pc'[r] = "done" \/ pc'[r] \in RetireLabels
         /\ \/ pc'[r] \in Clearing
            \/ unclean' \/ stops' = {}
            \/ pc[r] = "close" /\ UNCHANGED <<stops, geofences>>
<1>0. JobsTyped
  BY DEF FInv, TInv
<1>1. r \in Running /\ r \in DOMAIN pc /\ r \in DOMAIN job
  BY <1>0 DEF Running, JobsTyped
<1>2. pc[r] \in RetireLabels
  BY DEF RetireStep, RetireLabels, Unfence, Ungroup, Wipe, CloseRoute
<1>3. job[r].op = "DEACTIVATE"
  BY <1>1, <1>2 DEF FInv, Placed, RetireLabels, IsRouteJob
<1>4. CASE Unfence(r)
  <2>1. pc'[r] \in Clearing
    BY <1>1, <1>4 DEF Unfence, Goto, Clearing
  <2>2. CASE job[r].todo = {}
    <3>1. geofences' = geofences /\ unclean' = unclean
      BY <1>4, <2>2 DEF Unfence, Same, traccar
    <3> QED BY <1>3, <2>1, <3>1 DEF Clearing, RetireLabels
  <2>3. CASE job[r].todo # {}
    <3>1. unclean' = (unclean \/ \E q \in Running : job[q].op = "STOPS")
      BY <1>4, <2>3 DEF Unfence
    <3>2. (unclean => unclean') /\ (unclean' \/ \A q \in Running : job[q].op # "STOPS")
      BY <3>1
    <3> QED BY <1>3, <2>1, <3>2 DEF Clearing, RetireLabels
  <2> QED BY <2>2, <2>3
<1>5. CASE Ungroup(r)
  <2>1. pc'[r] = "wipe" /\ unclean' = unclean /\ geofences' = geofences
    BY <1>1, <1>5 DEF Ungroup, Goto, Lost, DeleteGroup, Same, traccar, routeVars
  <2> QED BY <1>3, <2>1 DEF Clearing, RetireLabels
<1>6. CASE Wipe(r)
  <2>1. pc'[r] = "close" /\ geofences' = geofences
    BY <1>1, <1>6 DEF Wipe, Goto, traccar
  <2>2. (unclean => unclean') /\ (unclean' \/ stops' = {})
    BY <1>6 DEF Wipe, Wiped
  <2> QED BY <1>3, <2>1, <2>2 DEF RetireLabels
<1>7. CASE CloseRoute(r)
  <2>1. pc'[r] = "done" /\ UNCHANGED <<stops, geofences, unclean>> /\ pc[r] = "close"
    BY <1>1, <1>7 DEF CloseRoute, Finish, Goto, traccar
  <2> QED BY <1>3, <2>1
<1> QED BY <1>4, <1>5, <1>6, <1>7 DEF RetireStep

LEMMA FRoute ==
  ASSUME FInv, TInv', NEW r \in Requests, RouteStep(r)
  PROVE  FInv'
<1>0. TInv /\ JobsTyped
  BY DEF FInv, TInv
<1>1. pc[r] \notin {"idle", "done"} /\ IsRouteJob(r) /\ r \in Running
  BY DEF RouteStep, Running
<1>2. RouteGoes(r)
  BY <1>0, <1>1, RouteSteps DEF RouteStep
<1>3. PICK label, j : /\ Moves(r, label, j)
                      /\ label = "done" \/ (label # "idle" /\ j.op = job[r].op)
  BY <1>2 DEF RouteGoes
<1>4. pc'[r] = label /\ job'[r] = j
  BY <1>3 DEF Moves
<1>5. CASE UpdateStep(r)
  <2>1. /\ pc[r] \notin Clearing
        /\ geofences \subseteq geofences' /\ unclean' = unclean
        /\ \A s \in stops' : s \in stops \/ s.fence \in geofences' \/ unclean
        /\ \/ pc'[r] = "done"
           \/ Placed(pc'[r], job[r]) /\ (unclean \/ Whole(job[r])')
    BY <1>1, <1>5, UpdateKeeps
  <2>2. StopsFenced'
    BY <1>3, <2>1, FencesKept
  <2>3. label = "done" \/ Placed(label, j)
    BY <1>3, <1>4, <2>1 DEF Placed
  <2>4. label = "done" \/ unclean' \/ Whole(j)'
    BY <1>4, <2>1 DEF Whole
  <2> QED BY <1>3, <2>1, <2>2, <2>3, <2>4, PlacesKept
<1>6. CASE RetireStep(r)
  <2>1. /\ job[r].op = "DEACTIVATE" /\ (unclean => unclean')
        /\ unclean' \/ geofences \subseteq geofences' \/ \A q \in Running : job[q].op # "STOPS"
        /\ pc'[r] = "done" \/ pc'[r] \in RetireLabels
        /\ \/ pc'[r] \in Clearing
           \/ unclean' \/ stops' = {}
           \/ pc[r] = "close" /\ UNCHANGED <<stops, geofences>>
    BY <1>1, <1>6, RetireKeeps
  <2>2. label = "done" \/ (Placed(label, j) /\ Whole(j)')
    BY <1>3, <1>4, <2>1 DEF Placed, Whole
  <2>3. StopsFenced'
    <3>1. CASE pc'[r] \in Clearing
      <4>1. r \in Running'
        BY <3>1 DEF Running, Clearing
      <4> QED BY <3>1, <4>1 DEF StopsFenced, Clearing
    <3>2. CASE unclean' \/ stops' = {}
      BY <3>2 DEF StopsFenced
    <3>3. CASE pc[r] = "close" /\ UNCHANGED <<stops, geofences>>
      BY <1>3, <2>1, <3>3, FencesKept DEF Clearing
    <3> QED BY <2>1, <3>1, <3>2, <3>3
  <2> QED BY <1>3, <2>1, <2>2, <2>3, PlacesKept
<1>7. CASE CutOffRoute(r)
  <2>1. label = "done" /\ (unclean => unclean') /\ UNCHANGED <<geofences, stops>>
        /\ (pc[r] \in Clearing => unclean')
    BY <1>0, <1>4, <1>7 DEF CutOffRoute, Finish, Goto, JobsTyped, traccar, Clearing
  <2>2. StopsFenced'
    <3>1. CASE pc[r] \in Clearing
      BY <2>1, <3>1 DEF StopsFenced
    <3>2. CASE pc[r] \notin Clearing
      BY <1>3, <2>1, <3>2, FencesKept
    <3> QED BY <3>1, <3>2
  <2> QED BY <1>3, <2>1, <2>2, PlacesKept
<1> QED BY <1>5, <1>6, <1>7 DEF RouteStep

LEMMA FNext == FInv /\ [Next]_vars => FInv'
<1> SUFFICES ASSUME FInv, [Next]_vars PROVE FInv'
  OBVIOUS
<1>0. TInv /\ JobsTyped /\ TInv'
  BY TypeNext DEF FInv, TInv
<1>1. CASE UNCHANGED vars
  BY <1>0, <1>1 DEF vars, apiVars, traccar, vehicleVars, routeVars, FInv, Placed, StopsFenced,
     Running, IsRouteJob, Whole
<1>2. ASSUME NEW r \in Requests, NEW label, NEW j, Moves(r, label, j), pc[r] \notin Clearing,
             label = "done" \/ (Placed(label, j) /\ Whole(j)'),
             UNCHANGED <<stops, unclean, geofences>>
      PROVE  FInv'
  <2>1. StopsFenced'
    BY <1>2, FencesKept
  <2> QED BY <1>0, <1>2, <2>1, PlacesKept
<1>3. \A k \in VehicleJob : k.op \notin RouteOps
  BY DEF VehicleJob, VehicleOps, RouteOps
<1>4. ASSUME NEW r \in Requests, BeginVehicle(r), UNCHANGED routeVars PROVE FInv'
  <2>1. pc[r] = "idle" /\ UNCHANGED traccar
    BY <1>0, <1>4, VehicleBegins
  <2>2. PICK k \in VehicleJob : Moves(r, First(k), k)
    BY <1>0, <1>4, VehicleBegins
  <2>3. UNCHANGED <<stops, unclean, geofences>> /\ pc[r] \notin Clearing
    BY <1>4, <2>1 DEF traccar, routeVars, Clearing
  <2>4. First(k) \notin Clearing
    BY DEF First, Clearing
  <2>5. Placed(First(k), k) /\ Whole(k)'
    BY <1>3, <2>4 DEF Placed, Whole, RouteOps
  <2> QED BY <1>2, <2>2, <2>3, <2>5
<1>5. ASSUME NEW r \in Requests, VehicleStep(r), UNCHANGED routeVars PROVE FInv'
  <2>1. UNCHANGED geofences
    BY <1>0, <1>5, VehicleSteps DEF VehicleStep
  <2>2. job[r] \in VehicleJob
    BY <1>0, <1>5, WorkTyped DEF VehicleStep
  <2>3. pc[r] \notin Clearing
    <3>1. r \in Running
      BY <1>5 DEF VehicleStep, Running
    <3>2. job[r].op \notin {"NEW_ROUTE", "STOPS", "DEACTIVATE"}
      BY <1>3, <2>2 DEF RouteOps
    <3> QED BY <3>1, <3>2 DEF FInv, Placed
  <2>4. PICK label, j : Moves(r, label, j) /\ (label = "done" \/ (j.op \notin RouteOps /\ label \notin Clearing))
    <3> DEFINE Fine(l, j) == Moves(r, l, j) /\ (l = "done" \/ (j.op \notin RouteOps /\ l \notin Clearing))
    <3>1. CASE Moves(r, "done", NoJob)
      BY <3>1
    <3>2. ASSUME NEW label \in {"check", "create", "uncache", "drop", "save", "cache"}, NEW d \in 0 .. MaxIds,
                 Moves(r, label, [job[r] EXCEPT !.new.device = d])
          PROVE  \E l, j : Fine(l, j)
      <4>1. [job[r] EXCEPT !.new.device = d].op = job[r].op
        BY <2>2 DEF VehicleJob
      <4>2. label \notin Clearing
        BY DEF Clearing
      <4> QED BY <1>3, <2>2, <3>2, <4>1, <4>2
    <3>3. \/ Moves(r, "done", NoJob)
          \/ \E label \in {"check", "create", "uncache", "drop", "save", "cache"}, d \in 0 .. MaxIds :
               Moves(r, label, [job[r] EXCEPT !.new.device = d])
      BY <1>0, <1>5, VehicleSteps DEF VehicleStep
    <3> HIDE DEF Fine
    <3>4. \E l, j : Fine(l, j)
      BY <3>1, <3>2, <3>3 DEF Fine
    <3> QED BY <3>4 DEF Fine
  <2>5. label = "done" \/ (Placed(label, j) /\ Whole(j)')
    BY <2>4 DEF Placed, Whole, RouteOps
  <2> QED BY <1>2, <1>5, <2>1, <2>3, <2>4, <2>5 DEF routeVars
<1>6. ASSUME NEW r \in Requests, BeginRoute(r) PROVE FInv'
  <2>1. UNCHANGED traccar /\ UNCHANGED routeVars /\ pc[r] = "idle"
    BY <1>0, <1>6, RouteBegins
  <2>2. PICK j \in RouteWork : RouteStart(r, j)
    BY <1>0, <1>6, RouteBegins
  <2>3. UNCHANGED <<stops, unclean, geofences>> /\ pc[r] \notin Clearing
    BY <2>1 DEF traccar, routeVars, Clearing
  <2>4. Len(<<>>) = 0
    BY EmptySeq
  <2>5. PICK label : Moves(r, label, j) /\ Placed(label, j)
    BY <2>2 DEF RouteStart, Placed, RetireLabels
  <2>6. Whole(j)'
    <3>1. j.made = <<>>
      BY <2>2 DEF RouteStart
    <3>2. \A n \in 1 .. Len(j.made) : j.made[n] \in geofences'
      BY <2>4, <3>1
    <3> QED BY <3>2 DEF Whole
  <2> QED BY <1>2, <2>3, <2>5, <2>6
<1>7. ASSUME NEW r \in Requests, RouteStep(r) PROVE FInv'
  BY <1>0, <1>7, FRoute
<1> QED BY <1>1, <1>4, <1>5, <1>6, <1>7, Steps

\* Each stop of the route has a geofence that Traccar knows, unless a deactivation is
\* still to delete the stops, has failed half-way, or deleted geofences beside an update:
\* updates that overlap, fail or are cut off anywhere between their calls leave no stop
\* that vehicles cannot report (update-route-stops inserts stops only when all their
\* geofences were made).
THEOREM StopsHaveFences == Spec => []StopsFenced
<1>1. FInv => StopsFenced
  BY DEF FInv
<1> QED BY <1>1, FInit, FNext, PTL DEF Spec

-----------------------------------------------------------------------------
(* The stops of a direction.                                                *)

StopsOf(dir) == {s \in stops : s.direction = dir}

\* Rows that are the list 1 .. n, each once and of its kind.
WholeList(list, n) ==
  /\ {s.order : s \in list} = 1 .. n
  /\ \A s, t \in list : s.order = t.order => s = t
  /\ \A s \in list : s.kind = Kind(s.order, n)

\* The invariant behind ListsWhole.
LInv == \A dir \in Directions : \E n \in Nat : WholeList(StopsOf(dir), n)

\* Such a list has n rows.
LEMMA WholeListCounts ==
  ASSUME NEW list, NEW n \in Nat, WholeList(list, n)
  PROVE  Cardinality(list) = n
<1> DEFINE at == [k \in 1 .. n |-> CHOOSE s \in list : s.order = k]
<1>1. ASSUME NEW k \in 1 .. n PROVE at[k] \in list /\ at[k].order = k
  <2>1. \E s \in list : s.order = k
    BY DEF WholeList
  <2> QED BY <2>1
<1>2. at \in [1 .. n -> list]
  BY <1>1
<1>3. \A k, l \in 1 .. n : at[k] = at[l] => k = l
  <2> HIDE DEF at
  <2> QED BY <1>1
<1>4. ASSUME NEW s \in list PROVE \E k \in 1 .. n : at[k] = s
  <2>1. s.order \in 1 .. n
    BY DEF WholeList
  <2>2. at[s.order] \in list /\ at[s.order].order = s.order
    BY <1>1, <2>1
  <2> HIDE DEF at
  <2> QED BY <2>1, <2>2 DEF WholeList
<1> HIDE DEF at
<1>5. at \in Bijection(1 .. n, list)
  BY <1>2, <1>3, <1>4 DEF Bijection, Injection, IsInjective, Surjection
<1>6. ExistsBijection(1 .. n, list)
  BY <1>5 DEF ExistsBijection
<1> QED BY <1>6, FS_CountingElements

LEMMA LNext ==
  ASSUME TInv, LInv, [Next]_vars
  PROVE  LInv'
<1>0. TInv /\ JobsTyped
  BY DEF TInv
<1>1. WholeList({}, 0)
  BY DEF WholeList
<1>2. stops' = stops => LInv'
  BY DEF LInv, StopsOf
<1>3. ASSUME NEW r \in Requests, RouteStep(r), stops' # stops PROVE LInv'
  <2> DEFINE j == job[r]
             made == j.made
             m == Len(made)
  <2>1. j \in RouteWork
    BY <1>0, <1>3, WorkTyped DEF RouteStep
  <2>2. m \in Nat /\ j.direction \in Directions
    BY <2>1, LenProperties DEF RouteWork
  <2>3. \/ stops' = {s \in stops : s.direction # j.direction}
        \/ Free(NewStops(r)) /\ stops' = stops \cup NewStops(r)
        \/ stops' = {}
    BY <1>3 DEF RouteStep, UpdateStep, RetireStep, MakeGroup, SaveRoute, ClearStops, KnownFences, Fence,
                Link, SaveStops, Unfence, Ungroup, Wipe, CloseRoute, CutOffRoute, routeVars, Wiped
  <2>4. ASSUME NEW dir \in Directions, StopsOf(dir)' = StopsOf(dir) \/ StopsOf(dir)' = {}
        PROVE  \E n \in Nat : WholeList(StopsOf(dir)', n)
    BY <1>1, <2>4 DEF LInv
  <2>5. CASE stops' = {s \in stops : s.direction # j.direction} \/ stops' = {}
    <3>1. ASSUME NEW dir \in Directions PROVE StopsOf(dir)' = StopsOf(dir) \/ StopsOf(dir)' = {}
      BY <2>5 DEF StopsOf
    <3> QED BY <2>4, <3>1 DEF LInv
  <2>6. CASE Free(NewStops(r)) /\ stops' = stops \cup NewStops(r)
    <3> DEFINE new(n) == [direction |-> j.direction, order |-> n, fence |-> made[n],
                          kind |-> Kind(n, m), by |-> r]
    <3>1. NewStops(r) = {new(n) : n \in 1 .. m}
      BY DEF NewStops
    <3>2. \A n : new(n).direction = j.direction /\ new(n).order = n /\ new(n).kind = Kind(n, m)
      OBVIOUS
    <3> HIDE DEF new, made, m
    <3>0. PICK own \in Directions : own = j.direction
      BY <2>2
    <3>3. ASSUME NEW dir \in Directions, dir # own PROVE StopsOf(dir)' = StopsOf(dir)
      BY <2>6, <3>0, <3>1, <3>2, <3>3 DEF StopsOf
    <3>4. m > 0
      BY <1>3, <2>2, <2>6, <3>1
    <3>5. StopsOf(own) = {}
      <4>1. PICK n \in Nat : WholeList(StopsOf(own), n)
        BY DEF LInv
      <4>2. new(1) \in NewStops(r)
        BY <2>2, <3>1, <3>4
      <4>3. \A s \in StopsOf(own) : s.order # 1
        BY <2>6, <3>0, <3>2, <4>2 DEF Free, StopsOf
      <4>4. 1 \notin 1 .. n
        BY <4>1, <4>3 DEF WholeList
      <4> QED BY <4>1, <4>4 DEF WholeList
    <3>6. StopsOf(own)' = NewStops(r)
      BY <2>6, <3>0, <3>1, <3>2, <3>5 DEF StopsOf
    <3>7. WholeList(NewStops(r), m)
      <4>1. {s.order : s \in NewStops(r)} = 1 .. m
        BY <3>1, <3>2
      <4>2. \A s \in NewStops(r) : \E n \in 1 .. m : s = new(n)
        BY <3>1
      <4> QED BY <3>2, <4>1, <4>2 DEF WholeList
    <3>8. ASSUME NEW dir \in Directions PROVE \E n \in Nat : WholeList(StopsOf(dir)', n)
      BY <2>2, <2>4, <3>0, <3>3, <3>6, <3>7, <3>8
    <3> QED BY <3>8 DEF LInv
  <2> QED BY <2>3, <2>5, <2>6
<1>4. UNCHANGED vars => stops' = stops
  BY DEF vars, routeVars
<1>5. \A r \in Requests : BeginRoute(r) => stops' = stops
  BY DEF BeginRoute, routeVars
<1> QED BY <1>2, <1>3, <1>4, <1>5, Steps DEF routeVars

\* The stops of a direction are one whole list or none: no order twice, none missing,
\* the first the only START and the last, of several, the only END.  Updates overlap
\* and fail between the delete and the insert, but the insert is all or none, and the
\* unique constraint on direction and order refuses a list where another one stands.
THEOREM StopsAreWholeLists == Spec => []ListsWhole
<1>1. Init => LInv
  <2> SUFFICES ASSUME Init PROVE LInv
    OBVIOUS
  <2>1. stops = {}
    BY DEF Init, RouteInit
  <2>2. \A dir : StopsOf(dir) = {}
    BY <2>1 DEF StopsOf
  <2>3. WholeList({}, 0)
    BY DEF WholeList
  <2> QED BY <2>2, <2>3 DEF LInv
<1>2. TInv /\ LInv /\ [Next]_vars => TInv' /\ LInv'
  BY TypeNext, LNext
<1>3. LInv => ListsWhole
  <2> SUFFICES ASSUME LInv, NEW dir \in Directions
               PROVE  /\ {s.order : s \in StopsOf(dir)} = 1 .. Cardinality(StopsOf(dir))
                      /\ \A s \in StopsOf(dir) : s.kind = Kind(s.order, Cardinality(StopsOf(dir)))
    BY DEF ListsWhole, StopsOf
  <2>1. PICK n \in Nat : WholeList(StopsOf(dir), n)
    BY DEF LInv
  <2>2. Cardinality(StopsOf(dir)) = n
    BY <2>1, WholeListCounts
  <2> QED BY <2>1, <2>2 DEF WholeList
<1> QED BY <1>1, <1>2, <1>3, TypeInit, PTL DEF Spec
=============================================================================

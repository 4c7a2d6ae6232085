---------------------------- MODULE VehicleDevices ----------------------------
(***************************************************************************)
(* Vehicles, the devices they have in Traccar and the routing of devices   *)
(* to vehicles in the satellite cache: the handlers that create, update,   *)
(* change the status of and delete a vehicle.  Each reads the row first,   *)
(* calls Traccar, saves the row and brings the cache up to date, in an     *)
(* order of its own and without undoing anything when a step fails.        *)
(*                                                                         *)
(* A request refused for its plate changes nothing and is left out.        *)
(* Requests overlap, for one vehicle too: nothing locks its row between    *)
(* the read and the save of the whole entity.                              *)
(***************************************************************************)
EXTENDS TraccarApi

CONSTANT Vehicles

VARIABLES rows,     \* the table vehicles; a row that is not there is NoRow
          routing,  \* the keys of the cache: <<device, the vehicle it shows>>
          amiss     \* history: vehicles a request left half done (its save failed
                    \* after the device was deleted, or it was cut off between two
                    \* effects), or changed while another one for them was under way

vehicleVars == <<rows, routing, amiss>>

-----------------------------------------------------------------------------
NoRow == [status |-> "NONE", imei |-> NoImei, device |-> 0]

\* TALLER is treated as OPERATIVO is: both work, BAJA does not.
Statuses == {"OPERATIVO", "BAJA"}

VehicleOps == {"CREATE", "UPDATE", "STATUS", "DELETE"}

VehicleInit ==
  /\ rows = [v \in Vehicles |-> NoRow]
  /\ routing = {}
  /\ amiss = {}

IsVehicleJob(r) == job[r].op \in VehicleOps

\* The requests under way for a vehicle.
WorkOn(v) == {r \in Running : IsVehicleJob(r) /\ job[r].vehicle = v}

Retires(j)     == j.new.status = "BAJA" /\ j.old.status # "BAJA"
Reactivates(j) == j.new.status # "BAJA" /\ j.old.status = "BAJA"

\* Does the request delete the device before its save?
DeviceGone(j) == j.op \in {"UPDATE", "STATUS"} /\ Retires(j) /\ j.old.device # 0

\* Where a request goes first: the row it wants, but for its device, is job.new.
First(j) ==
  IF DeviceGone(j) THEN "uncache"
  ELSE IF /\ j.new.imei # NoImei
          /\ j.new.imei # j.old.imei \/ Reactivates(j)
          /\ ~(j.op = "UPDATE" /\ Retires(j))
  THEN "check" ELSE "save"

\* Faulty variant: retiring a vehicle leaves traccar_id as it was.
KeptOnRetiring(j) == IF j.new.imei = NoImei THEN 0 ELSE j.old.device

\* The device is kept unless the identifier changes or the vehicle is retired.
KeptDevice(j) ==
  IF Retires(j) \/ j.new.imei = NoImei THEN 0 ELSE j.old.device

Begin(r, j) ==
  /\ pc[r] = "idle" /\ Room
  /\ job' = [job EXCEPT ![r] = [j EXCEPT !.new.device = KeptDevice(j)]]
  /\ Goto(r, First(j))
  /\ UNCHANGED <<traccar, failures, vehicleVars>>

Job(op, v, status, imei) ==
  [op |-> op, vehicle |-> v, old |-> rows[v],
   new |-> [status |-> status, imei |-> imei, device |-> 0]]

\* The vehicle is the one this request will insert.
BeginCreate(r, v) ==
  /\ rows[v] = NoRow /\ WorkOn(v) = {}
  /\ \E s \in Statuses, i \in Imeis \cup {NoImei} : Begin(r, Job("CREATE", v, s, i))

BeginUpdate(r, v) ==
  /\ rows[v] # NoRow
  /\ \E s \in Statuses, i \in Imeis \cup {NoImei} : Begin(r, Job("UPDATE", v, s, i))

\* Retiring clears the identifier, nothing else changes it.
BeginStatus(r, v) ==
  /\ rows[v] # NoRow
  /\ \E s \in Statuses :
       Begin(r, Job("STATUS", v, s, IF s = "BAJA" /\ rows[v].status # "BAJA"
                                    THEN NoImei ELSE rows[v].imei))

BeginDelete(r, v) == rows[v] # NoRow /\ Begin(r, Job("DELETE", v, "BAJA", NoImei))

BeginVehicle(r) ==
  \E v \in Vehicles :
    BeginCreate(r, v) \/ BeginUpdate(r, v) \/ BeginStatus(r, v) \/ BeginDelete(r, v)

\* An err of Traccar ends the request, but for a change of status, which is saved
\* all the same.
Refused(r) ==
  IF job[r].op = "STATUS" THEN Goto(r, "save") /\ UNCHANGED job ELSE Finish(r)

\* checkDeviceExists; an identifier that exists is taken over by a reactivation,
\* with whatever device the row had.
CheckDevice(r) ==
  /\ pc[r] = "check"
  /\ Same
  /\ \/ /\ Ok
        /\ IF ~HasDevice(job[r].new.imei) THEN Goto(r, "create") /\ UNCHANGED job
           ELSE IF job[r].op = "UPDATE" /\ Reactivates(job[r])
           THEN Goto(r, "save") /\ UNCHANGED job
           ELSE Refused(r)
     \/ Fails /\ Refused(r)
  /\ UNCHANGED vehicleVars

Register(r) ==
  /\ pc[r] = "create"
  /\ \/ /\ Ok /\ CreateDevice(job[r].new.imei)
        /\ job' = [job EXCEPT ![r].new.device = Fresh]
        /\ Goto(r, "save")
     \/ Ok /\ HasDevice(job[r].new.imei) /\ Same /\ Refused(r)
     \/ Lost(CreateDevice(job[r].new.imei)) /\ Refused(r)
  /\ UNCHANGED vehicleVars

\* What request r changes of its vehicle is amiss if another one is under way for it,
\* which has read the vehicle before, and has yet to save or to show it.
Changes(r) ==
  LET v == job[r].vehicle
  IN  amiss' = IF WorkOn(v) = {r} THEN amiss ELSE amiss \cup {v}

RemoveState(device) == {k \in routing : k[1] # device}

\* removeVehicleState
Uncache(r) ==
  /\ pc[r] = "uncache"
  /\ routing' = RemoveState(job[r].old.device)
  /\ Goto(r, "drop")
  /\ Changes(r)
  /\ UNCHANGED <<traccar, failures, job, rows>>

\* deleteDevice, whose answer nobody looks at.
Drop(r) ==
  /\ pc[r] = "drop"
  /\ \/ Ok /\ DeleteDevice(job[r].old.device)
     \/ Lost(DeleteDevice(job[r].old.device))
  /\ IF job[r].op = "DELETE" THEN Finish(r) ELSE Goto(r, "save") /\ UNCHANGED job
  /\ Changes(r)
  /\ UNCHANGED <<rows, routing>>

\* The columns traccar_device_id and traccar_id are unique.
Clash(v, row) ==
  \E w \in Vehicles \ {v} : \/ row.imei # NoImei /\ rows[w].imei = row.imei
                            \/ row.device # 0 /\ rows[w].device = row.device

Saved(j) == IF j.op = "DELETE" THEN IF j.old.device # 0 THEN "uncache" ELSE "done"
            ELSE "cache"

SaveVehicle(r) ==
  LET j == job[r]
      v == j.vehicle
  IN  /\ pc[r] = "save"
      /\ \/ /\ Ok /\ ~Clash(v, j.new)
            /\ rows' = [rows EXCEPT ![v] = j.new]
            /\ IF Saved(j) = "done" THEN Finish(r) ELSE Goto(r, Saved(j)) /\ UNCHANGED job
            /\ Changes(r)
         \/ /\ (Ok /\ Clash(v, j.new)) \/ Fails
            /\ amiss' = IF DeviceGone(j) THEN amiss \cup {v} ELSE amiss
            /\ Finish(r)
            /\ UNCHANGED rows
      /\ UNCHANGED <<traccar, routing>>

\* Faulty variant: the key of the device the vehicle had is left behind.
LeftBehind(j) == {}

\* An update removes the key of the device it had, when it has another or none.
Stale(j) == IF j.op = "UPDATE" THEN {j.old.device} \ {j.new.device} ELSE {}

\* Faulty variant: a vehicle without a device is shown too.
ShowsAll(j) == j.op = "STATUS" => j.new.status # "BAJA"

\* A change of status shows only a vehicle that works.
Shows(j) == j.new.device # 0 /\ (j.op = "STATUS" => j.new.status # "BAJA")

\* setVehicleState
SetState(keys, device, v) == {k \in keys : k[1] # device} \cup {<<device, v>>}

Cache(r) ==
  /\ pc[r] = "cache"
  /\ LET j    == job[r]
         kept == {k \in routing : k[1] \notin Stale(j)}
     IN  routing' = IF Shows(j) THEN SetState(kept, j.new.device, j.vehicle) ELSE kept
  /\ Finish(r)
  /\ Changes(r)
  /\ UNCHANGED <<traccar, failures, rows>>

\* Has the request changed one of the row, the device and the cache, and not yet the
\* others?
HalfDone(r) ==
  \/ pc[r] = "cache"
  \/ pc[r] = "uncache" /\ job[r].op = "DELETE"
  \/ pc[r] = "drop" /\ job[r].op # "DELETE"
  \/ pc[r] = "save" /\ DeviceGone(job[r])

\* Redis throws, or the process dies, within the request.
CutOffVehicle(r) ==
  /\ r \in Running /\ IsVehicleJob(r)
  /\ Fails
  /\ amiss' = IF HalfDone(r) THEN amiss \cup {job[r].vehicle} ELSE amiss
  /\ Finish(r)
  /\ UNCHANGED <<traccar, rows, routing>>

VehicleRequest(r) ==
  \/ BeginVehicle(r)
  \/ IsVehicleJob(r) /\ (\/ CheckDevice(r) \/ Register(r) \/ Uncache(r) \/ Drop(r)
                         \/ SaveVehicle(r) \/ Cache(r))
  \/ CutOffVehicle(r)

-----------------------------------------------------------------------------
Row == [status : Statuses, imei : Imeis \cup {NoImei}, device : 0 .. MaxIds]

VehicleTypeOK ==
  /\ rows \in [Vehicles -> Row \cup {NoRow}]
  /\ routing \subseteq (1 .. MaxIds) \X Vehicles
  /\ amiss \subseteq Vehicles

\* No request for the vehicle is between two of its effects.
Settled(v) == \A r \in WorkOn(v) : ~HalfDone(r)

\* The device a row names is there: whatever calls of Traccar and saves fail, a
\* settled vehicle has a device that Traccar knows, or none.  It keeps a dead one only
\* if a retirement failed after deleteDevice, which comes before the save
\* (update-vehicle, update-vehicle-status), or if a request changed it while another
\* was under way, which saved what it had read before.
DevicesLive ==
  \A v \in Vehicles \ amiss :
    Settled(v) /\ rows[v].device # 0 => \E d \in devices : d.id = rows[v].device

\* The cache routes to a settled vehicle exactly the device its row names, through
\* every change of identifier and status, every failure but one between two effects, and
\* beside every request that changes nothing of the vehicle meanwhile.
RoutingFollowsRows ==
  \A v \in Vehicles \ amiss : Settled(v) =>
    {k[1] : k \in {l \in routing : l[2] = v}} = {rows[v].device} \ {0}
=============================================================================

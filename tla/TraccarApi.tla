------------------------------ MODULE TraccarApi ------------------------------
(***************************************************************************)
(* Traccar as TraccarProvider shows it to the handlers: the devices of the *)
(* vehicles, the groups of the routes, the geofences of their stops and    *)
(* the links of geofences to groups; and the frame of the requests that    *)
(* call it.  Every method of the provider answers ok or err and throws     *)
(* nothing.  An err may come before Traccar did anything, or after it did  *)
(* what it was asked and the answer was lost.  A wrong request (an id that *)
(* is not there, an identifier that is taken) is an err too.               *)
(***************************************************************************)
EXTENDS Naturals, FiniteSets, Sequences

CONSTANTS Requests,
          Imeis,        \* uniqueIds of devices
          MaxIds,       \* bound: the ids Traccar gives out
          MaxFailures,  \* bound: calls that fail, and requests that are cut off
          MaxInFlight   \* bound: requests the server works on at the same time

ASSUME ApiAssumptions ==
  /\ MaxIds \in Nat \ {0}
  /\ MaxFailures \in Nat
  /\ MaxInFlight \in Nat \ {0}

VARIABLES devices,    \* the devices in Traccar: id and uniqueId
          groups,     \* ids of its groups
          geofences,  \* ids of its geofences
          links,      \* <<group, geofence>>
          lastId,     \* the last id given out, of any kind
          failures,
          pc,         \* where each request is
          job         \* what it works with

traccar == <<devices, groups, geofences, links, lastId>>
apiVars == <<traccar, failures, pc, job>>

-----------------------------------------------------------------------------
NoImei == "null"
NoJob  == [op |-> "NONE"]

ApiInit ==
  /\ devices = {}
  /\ groups = {}
  /\ geofences = {}
  /\ links = {}
  /\ lastId = 0
  /\ failures = 0
  /\ pc = [r \in Requests |-> "idle"]
  /\ job = [r \in Requests |-> NoJob]

Running == {r \in Requests : pc[r] \notin {"idle", "done"}}
Room    == Cardinality(Running) < MaxInFlight

Goto(r, label) == pc' = [pc EXCEPT ![r] = label]

Finish(r) ==
  /\ Goto(r, "done")
  /\ job' = [job EXCEPT ![r] = NoJob]

Ok == UNCHANGED failures

Fails ==
  /\ failures < MaxFailures
  /\ failures' = failures + 1

Same == UNCHANGED traccar

\* A call whose answer is err has done nothing, or all it was asked.
Lost(done) == Fails /\ (Same \/ done)

Fresh == lastId + 1
Draw  == lastId < MaxIds /\ lastId' = Fresh

HasDevice(imei) == \E d \in devices : d.imei = imei

CreateDevice(imei) ==
  /\ ~HasDevice(imei)
  /\ Draw
  /\ devices' = devices \cup {[id |-> Fresh, imei |-> imei]}
  /\ UNCHANGED <<groups, geofences, links>>

DeleteDevice(id) ==
  /\ devices' = {d \in devices : d.id # id}
  /\ UNCHANGED <<groups, geofences, links, lastId>>

CreateGroup ==
  /\ Draw
  /\ groups' = groups \cup {Fresh}
  /\ UNCHANGED <<devices, geofences, links>>

DeleteGroup(id) ==
  /\ groups' = groups \ {id}
  /\ links' = {l \in links : l[1] # id}
  /\ UNCHANGED <<devices, geofences, lastId>>

CreateGeofence ==
  /\ Draw
  /\ geofences' = geofences \cup {Fresh}
  /\ UNCHANGED <<devices, groups, links>>

\* Its name and its area change, of a geofence that is there.
UpdateGeofence(id) == id \in geofences /\ Same

DeleteGeofence(id) ==
  /\ geofences' = geofences \ {id}
  /\ links' = {l \in links : l[2] # id}
  /\ UNCHANGED <<devices, groups, lastId>>

Linked(group) == {l[2] : l \in {k \in links : k[1] = group}}

LinkGeofenceToGroup(group, fence) ==
  /\ group \in groups /\ fence \in geofences
  /\ links' = links \cup {<<group, fence>>}
  /\ UNCHANGED <<devices, groups, geofences, lastId>>

-----------------------------------------------------------------------------
ApiTypeOK ==
  /\ devices \subseteq [id : 1 .. MaxIds, imei : Imeis]
  /\ groups \subseteq 1 .. MaxIds
  /\ geofences \subseteq 1 .. MaxIds
  /\ links \subseteq groups \X geofences
  /\ lastId \in 0 .. MaxIds
  /\ failures \in 0 .. MaxFailures
=============================================================================

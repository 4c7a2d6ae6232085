-------------------------- MODULE TraccarProvisioning --------------------------
(***************************************************************************)
(* The server handling requests for vehicles and for the stops of a route  *)
(* at the same time, with one Traccar behind both.                         *)
(***************************************************************************)
EXTENDS VehicleDevices, RouteStops

vars == <<apiVars, vehicleVars, routeVars>>

Init ==
  /\ ApiInit
  /\ VehicleInit
  /\ RouteInit

Next ==
  \E r \in Requests : \/ VehicleRequest(r) /\ UNCHANGED routeVars
                      \/ RouteRequest(r) /\ UNCHANGED vehicleVars

Spec == Init /\ [][Next]_vars

TypeOK == ApiTypeOK /\ VehicleTypeOK /\ RouteTypeOK
=============================================================================

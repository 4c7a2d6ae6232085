------------------------------ MODULE RouteStops ------------------------------
(***************************************************************************)
(* A route, its stops and their geofences in Traccar: the handlers that    *)
(* create a route and that update or deactivate it.  An update deletes the *)
(* stops of a direction, makes or changes a geofence per stop and links it *)
(* to the group of the route, and saves the new stops at the end; an error *)
(* on the way ends it there, with the stops deleted.  A deactivation       *)
(* deletes what Traccar has of the route, then the stops.                  *)
(*                                                                         *)
(* Updates and deactivations overlap.  The lists of stops carry the orders *)
(* 1, 2, ...                                                               *)
(***************************************************************************)
EXTENDS TraccarApi

CONSTANT MaxStops \* bound: the stops of a list

ASSUME StopsAssumption == MaxStops \in Nat

VARIABLES route,  \* the row of the route: is it active, its group
          stops,  \* the table route_stops
          unclean \* history: a deactivation has failed after it deleted geofences,
                  \* or has deleted them while an update was under way

routeVars == <<route, stops, unclean>>

-----------------------------------------------------------------------------
NoRoute == [active |-> FALSE, group |-> 0, there |-> FALSE]

Directions == {"IDA", "VUELTA"}

RouteOps == {"NEW_ROUTE", "STOPS", "DEACTIVATE"}

RouteInit ==
  /\ route = NoRoute
  /\ stops = {}
  /\ unclean = FALSE

IsRouteJob(r) == job[r].op \in RouteOps

RouteJob(op) == [op |-> op, direction |-> "IDA", list |-> <<>>, new |-> route,
                 seen |-> {s.by : s \in stops}, todo |-> {}, known |-> {}, made |-> <<>>]

StartRoute(r, j, label) ==
  /\ job' = [job EXCEPT ![r] = j]
  /\ Goto(r, label)

\* The geofences of a request's list: 0 for a stop that has none yet, or one the
\* client has seen, which may be gone.
Seen  == (1 .. lastId) \ (groups \cup {d.id : d \in devices})
Lists == {list \in UNION {[1 .. n -> {0} \cup Seen] : n \in 0 .. MaxStops} :
            \A m, n \in DOMAIN list : m # n => list[m] # list[n] \/ list[m] = 0}

\* An active route without a group gets one; the row is saved if a column was sent.
StopsLabels(active) ==
  IF active /\ route.group = 0 THEN {"group"}
  ELSE IF active = route.active THEN {"update", "clear"} ELSE {"update"}

BeginStops(r) ==
  /\ route.there
  /\ \E dir \in Directions, list \in Lists, active \in {route.active, TRUE} :
       \E label \in StopsLabels(active) :
         StartRoute(r, [RouteJob("STOPS") EXCEPT !.direction = dir, !.list = list,
                                                 !.new.active = active], label)

\* The route is the one this request will insert.
BeginNew(r) ==
  /\ ~route.there /\ \A q \in Running : ~IsRouteJob(q)
  /\ StartRoute(r, RouteJob("NEW_ROUTE"), "group")

BeginDeactivation(r) ==
  /\ route.there
  /\ StartRoute(r, [RouteJob("DEACTIVATE") EXCEPT !.todo = {s.fence : s \in stops}], "unfence")

BeginRoute(r) ==
  /\ pc[r] = "idle" /\ Room
  /\ BeginNew(r) \/ BeginStops(r) \/ BeginDeactivation(r)
  /\ UNCHANGED <<traccar, failures, routeVars>>

\* createGroup; its err ends both requests.
MakeGroup(r) ==
  /\ pc[r] = "group"
  /\ \/ /\ Ok /\ CreateGroup
        /\ job' = [job EXCEPT ![r].new = [active |-> TRUE, group |-> Fresh, there |-> TRUE]]
        /\ Goto(r, "update")
     \/ Lost(CreateGroup) /\ Finish(r)
  /\ UNCHANGED routeVars

\* The columns that differ from what the row holds now are written, those of an
\* older reading too.  The entity carries the stops it was read with: TypeORM takes
\* the route from any inserted since, which the NOT NULL of route_id refuses.
Keeps(r) == {s.by : s \in stops} \subseteq job[r].seen

SaveRoute(r) ==
  /\ pc[r] = "update"
  /\ Same
  /\ \/ /\ Ok /\ Keeps(r)
        /\ route' = job[r].new
        /\ IF job[r].op = "STOPS" THEN Goto(r, "clear") /\ UNCHANGED job ELSE Finish(r)
     \/ ((Ok /\ ~Keeps(r)) \/ Fails) /\ Finish(r) /\ UNCHANGED route
  /\ UNCHANGED <<stops, unclean>>

\* deleteStopsByRoute, whose result nobody looks at.
ClearStops(r) ==
  /\ pc[r] = "clear"
  /\ \/ Ok /\ stops' = {s \in stops : s.direction # job[r].direction}
     \/ Fails /\ UNCHANGED stops
  /\ Goto(r, "known")
  /\ UNCHANGED <<traccar, job, route, unclean>>

\* getGeofences of the group; an err leaves the list of known ones empty.
KnownFences(r) ==
  /\ pc[r] = "known"
  /\ \/ Ok /\ job' = [job EXCEPT ![r].known = Linked(job[r].new.group)]
     \/ Fails /\ UNCHANGED job
  /\ Goto(r, IF job[r].list = <<>> THEN "stops" ELSE "fence")
  /\ UNCHANGED <<traccar, routeVars>>

\* The stop the loop is at, and where the loop goes when it has its geofence.
At(j) == Len(j.made) + 1

Fenced(r, fence) ==
  LET j == job[r]
      unlinked == j.new.group # 0 /\ fence \notin j.known
  IN  /\ job' = [job EXCEPT ![r].made = Append(@, fence)]
      /\ Goto(r, IF unlinked THEN "link"
                 ELSE IF At(j) = Len(j.list) THEN "stops" ELSE "fence")

\* updateGeofence or createGeofence for the next stop.
Fence(r) ==
  LET given == job[r].list[At(job[r])]
  IN  /\ pc[r] = "fence"
      /\ \/ given # 0 /\ Ok /\ UpdateGeofence(given) /\ Fenced(r, given)
         \/ given # 0 /\ given \notin geofences /\ Ok /\ Same /\ Finish(r)
         \/ given # 0 /\ Fails /\ Same /\ Finish(r)
         \/ given = 0 /\ Ok /\ CreateGeofence /\ Fenced(r, Fresh)
         \/ given = 0 /\ Lost(CreateGeofence) /\ Finish(r)
      /\ UNCHANGED routeVars

Link(r) ==
  LET j     == job[r]
      fence == j.made[Len(j.made)]
  IN  /\ pc[r] = "link"
      /\ \/ /\ Ok /\ LinkGeofenceToGroup(j.new.group, fence)
            /\ Goto(r, IF Len(j.made) = Len(j.list) THEN "stops" ELSE "fence")
            /\ UNCHANGED job
         \/ /\ Ok /\ ~(j.new.group \in groups /\ fence \in geofences) /\ Same
            /\ Finish(r)
         \/ Lost(LinkGeofenceToGroup(j.new.group, fence)) /\ Finish(r)
      /\ UNCHANGED routeVars

Kind(n, length) ==
  IF n = 1 THEN "START" ELSE IF n = length THEN "END" ELSE "CHECKPOINT"

\* by, the request that inserts it, stands for the identity of a row.
NewStops(r) ==
  LET j == job[r]
  IN  {[direction |-> j.direction, order |-> n, fence |-> j.made[n],
        kind |-> Kind(n, Len(j.made)), by |-> r] : n \in 1 .. Len(j.made)}

\* Faulty variant: no unique constraint.
Admitted(rows) == TRUE

\* Unique (route, order, direction).
Free(rows) ==
  \A s \in stops, t \in rows : ~(s.direction = t.direction /\ s.order = t.order)

\* saveStops inserts all or none.
SaveStops(r) ==
  /\ pc[r] = "stops"
  /\ \/ Ok /\ Free(NewStops(r)) /\ stops' = stops \cup NewStops(r)
     \/ ((Ok /\ ~Free(NewStops(r))) \/ Fails) /\ UNCHANGED stops
  /\ Finish(r)
  /\ UNCHANGED <<traccar, route, unclean>>

-----------------------------------------------------------------------------
\* A deactivation: the geofences of the stops it read, the group, the stops, the row.
Unfence(r) ==
  /\ pc[r] = "unfence"
  /\ IF job[r].todo = {}
     THEN Ok /\ Same /\ Goto(r, IF job[r].new.group # 0 THEN "ungroup" ELSE "wipe")
          /\ UNCHANGED <<job, unclean>>
     ELSE \E g \in job[r].todo :
            /\ (Ok /\ DeleteGeofence(g)) \/ Lost(DeleteGeofence(g))
            /\ job' = [job EXCEPT ![r].todo = @ \ {g}]
            /\ unclean' = (unclean \/ \E q \in Running : job[q].op = "STOPS")
            /\ UNCHANGED pc
  /\ UNCHANGED <<route, stops>>

Ungroup(r) ==
  /\ pc[r] = "ungroup"
  /\ LET g == job[r].new.group IN (Ok /\ DeleteGroup(g)) \/ Lost(DeleteGroup(g))
  /\ Goto(r, "wipe")
  /\ UNCHANGED <<job, routeVars>>

\* Faulty variant: the stops of one direction are deleted.
Outbound == {s \in stops : s.direction = "IDA"}

Wiped == stops

Wipe(r) ==
  /\ pc[r] = "wipe"
  /\ \/ Ok /\ stops' = stops \ Wiped /\ UNCHANGED unclean
     \/ Fails /\ unclean' = TRUE /\ UNCHANGED stops
  /\ Goto(r, "close")
  /\ UNCHANGED <<traccar, job, route>>

CloseRoute(r) ==
  /\ pc[r] = "close"
  /\ \/ Ok /\ Keeps(r) /\ route' = [route EXCEPT !.active = FALSE, !.group = 0]
     \/ ((Ok /\ ~Keeps(r)) \/ Fails) /\ UNCHANGED route
  /\ Finish(r)
  /\ UNCHANGED <<traccar, stops, unclean>>

\* The process dies within the request.
CutOffRoute(r) ==
  /\ r \in Running /\ IsRouteJob(r)
  /\ Fails
  /\ unclean' = (unclean \/ pc[r] \in {"unfence", "ungroup", "wipe"})
  /\ Finish(r)
  /\ UNCHANGED <<traccar, route, stops>>

RouteRequest(r) ==
  \/ BeginRoute(r)
  \/ IsRouteJob(r) /\ (\/ MakeGroup(r) \/ SaveRoute(r) \/ ClearStops(r) \/ KnownFences(r)
                       \/ Fence(r) \/ Link(r) \/ SaveStops(r)
                       \/ Unfence(r) \/ Ungroup(r) \/ Wipe(r) \/ CloseRoute(r))
  \/ CutOffRoute(r)

-----------------------------------------------------------------------------
Stop == [direction : Directions, order : 1 .. MaxStops, fence : 1 .. MaxIds,
         kind : {"START", "CHECKPOINT", "END"}, by : Requests]

RouteTypeOK ==
  /\ route \in [active : BOOLEAN, group : 0 .. MaxIds, there : BOOLEAN]
  /\ stops \subseteq Stop
  /\ unclean \in BOOLEAN

\* The stops of a direction are one whole list or none, however updates overlap and
\* fail: no order twice, none missing, the first the only START and the last, of
\* several, the only END.  The webhook looks up START and END by this.
ListsWhole ==
  \A dir \in Directions :
    LET mine == {s \in stops : s.direction = dir}
        n    == Cardinality(mine)
    IN  /\ {s.order : s \in mine} = 1 .. n
        /\ \A s \in mine : s.kind = Kind(s.order, n)

\* Each stop has a geofence that Traccar knows, so that vehicles can report it, unless
\* a deactivation is still to delete the stops, has failed half-way, or deleted
\* geofences that an update under way was about to use.
StopsFenced ==
  ~unclean /\ (\A r \in Running : pc[r] \notin {"unfence", "ungroup", "wipe"}) =>
    \A s \in stops : s.fence \in geofences
=============================================================================

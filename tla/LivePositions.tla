----------------------------- MODULE LivePositions -----------------------------
(***************************************************************************)
(* From Traccar's socket to the screens: MonitoringGateway keeps the last  *)
(* position of each vehicle in the cache and sends it, with the ticket the *)
(* cache shows, to the rooms of the tenant; DriverGateway sends a driver   *)
(* the vehicle he works with.  The handler of a message is async and the   *)
(* stream does not wait for it, so that messages are handled at the same   *)
(* time; the cache's one connection to Redis answers in order.  A call of  *)
(* Redis that fails ends the handler it is made in.                        *)
(*                                                                         *)
(* One tenant; all its vehicles are routed (TraccarProvisioning), and the  *)
(* cache is not reloaded (TicketCreation).  A message is known by its      *)
(* number, and so is a position: by that of the message that brought it.   *)
(* A ticket without a driver ("No asignado") goes the way of one whose     *)
(* driver has no app.                                                      *)
(***************************************************************************)
EXTENDS TraccarSocket, Sequences, FiniteSets

CONSTANTS Vehicles,
          Drivers,
          MaxMessages, \* bound: the messages Traccar sends
          MaxChanges,  \* bound: calls of setDailyTicketId
          MaxClients,  \* bound: clients that connect, of a staff user and a visitor
          MaxTroubles  \* bound: calls of Redis that fail and outages of Traccar, together

ASSUME LiveAssumptions ==
  /\ IsFiniteSet(Vehicles)
  /\ MaxMessages \in Nat
  /\ MaxChanges \in Nat
  /\ MaxClients \in 1 .. 2
  /\ MaxTroubles \in Nat

VARIABLES last,     \* the number of the last message
          batches,  \* the messages being handled
          position, \* <tenant>_cache_vehiculos: 0 for none
          ticket,   \* <tenant>_cache_tickets: the ticket's driver, or NoTicket
          change,   \* the call of setDailyTicketId under way, or NoChange
          changes,
          staff,    \* a client with a token: where its connection is
          snapshot, \* the positions handleConnection has read for it
          board,    \* the position of each vehicle it was last sent, 0 for none
          unsent,   \* history: vehicles that a handler which failed had cached, and that
                    \* no message has been sent of, nor the client has read, since
          visitor,  \* a client of the public widget: where its connection is
          widget,   \* what it has been sent: vehicles, with the ticket read for them
          app,      \* the vehicle the app of each driver shows, or NoVehicle
          failures

feedVars   == <<last, batches, position>>
changeVars == <<ticket, change, changes>>
roomVars   == <<staff, snapshot, board, unsent, visitor, widget, app>>
vars == <<socketVars, feedVars, changeVars, roomVars, failures>>

-----------------------------------------------------------------------------
NoTicket   == "null"
NoVehicle  == "none"
NoChange   == [at |-> "none"]
Tickets    == {NoTicket} \cup Drivers
NoPosition == [v \in Vehicles |-> 0]

\* The vehicles a driver has today's ticket of.
Holders(d) == {v \in Vehicles : ticket[v] = d}

Init ==
  /\ SocketInit
  /\ last = 0
  /\ batches = {}
  /\ position = NoPosition
  /\ ticket \in [Vehicles -> Tickets]
  /\ \A d \in Drivers : Cardinality(Holders(d)) <= 1
  /\ change = NoChange
  /\ changes = 0
  /\ staff = "out"
  /\ snapshot = NoPosition
  /\ board = NoPosition
  /\ unsent = {}
  /\ visitor = "out"
  /\ widget = {}
  /\ app = [d \in Drivers |-> NoVehicle]
  /\ failures = 0

-----------------------------------------------------------------------------
\* The vehicles of a message, in its order: one, or several when Traccar sends what
\* it has at the start of a connection.
Orders == {s \in UNION {[1 .. n -> Vehicles] : n \in 1 .. Cardinality(Vehicles)} :
             \A i, j \in DOMAIN s : i # j => s[i] # s[j]}

\* handleSocketMessage: positions$.next
Message ==
  /\ ws = "open" /\ last < MaxMessages
  /\ last' = last + 1
  /\ \E s \in Orders :
       batches' = batches \cup
         {[number |-> last + 1, list |-> s, at |-> 1, step |-> "update", seen |-> <<>>]}
  /\ UNCHANGED <<socketVars, position, changeVars, roomVars>>

Vehicle(b) == b.list[b.at]

\* The steps of a handler, in order: three for each position, and the last.
Rank(b) == 3 * b.at + (CASE b.step = "update" -> 0 [] b.step = "read" -> 1 [] OTHER -> 2)

\* Faulty variant: each call of the cache takes a connection of a pool.
AnyTurn(b) == TRUE

\* A call leaves behind those of the handlers of earlier messages, and the replies
\* come in the order of the calls.
InTurn(b) == \A a \in batches : a.number < b.number => Rank(a) > Rank(b)

Becomes(b, c) == batches' = (batches \ {b}) \cup {c}

\* The HSET of updateLastPosition.
CachesPosition(b) ==
  /\ b.at <= Len(b.list) /\ b.step = "update" /\ InTurn(b)
  /\ position' = [position EXCEPT ![Vehicle(b)] = b.number]

UpdateLastPosition(b) ==
  /\ CachesPosition(b)
  /\ Becomes(b, [b EXCEPT !.step = "read"])
  /\ UNCHANGED <<socketVars, last, changeVars, roomVars>>

\* getVehicleState
ReadState(b) ==
  /\ b.step = "read" /\ InTurn(b)
  /\ Becomes(b, [b EXCEPT !.step = "emit", !.seen = Append(@, ticket[Vehicle(b)])])
  /\ UNCHANGED <<socketVars, last, position, changeVars, roomVars>>

\* Faulty variant: an app is cleared as a ticket is.
ShowsNull(d, v) == [app EXCEPT ![d] = IF v = NoVehicle THEN NoTicket ELSE v]

Shows(d, v) == [app EXCEPT ![d] = v]

\* emitPositionToDriver, to the driver of the state that was read, who need no
\* longer be the vehicle's.
EmitToDriver(b) ==
  /\ b.step = "emit" /\ InTurn(b)
  /\ LET t == b.seen[b.at]
     IN  app' = IF t \in Drivers THEN Shows(t, Vehicle(b)) ELSE app
  /\ Becomes(b, [b EXCEPT !.step = "update", !.at = @ + 1])
  /\ UNCHANGED <<socketVars, last, position, changeVars, staff, snapshot, board, unsent,
                 visitor, widget>>

\* Faulty variant: the room is joined once the positions have been sent.
InRoomLate == staff = "in"

\* handleConnection joins the room of the tenant before it reads.
InRoom == staff \in {"joined", "read", "in"}

\* The vehicles of the first n positions of a message.
Begun(b, n) == {b.list[i] : i \in 1 .. n}

\* The room of the tenant, and the public one for vehicles with a ticket, at the end.
EmitToRooms(b) ==
  /\ b.at > Len(b.list)
  /\ batches' = batches \ {b}
  /\ unsent' = unsent \ Begun(b, Len(b.list))
  /\ board' = IF ~InRoom THEN board
              ELSE [v \in Vehicles |-> IF \E i \in DOMAIN b.list : b.list[i] = v
                                       THEN b.number ELSE board[v]]
  /\ widget' = IF visitor = "out" THEN widget
               ELSE widget \cup {<<b.list[i], b.seen[i]>> :
                                   i \in {j \in DOMAIN b.list : b.seen[j] # NoTicket}}
  /\ UNCHANGED <<socketVars, last, position, changeVars, staff, snapshot, visitor, app>>

\* The catch around the handler: what it has cached stays, and nothing of its message
\* is sent to the rooms.
Abandon(b, n) ==
  /\ batches' = batches \ {b}
  /\ unsent' = unsent \cup Begun(b, n)

\* A call of the handler fails; an HSET may have been done all the same.
HandlerFails(b) ==
  /\ \/ /\ b.at <= Len(b.list) /\ b.step = "update" /\ InTurn(b)
        /\ Abandon(b, b.at - 1)
        /\ UNCHANGED position
     \/ CachesPosition(b) /\ Abandon(b, b.at)
     \/ /\ b.step = "read" /\ InTurn(b)
        /\ Abandon(b, b.at)
        /\ UNCHANGED position
  /\ UNCHANGED <<socketVars, last, changeVars, staff, snapshot, board, visitor, widget, app>>

-----------------------------------------------------------------------------
\* The lastPosition of a state read from _cache_tickets: positions are kept in
\* another hash, and setVehicleState and the preload leave them out of the state.
StateOf(v) == 0

\* setDailyTicketId: the state is read, and written with the new ticket.  One call is
\* under way at a time (those that overlap are in TicketCreation); one that changes no
\* more than the round is not seen here.
BeginChange ==
  /\ change = NoChange /\ changes < MaxChanges
  /\ changes' = changes + 1
  /\ \E v \in Vehicles, t \in Tickets :
       /\ t # ticket[v] /\ (t \in Drivers => Holders(t) = {})
       /\ change' = [at |-> "hset", vehicle |-> v, new |-> t, previous |-> ticket[v],
                     lastPosition |-> StateOf(v)]
  /\ UNCHANGED <<socketVars, feedVars, ticket, roomVars>>

WriteTicket ==
  /\ change.at = "hset"
  /\ ticket' = [ticket EXCEPT ![change.vehicle] = change.new]
  /\ change' = [change EXCEPT !.at = "notify"]
  /\ UNCHANGED <<socketVars, feedVars, changes, roomVars>>

\* MonitoringGateway sends the rooms the lastPosition of the new state, if there is
\* one.
NotifyRooms(c) ==
  IF c.lastPosition = 0 THEN UNCHANGED <<board, widget>>
  ELSE /\ board' = IF InRoom THEN [board EXCEPT ![c.vehicle] = c.lastPosition] ELSE board
       /\ widget' = IF visitor # "out" /\ c.new # NoTicket
                    THEN widget \cup {<<c.vehicle, c.new>>} ELSE widget

\* DriverGateway: the driver the state names is sent the vehicle, if the state has a
\* lastPosition; the app of the one it was taken from is cleared.
NotifyDrivers(c) ==
  app' = [d \in Drivers |->
            CASE d = c.new /\ c.lastPosition # 0 -> Shows(d, c.vehicle)[d]
              [] d = c.previous /\ d # c.new     -> Shows(d, NoVehicle)[d]
              [] OTHER                           -> app[d]]

\* cacheUpdates$.next calls both subscribers.
Notify ==
  /\ change.at = "notify"
  /\ change' = NoChange
  /\ NotifyRooms(change)
  /\ NotifyDrivers(change)
  /\ UNCHANGED <<socketVars, feedVars, ticket, changes, staff, snapshot, unsent, visitor>>

\* The write fails, or has been done and its reply is lost: nobody is notified.
ChangeFails ==
  /\ change.at = "hset"
  /\ ticket' \in {ticket, [ticket EXCEPT ![change.vehicle] = change.new]}
  /\ change' = NoChange
  /\ UNCHANGED <<socketVars, feedVars, changes, roomVars>>

-----------------------------------------------------------------------------
Joins(client, other) == client = "out" /\ (other = "out" \/ MaxClients > 1)

StaffJoins ==
  /\ Joins(staff, visitor)
  /\ staff' = "joined"
  /\ UNCHANGED <<snapshot, board, unsent>>

\* getLatestPositionsByTenant
StaffReads ==
  /\ staff = "joined"
  /\ staff' = "read"
  /\ snapshot' = position
  /\ unsent' = {}
  /\ UNCHANGED board

\* Sent over whatever the room has brought in between.
StaffIsSent ==
  /\ staff = "read"
  /\ staff' = "in"
  /\ board' = [v \in Vehicles |-> IF snapshot[v] = 0 THEN board[v] ELSE snapshot[v]]
  /\ snapshot' = NoPosition
  /\ UNCHANGED unsent

VisitorJoins ==
  /\ Joins(visitor, staff)
  /\ visitor' = "joined"
  /\ UNCHANGED widget

\* The first positions of a visitor, of all vehicles that have one.
VisitorIsSent ==
  /\ visitor = "joined"
  /\ visitor' = "in"
  /\ widget' = widget \cup {<<v, ticket[v]>> : v \in {w \in Vehicles : position[w] # 0}}

\* The page of the widget asks over HTTP, for vehicles with a ticket; what it asks
\* before it connects is no different.
VisitorAsks ==
  /\ visitor = "in"
  /\ widget' = widget \cup
       {<<v, ticket[v]>> : v \in {w \in Vehicles : position[w] # 0 /\ ticket[w] # NoTicket}}
  /\ UNCHANGED visitor

Connection ==
  /\ \/ (StaffJoins \/ StaffReads \/ StaffIsSent) /\ UNCHANGED <<visitor, widget>>
     \/ (VisitorJoins \/ VisitorIsSent \/ VisitorAsks) /\ UNCHANGED <<staff, snapshot, board, unsent>>
  /\ UNCHANGED <<socketVars, feedVars, changeVars, app>>

\* The reading of a client that connects fails: it is disconnected, and comes back.
ConnectionFails ==
  /\ \/ staff = "joined" /\ staff' = "out" /\ UNCHANGED visitor
     \/ visitor = "joined" /\ visitor' = "out" /\ UNCHANGED staff
  /\ UNCHANGED <<socketVars, feedVars, changeVars, snapshot, board, unsent, widget, app>>

\* getLatestPositionByDriver: the vehicle of a driver, if it has a position.
LocatedVehicle(d) == {v \in Holders(d) : position[v] # 0}

\* DriverGateway.handleConnection: an app that connects, again and again, is sent it.
AppConnects ==
  /\ \E d \in Drivers : \E v \in LocatedVehicle(d) : app' = Shows(d, v)
  /\ UNCHANGED <<socketVars, feedVars, changeVars, staff, snapshot, board, unsent, visitor,
                 widget>>

-----------------------------------------------------------------------------
Serves ==
  \/ SocketNext /\ UNCHANGED <<feedVars, changeVars, roomVars>>
  \/ Message
  \/ \E b \in batches : \/ UpdateLastPosition(b) \/ ReadState(b)
                        \/ EmitToDriver(b) \/ EmitToRooms(b)
  \/ BeginChange \/ WriteTicket \/ Notify
  \/ Connection
  \/ AppConnects

\* A call of Redis fails.
RedisFails ==
  \/ \E b \in batches : HandlerFails(b)
  \/ ChangeFails
  \/ ConnectionFails

Next ==
  \/ Serves /\ UNCHANGED failures /\ failures + outages' <= MaxTroubles
  \/ failures + outages < MaxTroubles /\ RedisFails /\ failures' = failures + 1

Spec == Init /\ [][Next]_vars

FairSpec == Spec /\ SocketFairness

-----------------------------------------------------------------------------
Batch == [number : 1 .. MaxMessages, list : Orders, at : 1 .. Cardinality(Vehicles) + 1,
          step : {"update", "read", "emit"}, seen : Seq(Tickets)]

TypeOK ==
  /\ SocketTypeOK
  /\ last \in 0 .. MaxMessages
  /\ batches \subseteq Batch
  /\ position \in [Vehicles -> 0 .. MaxMessages]
  /\ ticket \in [Vehicles -> Tickets]
  /\ change.at \in {"none", "hset", "notify"}
  /\ changes \in 0 .. MaxChanges
  /\ staff \in {"out", "joined", "read", "in"}
  /\ snapshot \in [Vehicles -> 0 .. MaxMessages]
  /\ board \in [Vehicles -> 0 .. MaxMessages]
  /\ unsent \subseteq Vehicles
  /\ visitor \in {"out", "joined", "in"}
  /\ widget \subseteq Vehicles \X Tickets
  /\ app \in [Drivers -> Vehicles \cup {NoVehicle}]
  /\ failures \in 0 .. MaxTroubles

\* A client that has connected, at whatever moment of the handling of messages, misses
\* a vehicle that has a position, once the messages are handled, only if the handler of
\* a message had cached it, failed before it sent it, and that after the client had
\* read the positions; and only until the next message of the vehicle.
NothingMissed ==
  staff = "in" /\ batches = {} =>
    \A v \in Vehicles \ unsent : position[v] # 0 => board[v] # 0

\* The cached position of a vehicle goes back to an older one only by a message that
\* carries several, for a vehicle that is not its first: single positions that
\* follow each other closely keep their order, although their handlers overlap.
BackwardOnlyInBursts ==
  [][\A v \in Vehicles : position'[v] < position[v] =>
       \E b \in batches : b.number = position'[v] /\ Vehicle(b) = v /\ b.at > 1]_vars

\* monitoring.gateway.ts:104 says of a visitor's first positions that they are those
\* of dispatched vehicles only, as those of the stream are: no visitor is sent a
\* vehicle without a ticket.
DispatchedOnly == \A s \in widget : s[2] # NoTicket

\* driver.gateway.ts:131 says that a driver who is assigned a vehicle is notified of
\* it: the call that gives him a vehicle with a position has his app show it, before
\* any further message does.
AssignmentTold ==
  [][change.at = "notify" /\ change' = NoChange
     /\ change.new \in Drivers /\ position[change.vehicle] # 0 /\ batches = {} =>
       app'[change.new] = change.vehicle]_vars
=============================================================================

-------------------------- MODULE LivePositionsProofs --------------------------
(***************************************************************************)
(* What LivePositions guarantees for any vehicles, drivers, messages,      *)
(* clients and outages.                                                    *)
(***************************************************************************)
EXTENDS LivePositions, FiniteSetTheorems, SequenceTheorems, TLAPS

\* OneAttempt and what it rests on: nothing is on its way before onModuleInit has
\* loaded the cache, and isConnecting is set exactly while a login or a handshake is.
Attempt ==
  /\ OneAttempt
  /\ login => isConnecting
  /\ isConnecting \in BOOLEAN /\ login \in BOOLEAN /\ timer \in BOOLEAN
  /\ ws \in {"none", "opening", "open"}
  /\ ws = "opening" => isConnecting
  /\ ~loaded => ~login /\ ~timer /\ ~isConnecting /\ ws = "none"

LEMMA AttemptInit == SocketInit => Attempt
  BY DEF SocketInit, Attempt, OneAttempt

LEMMA AttemptNext ==
  ASSUME Attempt, SocketNext
  PROVE  Attempt'
<1>1. CASE Loaded
  BY <1>1 DEF Loaded, Connect, Attempt, OneAttempt, traccarVars
<1>2. CASE LoginAnswered
  <2>1. login /\ isConnecting /\ loaded /\ ~timer /\ ws = "none"
    BY <1>2 DEF LoginAnswered, Attempt, OneAttempt
  <2>2. login' = FALSE /\ loaded'
    BY <2>1, <1>2 DEF LoginAnswered
  <2>3. CASE ws' = "opening" /\ UNCHANGED <<isConnecting, timer>>
    BY <2>1, <2>2, <2>3 DEF Attempt, OneAttempt
  <2>4. CASE isConnecting' = FALSE /\ ScheduleReconnect /\ UNCHANGED ws
    <3>1. timer' \in BOOLEAN /\ isConnecting' = FALSE /\ ws' = "none"
      BY <2>1, <2>4 DEF ScheduleReconnect
    <3>2. QED
      BY <2>2, <3>1 DEF Attempt, OneAttempt
  <2>5. QED
    BY <1>2, <2>3, <2>4 DEF LoginAnswered
<1>3. CASE Opened
  BY <1>3 DEF Opened, Attempt, OneAttempt, traccarVars
<1>4. CASE Closed
  BY <1>4 DEF Closed, ConnectingAfterClose, ScheduleReconnect, Attempt, OneAttempt, traccarVars
<1>5. CASE TimerFires
  BY <1>5 DEF TimerFires, Connect, Attempt, OneAttempt, traccarVars
<1>6. CASE Destroy
  BY <1>6 DEF Destroy, CloseConnection, Attempt, OneAttempt, traccarVars
<1>7. CASE GoesDown \/ ComesUp
  BY <1>7 DEF GoesDown, ComesUp, linkVars, Attempt, OneAttempt
<1>8. QED
  BY <1>1, <1>2, <1>3, <1>4, <1>5, <1>6, <1>7 DEF SocketNext

\* Nothing but the service itself touches the socket.
LEMMA AttemptKept ==
  ASSUME Attempt, UNCHANGED socketVars
  PROVE  Attempt'
  BY DEF socketVars, traccarVars, linkVars, Attempt, OneAttempt

\* A step is one of the socket's, or leaves the socket as it is.
LEMMA SocketStep ==
  ASSUME [Next]_vars
  PROVE  SocketNext \/ UNCHANGED socketVars
<1>1. CASE SocketNext /\ UNCHANGED <<feedVars, changeVars, roomVars>>
  BY <1>1
<1>2. CASE Message
  BY <1>2 DEF Message
<1>3. ASSUME NEW b \in batches,
             UpdateLastPosition(b) \/ ReadState(b) \/ EmitToDriver(b) \/ EmitToRooms(b)
      PROVE  UNCHANGED socketVars
  BY <1>3 DEF UpdateLastPosition, ReadState, EmitToDriver, EmitToRooms
<1>4. CASE BeginChange \/ WriteTicket \/ Notify
  BY <1>4 DEF BeginChange, WriteTicket, Notify
<1>5. CASE Connection \/ AppConnects
  BY <1>5 DEF Connection, AppConnects
<1>6. CASE RedisFails
  BY <1>6 DEF RedisFails, HandlerFails, ChangeFails, ConnectionFails
<1>7. CASE UNCHANGED vars
  BY <1>7 DEF vars
<1>8. QED
  BY <1>1, <1>2, <1>3, <1>4, <1>5, <1>6, <1>7 DEF Next, Serves

\* There is one timer, login or socket at a time, however often Traccar goes away and
\* whenever the service is stopped (TraccarSocketService.connectToTraccar).
THEOREM OneConnection == Spec => []OneAttempt
<1>1. Init => Attempt
  BY AttemptInit DEF Init
<1>2. Attempt /\ [Next]_vars => Attempt'
  BY SocketStep, AttemptNext, AttemptKept
<1>3. Attempt => OneAttempt
  BY DEF Attempt
<1>4. QED
  BY <1>1, <1>2, <1>3, PTL DEF Spec

-----------------------------------------------------------------------------
(* The types.  A handler has read a ticket for each position it has passed,  *)
(* and a call of setDailyTicketId knows its vehicle and its two tickets.     *)

\* Where a handler is in its message.
Handled(b) ==
  /\ b \in Batch
  /\ b.number <= last
  /\ b.step # "update" => b.at <= Len(b.list)
  /\ b.at <= Len(b.list) + 1
  /\ Len(b.seen) = IF b.step = "emit" THEN b.at ELSE b.at - 1

Change == [at : {"hset", "notify"}, vehicle : Vehicles, new : Tickets, previous : Tickets,
           lastPosition : {0}]

FInv ==
  /\ TypeOK
  /\ \A b \in batches : Handled(b)
  /\ \A v \in Vehicles : position[v] <= last
  /\ change \in Change \cup {NoChange}

LEMMA OrderFacts ==
  ASSUME NEW s \in Orders
  PROVE  /\ s \in Seq(Vehicles) /\ Len(s) \in 1 .. Cardinality(Vehicles)
         /\ DOMAIN s = 1 .. Len(s) /\ \A i \in 1 .. Len(s) : s[i] \in Vehicles
<1>1. Cardinality(Vehicles) \in Nat
  BY LiveAssumptions, FS_CardinalityType
<1>2. PICK n \in 1 .. Cardinality(Vehicles) : s \in [1 .. n -> Vehicles]
  BY DEF Orders
<1>3. n \in Nat
  BY <1>1, <1>2
<1>4. s \in Seq(Vehicles) /\ Len(s) = n
  BY <1>2, <1>3
<1> QED BY <1>2, <1>4

\* The vehicle whose position is at hand.
LEMMA HandledFacts ==
  ASSUME NEW b, Handled(b)
  PROVE  /\ b.list \in Orders /\ b.at \in Nat \ {0} /\ b.number \in 1 .. MaxMessages
         /\ Len(b.list) \in Nat /\ Len(b.list) <= Cardinality(Vehicles)
         /\ Cardinality(Vehicles) \in Nat
         /\ b.at <= Len(b.list) => Vehicle(b) \in Vehicles
         /\ b.seen \in Seq(Tickets) /\ b.step \in {"update", "read", "emit"}
<1>1. /\ b.list \in Orders /\ b.at \in 1 .. Cardinality(Vehicles) + 1
      /\ b.number \in 1 .. MaxMessages /\ b.seen \in Seq(Tickets)
      /\ b.step \in {"update", "read", "emit"}
  BY DEF Handled, Batch
<1>2. Cardinality(Vehicles) \in Nat
  BY LiveAssumptions, FS_CardinalityType
<1>3. /\ Len(b.list) \in 1 .. Cardinality(Vehicles)
      /\ \A i \in 1 .. Len(b.list) : b.list[i] \in Vehicles
  BY <1>1, OrderFacts
<1>4. b.at \in Nat \ {0} /\ Len(b.list) \in Nat /\ Len(b.list) <= Cardinality(Vehicles)
  BY <1>1, <1>2, <1>3
<1>5. b.at <= Len(b.list) => Vehicle(b) \in Vehicles
  BY <1>3, <1>4 DEF Vehicle
<1> QED BY <1>1, <1>2, <1>4, <1>5

LEMMA TypesInit == Init => FInv
<1> SUFFICES ASSUME Init PROVE FInv
  OBVIOUS
<1>1. SocketTypeOK
  <2>1. outages \in 0 .. MaxOutages
    BY SocketAssumptions DEF Init, SocketInit
  <2> QED BY <2>1, Zenon DEF Init, SocketInit, SocketTypeOK
<1>2. MaxMessages \in Nat /\ MaxChanges \in Nat
  BY LiveAssumptions
<1>3. TypeOK
  BY <1>1, <1>2, LiveAssumptions DEF Init, TypeOK, NoPosition, NoChange
<1> QED BY <1>2, <1>3 DEF Init, FInv, NoPosition

\* The socket's part.
LEMMA SocketTypes ==
  ASSUME SocketTypeOK, SocketNext
  PROVE  SocketTypeOK'
<1>1. CASE Loaded
  BY <1>1 DEF Loaded, Connect, SocketTypeOK, traccarVars
<1>2. CASE LoginAnswered
  <2>1. UNCHANGED <<up, outages, loaded, isDestroyed>> /\ login' = FALSE
    BY <1>2 DEF LoginAnswered, traccarVars
  <2>2. ws' \in {"none", "opening", "open"} /\ isConnecting' \in BOOLEAN
    BY <1>2 DEF LoginAnswered, SocketTypeOK
  <2>3. timer' \in BOOLEAN
    <3>1. CASE UNCHANGED timer
      BY <3>1 DEF SocketTypeOK
    <3>2. CASE ScheduleReconnect
      BY <3>2 DEF ScheduleReconnect, SocketTypeOK
    <3> QED BY <1>2, <3>1, <3>2 DEF LoginAnswered
  <2> QED BY <2>1, <2>2, <2>3 DEF SocketTypeOK
<1>3. CASE Opened
  BY <1>3 DEF Opened, SocketTypeOK, traccarVars
<1>4. CASE Closed
  BY <1>4 DEF Closed, ConnectingAfterClose, ScheduleReconnect, SocketTypeOK, traccarVars
<1>5. CASE TimerFires
  BY <1>5 DEF TimerFires, Connect, SocketTypeOK, traccarVars
<1>6. CASE Destroy
  BY <1>6 DEF Destroy, CloseConnection, SocketTypeOK, traccarVars
<1>7. CASE GoesDown
  <2>1. outages' \in 0 .. MaxOutages
    BY <1>7, SocketAssumptions DEF GoesDown, SocketTypeOK
  <2> QED BY <1>7, <2>1 DEF GoesDown, linkVars, SocketTypeOK
<1>8. CASE ComesUp
  BY <1>8 DEF ComesUp, linkVars, SocketTypeOK
<1> QED BY <1>1, <1>2, <1>3, <1>4, <1>5, <1>6, <1>7, <1>8 DEF SocketNext

LEMMA SocketKept ==
  ASSUME SocketTypeOK, UNCHANGED socketVars
  PROVE  SocketTypeOK'
BY DEF SocketTypeOK, socketVars, traccarVars, linkVars

Counted == failures' \in 0 .. MaxTroubles

\* A step of the rooms, the tickets or the socket leaves the handlers alone.
LEMMA FeedKept ==
  ASSUME FInv, UNCHANGED feedVars, SocketTypeOK',
         ticket' \in [Vehicles -> Tickets], change' \in Change \cup {NoChange},
         changes' \in 0 .. MaxChanges, staff' \in {"out", "joined", "read", "in"},
         snapshot' \in [Vehicles -> 0 .. MaxMessages], board' \in [Vehicles -> 0 .. MaxMessages],
         visitor' \in {"out", "joined", "in"}, widget' \subseteq Vehicles \X Tickets,
         app' \in [Drivers -> Vehicles \cup {NoVehicle}],
         unsent' \subseteq Vehicles, Counted
  PROVE  FInv'
<1>1. UNCHANGED <<last, batches, position>>
  BY DEF feedVars
<1>2. change'.at \in {"none", "hset", "notify"}
  BY DEF Change, NoChange
<1>3. TypeOK'
  BY <1>1, <1>2 DEF FInv, TypeOK, Counted
<1>4. \A b \in batches : Handled(b)'
  BY <1>1 DEF FInv, Handled
<1> QED BY <1>1, <1>3, <1>4 DEF FInv

\* A handler goes on to another place of its message.
LEMMA FeedMoves ==
  ASSUME FInv, UNCHANGED <<socketVars, last, changeVars, staff, snapshot, visitor>>,
         NEW b \in batches, batches' \subseteq batches \/ \E c : Handled(c) /\ Becomes(b, c),
         position' \in [Vehicles -> 0 .. MaxMessages], \A v \in Vehicles : position'[v] <= last,
         board' \in [Vehicles -> 0 .. MaxMessages], widget' \subseteq Vehicles \X Tickets,
         app' \in [Drivers -> Vehicles \cup {NoVehicle}],
         unsent' \subseteq Vehicles, Counted
  PROVE  FInv'
<1>1. UNCHANGED <<ticket, change, changes>> /\ SocketTypeOK'
  BY SocketKept DEF changeVars, FInv, TypeOK
<1>2. \A c \in batches' : Handled(c)
  BY DEF FInv, Becomes
<1>3. \A c \in batches' : Handled(c)'
  BY <1>2 DEF Handled
<1>4. batches' \subseteq Batch
  BY <1>2 DEF Handled
<1>5. TypeOK'
  BY <1>1, <1>4 DEF FInv, TypeOK, Counted
<1> QED BY <1>1, <1>3, <1>5 DEF FInv

LEMMA TypesMessage ==
  ASSUME FInv, Message, Counted
  PROVE  FInv'
<1>1. PICK s \in Orders : batches' = batches \cup
        {[number |-> last + 1, list |-> s, at |-> 1, step |-> "update", seen |-> <<>>]}
  BY DEF Message
<1>0. PICK c : c = [number |-> last + 1, list |-> s, at |-> 1, step |-> "update", seen |-> <<>>]
  OBVIOUS
<1>2. last \in 0 .. MaxMessages /\ last < MaxMessages /\ last' = last + 1 /\ MaxMessages \in Nat
  BY LiveAssumptions DEF Message, FInv, TypeOK
<1>3. last' \in 0 .. MaxMessages /\ last' \in 1 .. MaxMessages /\ last' \in Nat
  BY <1>2
<1>4. Len(s) \in Nat /\ Len(s) >= 1 /\ Cardinality(Vehicles) \in Nat
  <2>1. Len(s) \in 1 .. Cardinality(Vehicles) /\ Cardinality(Vehicles) \in Nat
    BY OrderFacts, LiveAssumptions, FS_CardinalityType
  <2> QED BY <2>1
<1>5. /\ c.number = last' /\ c.list = s /\ c.at = 1 /\ c.step = "update" /\ c.seen = <<>>
      /\ Len(c.seen) = 0
  BY <1>0, <1>2
<1>6. c \in Batch
  <2>1. 1 \in 1 .. Cardinality(Vehicles) + 1 /\ <<>> \in Seq(Tickets)
    BY <1>4, EmptySeq
  <2> QED BY <1>0, <1>2, <1>3, <2>1 DEF Batch
<1>7. Handled(c)'
  BY <1>3, <1>4, <1>5, <1>6 DEF Handled
<1>8. \A b \in batches : Handled(b)'
  <2> TAKE b \in batches
  <2>1. Handled(b) /\ b.number \in Nat
    BY HandledFacts DEF FInv
  <2>2. b.number <= last'
    BY <1>2, <2>1 DEF Handled
  <2> QED BY <2>1, <2>2 DEF Handled
<1>9. batches' = batches \cup {c}
  BY <1>0, <1>1
<1>10. UNCHANGED <<position, ticket, change, changes, staff, snapshot, board, unsent, visitor, widget, app>>
       /\ SocketTypeOK'
  BY SocketKept DEF Message, changeVars, roomVars, FInv, TypeOK
<1>11. TypeOK'
  BY <1>3, <1>6, <1>9, <1>10 DEF FInv, TypeOK, Counted
<1>12. \A v \in Vehicles : position'[v] <= last'
  <2> TAKE v \in Vehicles
  <2>1. position[v] \in 0 .. MaxMessages /\ position[v] <= last
    BY DEF FInv, TypeOK
  <2> QED BY <1>2, <1>10, <2>1
<1> QED BY <1>7, <1>8, <1>9, <1>10, <1>11, <1>12 DEF FInv

LEMMA TypesUpdate ==
  ASSUME FInv, NEW b \in batches, UpdateLastPosition(b), Counted
  PROVE  FInv'
<1> DEFINE c == [b EXCEPT !.step = "read"]
<1>1. /\ b.at <= Len(b.list) /\ b.step = "update" /\ Becomes(b, c)
      /\ position' = [position EXCEPT ![Vehicle(b)] = b.number]
      /\ UNCHANGED <<socketVars, last, changeVars, staff, snapshot, board, unsent, visitor, widget, app>>
  BY DEF UpdateLastPosition, CachesPosition, roomVars
<1>2. Handled(b)
  BY DEF FInv
<1>3. Handled(c)
  <2>1. /\ c.number = b.number /\ c.list = b.list /\ c.at = b.at /\ c.step = "read"
        /\ c.seen = b.seen /\ c \in Batch
    BY <1>2 DEF Handled, Batch
  <2> HIDE DEF c
  <2> QED BY <1>1, <1>2, <2>1 DEF Handled
<1>4. /\ Vehicle(b) \in Vehicles /\ b.number \in 0 .. MaxMessages /\ b.number <= last
  <2>1. b.number \in 1 .. MaxMessages /\ Vehicle(b) \in Vehicles
    BY <1>1, <1>2, HandledFacts
  <2> QED BY <1>2, <2>1, LiveAssumptions DEF Handled
<1>5. position' \in [Vehicles -> 0 .. MaxMessages] /\ \A v \in Vehicles : position'[v] <= last
  BY <1>1, <1>4 DEF FInv, TypeOK
<1> HIDE DEF c
<1>6. /\ board' \in [Vehicles -> 0 .. MaxMessages] /\ widget' \subseteq Vehicles \X Tickets
      /\ unsent' \subseteq Vehicles
      /\ app' \in [Drivers -> Vehicles \cup {NoVehicle}]
  BY <1>1 DEF FInv, TypeOK
<1> QED BY <1>1, <1>3, <1>5, <1>6, FeedMoves

LEMMA TypesRead ==
  ASSUME FInv, NEW b \in batches, ReadState(b), Counted
  PROVE  FInv'
<1> DEFINE t == ticket[Vehicle(b)]
           c == [b EXCEPT !.step = "emit", !.seen = Append(@, t)]
<1>1. /\ b.step = "read" /\ Becomes(b, c)
      /\ UNCHANGED <<socketVars, last, position, changeVars, staff, snapshot, board, unsent,
                     visitor, widget, app>>
  BY DEF ReadState, roomVars
<1>2. Handled(b) /\ b.at <= Len(b.list) /\ b.seen \in Seq(Tickets)
  BY <1>1, HandledFacts DEF FInv, Handled
<1>3. t \in Tickets
  BY <1>2, HandledFacts DEF FInv, TypeOK
<1>4. Handled(c)
  <2> HIDE DEF t
  <2>1. Append(b.seen, t) \in Seq(Tickets) /\ Len(Append(b.seen, t)) = Len(b.seen) + 1
    BY <1>2, <1>3
  <2>2. /\ c.number = b.number /\ c.list = b.list /\ c.at = b.at /\ c.step = "emit"
        /\ c.seen = Append(b.seen, t) /\ c \in Batch
    BY <1>2, <2>1 DEF Handled, Batch
  <2> HIDE DEF c
  <2>3. b.at \in Nat \ {0} /\ Len(b.seen) = b.at - 1
    BY <1>1, <1>2, HandledFacts DEF Handled
  <2> QED BY <1>1, <1>2, <2>1, <2>2, <2>3 DEF Handled
<1> HIDE DEF c
<1>5. /\ position' \in [Vehicles -> 0 .. MaxMessages] /\ \A v \in Vehicles : position'[v] <= last
      /\ board' \in [Vehicles -> 0 .. MaxMessages] /\ widget' \subseteq Vehicles \X Tickets
      /\ app' \in [Drivers -> Vehicles \cup {NoVehicle}] /\ unsent' \subseteq Vehicles
  BY <1>1 DEF FInv, TypeOK
<1> QED BY <1>1, <1>4, <1>5, FeedMoves

LEMMA TypesEmit ==
  ASSUME FInv, NEW b \in batches, EmitToDriver(b), Counted
  PROVE  FInv'
<1> DEFINE c == [b EXCEPT !.step = "update", !.at = @ + 1]
<1>1. /\ b.step = "emit" /\ Becomes(b, c)
      /\ UNCHANGED <<socketVars, last, position, changeVars, staff, snapshot, board, unsent, visitor,
                     widget>>
      /\ app' = IF b.seen[b.at] \in Drivers THEN Shows(b.seen[b.at], Vehicle(b)) ELSE app
  BY DEF EmitToDriver
<1>2. Handled(b) /\ b.at <= Len(b.list)
  BY <1>1 DEF FInv, Handled
<1>3. Handled(c)
  <2>1. b.at + 1 \in 1 .. Cardinality(Vehicles) + 1 /\ b.at + 1 <= Len(b.list) + 1
    <3>1. /\ b.at \in Nat /\ Len(b.list) \in Nat /\ Cardinality(Vehicles) \in Nat
          /\ Len(b.list) <= Cardinality(Vehicles)
      BY <1>2, HandledFacts
    <3> QED BY <1>2, <3>1
  <2>2. /\ c.number = b.number /\ c.list = b.list /\ c.at = b.at + 1 /\ c.step = "update"
        /\ c.seen = b.seen /\ c \in Batch
    BY <1>2, <2>1 DEF Handled, Batch
  <2> HIDE DEF c
  <2>3. Len(c.seen) = c.at - 1
    BY <1>1, <1>2, <2>2, HandledFacts DEF Handled
  <2> QED BY <1>2, <2>1, <2>2, <2>3 DEF Handled
<1> HIDE DEF c
<1>4. app' \in [Drivers -> Vehicles \cup {NoVehicle}]
  BY <1>1, <1>2, HandledFacts DEF Shows, FInv, TypeOK
<1>5. /\ position' \in [Vehicles -> 0 .. MaxMessages] /\ \A v \in Vehicles : position'[v] <= last
      /\ board' \in [Vehicles -> 0 .. MaxMessages] /\ widget' \subseteq Vehicles \X Tickets
      /\ unsent' \subseteq Vehicles
  BY <1>1 DEF FInv, TypeOK
<1> QED BY <1>1, <1>3, <1>4, <1>5, FeedMoves

LEMMA TypesRooms ==
  ASSUME FInv, NEW b \in batches, EmitToRooms(b), Counted
  PROVE  FInv'
<1>1. /\ b.at > Len(b.list) /\ batches' \subseteq batches
      /\ UNCHANGED <<socketVars, last, position, changeVars, staff, snapshot, visitor, app>>
  BY DEF EmitToRooms
<1>2. Handled(b) /\ b.number \in 0 .. MaxMessages
  <2>1. Handled(b) /\ b.number \in 1 .. MaxMessages
    BY HandledFacts DEF FInv
  <2> QED BY <2>1, LiveAssumptions
<1>3. board' \in [Vehicles -> 0 .. MaxMessages]
  BY <1>2 DEF EmitToRooms, FInv, TypeOK
<1>4. \A i \in DOMAIN b.list : b.list[i] \in Vehicles /\ b.seen[i] \in Tickets
  <2>1. /\ b.at \in Nat /\ Len(b.list) \in Nat /\ b.seen \in Seq(Tickets) /\ b.list \in Orders
        /\ b.step \in {"update", "read", "emit"}
    BY <1>2, HandledFacts
  <2>2. b.at = Len(b.list) + 1 /\ b.step = "update"
    BY <1>1, <1>2, <2>1 DEF Handled
  <2>3. Len(b.seen) = Len(b.list)
    BY <1>2, <2>1, <2>2 DEF Handled
  <2>4. DOMAIN b.list = 1 .. Len(b.list) /\ \A i \in 1 .. Len(b.list) : b.list[i] \in Vehicles
    BY <2>1, OrderFacts
  <2>5. ASSUME NEW i \in 1 .. Len(b.list) PROVE b.seen[i] \in Tickets
    <3>1. i \in 1 .. Len(b.seen)
      BY <2>3
    <3> QED BY <2>1, <3>1, ElementOfSeq
  <2> QED BY <2>4, <2>5
<1>5. widget' \subseteq Vehicles \X Tickets
  BY <1>4 DEF EmitToRooms, FInv, TypeOK
<1>6. /\ position' \in [Vehicles -> 0 .. MaxMessages] /\ \A v \in Vehicles : position'[v] <= last
      /\ app' \in [Drivers -> Vehicles \cup {NoVehicle}]
  BY <1>1 DEF FInv, TypeOK
<1>7. unsent' \subseteq Vehicles
  BY DEF EmitToRooms, FInv, TypeOK
<1> QED BY <1>1, <1>3, <1>5, <1>6, <1>7, FeedMoves

\* The vehicles a message is about.
LEMMA BegunFacts ==
  ASSUME NEW b, Handled(b), NEW n \in Nat, n <= Len(b.list)
  PROVE  Begun(b, n) \subseteq Vehicles
<1>1. b.list \in Orders /\ Len(b.list) \in Nat
  BY HandledFacts
<1>2. \A i \in 1 .. Len(b.list) : b.list[i] \in Vehicles
  BY <1>1, OrderFacts
<1> QED BY <1>1, <1>2 DEF Begun

LEMMA TypesFailed ==
  ASSUME FInv, NEW b \in batches, HandlerFails(b), Counted
  PROVE  FInv'
<1>1. /\ b.at <= Len(b.list) /\ batches' \subseteq batches
      /\ UNCHANGED <<socketVars, last, changeVars, staff, snapshot, visitor>>
      /\ UNCHANGED <<board, widget, app>>
      /\ UNCHANGED position \/ position' = [position EXCEPT ![Vehicle(b)] = b.number]
      /\ unsent' = unsent \cup Begun(b, b.at) \/ unsent' = unsent \cup Begun(b, b.at - 1)
  BY DEF HandlerFails, CachesPosition, Abandon, FInv, Handled
<1>2. Handled(b)
  BY DEF FInv
<1>3. b.at \in Nat /\ b.at - 1 \in Nat /\ Len(b.list) \in Nat /\ b.at - 1 <= Len(b.list)
  BY <1>1, <1>2, HandledFacts
<1>4. unsent' \subseteq Vehicles
  BY <1>1, <1>2, <1>3, BegunFacts DEF FInv, TypeOK
<1>5. /\ Vehicle(b) \in Vehicles /\ b.number \in 0 .. MaxMessages /\ b.number <= last
  <2>1. b.number \in 1 .. MaxMessages /\ Vehicle(b) \in Vehicles
    BY <1>1, <1>2, HandledFacts
  <2> QED BY <1>2, <2>1, LiveAssumptions DEF Handled
<1>6. position' \in [Vehicles -> 0 .. MaxMessages] /\ \A v \in Vehicles : position'[v] <= last
  BY <1>1, <1>5 DEF FInv, TypeOK
<1>7. /\ board' \in [Vehicles -> 0 .. MaxMessages] /\ widget' \subseteq Vehicles \X Tickets
      /\ app' \in [Drivers -> Vehicles \cup {NoVehicle}]
  BY <1>1 DEF FInv, TypeOK
<1> QED BY <1>1, <1>4, <1>6, <1>7, FeedMoves

LEMMA TypesChange ==
  ASSUME FInv, BeginChange \/ WriteTicket \/ Notify, Counted
  PROVE  FInv'
<1>1. UNCHANGED feedVars /\ UNCHANGED <<staff, snapshot, unsent, visitor>> /\ SocketTypeOK'
  BY SocketKept DEF BeginChange, WriteTicket, Notify, roomVars, FInv, TypeOK
<1>2. CASE BeginChange
  <2>1. changes' \in 0 .. MaxChanges
    BY <1>2, LiveAssumptions DEF BeginChange, FInv, TypeOK
  <2>2. change' \in Change
    <3>1. PICK v \in Vehicles, t \in Tickets :
            change' = [at |-> "hset", vehicle |-> v, new |-> t, previous |-> ticket[v],
                       lastPosition |-> 0]
      BY <1>2 DEF BeginChange, StateOf
    <3>2. ticket[v] \in Tickets
      BY DEF FInv, TypeOK
    <3> QED BY <3>1, <3>2 DEF Change
  <2>3. UNCHANGED <<ticket, board, widget, app>>
    BY <1>2 DEF BeginChange, roomVars
  <2> QED BY <1>1, <2>1, <2>2, <2>3, FeedKept DEF FInv, TypeOK
<1>3. CASE WriteTicket
  <2>1. change \in Change
    BY <1>3 DEF WriteTicket, FInv, NoChange
  <2>2. ticket' \in [Vehicles -> Tickets] /\ change' \in Change
    BY <1>3, <2>1 DEF WriteTicket, Change, FInv, TypeOK
  <2>3. UNCHANGED <<changes, board, widget, app>>
    BY <1>3 DEF WriteTicket, roomVars
  <2> QED BY <1>1, <2>2, <2>3, FeedKept DEF FInv, TypeOK
<1>4. CASE Notify
  <2>1. change \in Change
    BY <1>4 DEF Notify, FInv, NoChange
  <2>2. change.lastPosition = 0 /\ change.vehicle \in Vehicles
    BY <2>1 DEF Change
  <2>3. UNCHANGED <<board, widget, ticket, changes>> /\ change' = NoChange
    BY <1>4, <2>2 DEF Notify, NotifyRooms
  <2>4. app' \in [Drivers -> Vehicles \cup {NoVehicle}]
    BY <1>4, <2>2 DEF Notify, NotifyDrivers, Shows, FInv, TypeOK
  <2> QED BY <1>1, <2>3, <2>4, FeedKept DEF FInv, TypeOK
<1> QED BY <1>2, <1>3, <1>4

LEMMA TypesUnwritten ==
  ASSUME FInv, ChangeFails, Counted
  PROVE  FInv'
<1>1. /\ UNCHANGED feedVars /\ SocketTypeOK'
      /\ UNCHANGED <<changes, staff, snapshot, board, unsent, visitor, widget, app>>
  BY SocketKept DEF ChangeFails, roomVars, FInv, TypeOK
<1>2. change \in Change
  BY DEF ChangeFails, FInv, NoChange
<1>3. ticket' \in [Vehicles -> Tickets] /\ change' = NoChange
  BY <1>2 DEF ChangeFails, Change, FInv, TypeOK
<1> QED BY <1>1, <1>3, FeedKept DEF FInv, TypeOK

LEMMA TypesConnection ==
  ASSUME FInv, Connection, Counted
  PROVE  FInv'
<1>1. UNCHANGED <<socketVars, feedVars, ticket, change, changes, app>> /\ SocketTypeOK'
  BY SocketKept DEF Connection, changeVars, FInv, TypeOK
<1>2. /\ staff' \in {"out", "joined", "read", "in"} /\ visitor' \in {"out", "joined", "in"}
  BY DEF Connection, StaffJoins, StaffReads, StaffIsSent, VisitorJoins, VisitorIsSent,
         VisitorAsks, FInv, TypeOK
<1>3. 0 \in 0 .. MaxMessages
  BY LiveAssumptions
<1>4. snapshot' \in [Vehicles -> 0 .. MaxMessages] /\ board' \in [Vehicles -> 0 .. MaxMessages]
  <2>1. CASE StaffJoins \/ StaffReads \/ UNCHANGED <<snapshot, board>>
    BY <2>1 DEF StaffJoins, StaffReads, FInv, TypeOK
  <2>2. CASE StaffIsSent
    BY <1>3, <2>2 DEF StaffIsSent, NoPosition, FInv, TypeOK
  <2> QED BY <2>1, <2>2 DEF Connection
<1>5. widget' \subseteq Vehicles \X Tickets
  BY DEF Connection, VisitorJoins, VisitorIsSent, VisitorAsks, FInv, TypeOK
<1>6. unsent' \subseteq Vehicles
  BY DEF Connection, StaffJoins, StaffReads, StaffIsSent, FInv, TypeOK
<1> QED BY <1>1, <1>2, <1>4, <1>5, <1>6, FeedKept DEF FInv, TypeOK

LEMMA TypesRefused ==
  ASSUME FInv, ConnectionFails, Counted
  PROVE  FInv'
<1>1. UNCHANGED <<socketVars, feedVars, ticket, change, changes, app>> /\ SocketTypeOK'
  BY SocketKept DEF ConnectionFails, changeVars, FInv, TypeOK
<1>2. /\ staff' \in {"out", "joined", "read", "in"} /\ visitor' \in {"out", "joined", "in"}
      /\ UNCHANGED <<snapshot, board, unsent, widget>>
  BY DEF ConnectionFails, FInv, TypeOK
<1> QED BY <1>1, <1>2, FeedKept DEF FInv, TypeOK

LEMMA TypesApp ==
  ASSUME FInv, AppConnects, Counted
  PROVE  FInv'
<1>1. /\ UNCHANGED <<socketVars, feedVars, ticket, change, changes, staff, snapshot, board, unsent>>
      /\ UNCHANGED <<visitor, widget>> /\ SocketTypeOK'
  BY SocketKept DEF AppConnects, changeVars, FInv, TypeOK
<1>2. PICK d \in Drivers, v \in Vehicles : app' = [app EXCEPT ![d] = v]
  BY DEF AppConnects, LocatedVehicle, Holders, Shows
<1>3. app' \in [Drivers -> Vehicles \cup {NoVehicle}]
  BY <1>2 DEF FInv, TypeOK
<1> QED BY <1>1, <1>3, FeedKept DEF FInv, TypeOK

LEMMA TypesNext == FInv /\ [Next]_vars => FInv'
<1> SUFFICES ASSUME FInv, [Next]_vars PROVE FInv'
  OBVIOUS
<1>0. Counted
  <2>1. failures \in 0 .. MaxTroubles /\ MaxTroubles \in Nat /\ outages \in Nat
    BY LiveAssumptions, SocketAssumptions DEF FInv, TypeOK, SocketTypeOK
  <2>2. \/ failures' = failures
        \/ failures + outages < MaxTroubles /\ failures' = failures + 1
    BY DEF Next, vars
  <2> QED BY <2>1, <2>2 DEF Counted
<1>1. CASE SocketNext /\ UNCHANGED <<feedVars, changeVars, roomVars>>
  <2>1. SocketTypeOK'
    BY <1>1, SocketTypes DEF FInv, TypeOK
  <2>2. UNCHANGED <<feedVars, ticket, change, changes, staff, snapshot, board, unsent, visitor, widget, app>>
    BY <1>1 DEF changeVars, roomVars
  <2> QED BY <1>0, <2>1, <2>2, FeedKept DEF FInv, TypeOK
<1>2. ASSUME NEW b \in batches,
             UpdateLastPosition(b) \/ ReadState(b) \/ EmitToDriver(b) \/ EmitToRooms(b)
      PROVE  FInv'
  BY <1>0, <1>2, TypesUpdate, TypesRead, TypesEmit, TypesRooms
<1>3. CASE UNCHANGED vars
  <2>1. SocketTypeOK' /\ UNCHANGED feedVars
    BY <1>3, SocketKept DEF vars, FInv, TypeOK
  <2>2. UNCHANGED <<ticket, change, changes, staff, snapshot, board, unsent, visitor, widget, app>>
    BY <1>3 DEF vars, changeVars, roomVars
  <2> QED BY <1>0, <2>1, <2>2, FeedKept DEF FInv, TypeOK
<1>4. CASE Serves
  BY <1>0, <1>1, <1>2, <1>4, TypesMessage, TypesChange, TypesConnection, TypesApp DEF Serves
<1>5. CASE RedisFails
  BY <1>0, <1>5, TypesFailed, TypesUnwritten, TypesRefused DEF RedisFails
<1> QED BY <1>3, <1>4, <1>5 DEF Next

\* What a handler reads and sends is there to be read: it has a ticket for every
\* position it has passed, a vehicle for every place of its message, and no number
\* passes that of the last message.
THEOREM Typing == Spec => []TypeOK
<1>1. FInv => TypeOK
  BY DEF FInv
<1> QED BY <1>1, TypesInit, TypesNext, PTL DEF Spec

-----------------------------------------------------------------------------
(* What is sent is not lost, and not overtaken.  A position is in the cache  *)
(* before its message is sent to the rooms, so that a client which has       *)
(* joined either has it from its first reading or is about to be sent it,    *)
(* unless the handler fails in between.                                      *)

\* How many positions of its message a handler has cached.
Done(b) == IF b.step = "update" THEN b.at - 1 ELSE b.at

UnderWay(v) == \E b \in batches : v \in Begun(b, Done(b))

\* A vehicle that has a position is on the board, or will be.
Shown(v) ==
  /\ staff = "in"   => board[v] # 0 \/ UnderWay(v) \/ v \in unsent
  /\ staff = "read" => board[v] # 0 \/ snapshot[v] # 0 \/ UnderWay(v) \/ v \in unsent

\* A handler that has not begun is behind nobody.
Newest(b) == b.at = 1 /\ b.step = "update" => \A v \in Vehicles : position[v] <= b.number

VInv ==
  /\ FInv
  /\ \A v \in Vehicles : position[v] # 0 => Shown(v)
  /\ \A b \in batches : Newest(b)

\* Steps that leave handlers and positions as they are, and at most show more.
LEMMA ShownKept ==
  ASSUME VInv, FInv', UNCHANGED feedVars,
         \A v \in Vehicles : position[v] # 0 => Shown(v)'
  PROVE  VInv'
BY DEF VInv, feedVars, Newest

LEMMA ViewsMessage ==
  ASSUME VInv, FInv', Message
  PROVE  VInv'
<1>1. PICK s \in Orders : batches' = batches \cup
        {[number |-> last + 1, list |-> s, at |-> 1, step |-> "update", seen |-> <<>>]}
  BY DEF Message
<1>2. UNCHANGED <<position, staff, board, unsent, snapshot>>
  BY DEF Message, roomVars
<1>3. ASSUME NEW v \in Vehicles, position'[v] # 0 PROVE Shown(v)'
  <2>1. UnderWay(v) => UnderWay(v)'
    BY <1>1 DEF UnderWay
  <2> QED BY <1>2, <1>3, <2>1 DEF VInv, Shown
<1>4. ASSUME NEW b \in batches' PROVE Newest(b)'
  <2>1. CASE b \in batches
    BY <1>2, <2>1 DEF VInv, Newest
  <2>2. CASE b.number = last + 1
    <3>1. ASSUME NEW v \in Vehicles PROVE position[v] <= last + 1
      <4>1. position[v] \in 0 .. MaxMessages /\ position[v] <= last /\ last \in 0 .. MaxMessages
        BY DEF VInv, FInv, TypeOK
      <4> QED BY <4>1
    <3> QED BY <1>2, <2>2, <3>1 DEF Newest
  <2> QED BY <1>1, <2>1, <2>2
<1> QED BY <1>3, <1>4 DEF VInv

\* A handler that goes on with its message has still to send it.
LEMMA GoesOn ==
  ASSUME VInv, FInv', NEW b \in batches, NEW c, Becomes(b, c), c.list = b.list, Done(c) = Done(b),
         Newest(c)', UNCHANGED <<position, staff, board, unsent, snapshot>>
  PROVE  VInv'
<1>1. ASSUME NEW v \in Vehicles, position'[v] # 0 PROVE Shown(v)'
  <2>1. UnderWay(v) => UnderWay(v)'
    BY DEF UnderWay, Begun, Becomes
  <2> QED BY <1>1, <2>1 DEF VInv, Shown
<1>2. ASSUME NEW a \in batches' PROVE Newest(a)'
  <2>1. a = c \/ a \in batches
    BY DEF Becomes
  <2> QED BY <2>1 DEF VInv, Newest
<1> QED BY <1>1, <1>2 DEF VInv

\* A position is cached: what that is, and that no later handler is behind it.
LEMMA Cached ==
  ASSUME VInv, NEW b \in batches, CachesPosition(b)
  PROVE  /\ b.at \in Nat \ {0} /\ b.number \in Nat /\ Vehicle(b) \in Vehicles
         /\ Begun(b, b.at - 1) \subseteq Begun(b, b.at) /\ Vehicle(b) \in Begun(b, b.at)
         /\ \A v \in Vehicles : v # Vehicle(b) => position'[v] = position[v]
         /\ \A a \in batches \ {b}, v \in Vehicles :
              a.at = 1 /\ a.step = "update" => position'[v] <= a.number
<1>1. /\ b.at <= Len(b.list) /\ b.step = "update" /\ InTurn(b)
      /\ position' = [position EXCEPT ![Vehicle(b)] = b.number]
  BY DEF CachesPosition
<1>2. /\ Handled(b) /\ Vehicle(b) \in Vehicles /\ b.at \in Nat \ {0} /\ b.number \in Nat
      /\ Len(b.list) \in Nat
  BY <1>1, HandledFacts DEF VInv, FInv
<1>3. Begun(b, b.at - 1) \subseteq Begun(b, b.at) /\ Vehicle(b) \in Begun(b, b.at)
  BY <1>2 DEF Begun, Vehicle
<1>4. \A v \in Vehicles : v # Vehicle(b) => position'[v] = position[v]
  BY <1>1 DEF VInv, FInv, TypeOK
<1>5. ASSUME NEW a \in batches \ {b}, a.at = 1, a.step = "update", NEW v \in Vehicles
      PROVE  position'[v] <= a.number
  <2>1. CASE v = Vehicle(b)
    <3>1. position'[v] = b.number
      BY <1>1, <1>2, <2>1 DEF VInv, FInv, TypeOK
    <3>2. a.number \in Nat
      BY HandledFacts DEF VInv, FInv
    <3>3. Rank(a) = 3 * 1 /\ Rank(b) = 3 * b.at
      BY <1>1, <1>2, <1>5 DEF Rank
    <3>4. ~(a.number < b.number)
      BY <1>1, <1>2, <3>3 DEF InTurn
    <3> QED BY <1>2, <3>1, <3>2, <3>4
  <2>2. CASE v # Vehicle(b)
    BY <1>4, <1>5, <2>2 DEF VInv, Newest
  <2> QED BY <2>1, <2>2
<1> QED BY <1>2, <1>3, <1>4, <1>5

LEMMA ViewsUpdate ==
  ASSUME VInv, FInv', NEW b \in batches, UpdateLastPosition(b)
  PROVE  VInv'
<1> DEFINE c == [b EXCEPT !.step = "read"]
<1>1. /\ CachesPosition(b) /\ b.step = "update" /\ Becomes(b, c)
      /\ UNCHANGED <<staff, board, unsent, snapshot>>
  BY DEF UpdateLastPosition, CachesPosition, roomVars
<1>2. Handled(b)
  BY DEF VInv, FInv
<1>3. c.step = "read" /\ c.list = b.list /\ c.at = b.at
  BY <1>2 DEF Handled, Batch
<1> HIDE DEF c
<1>4. Done(b) = b.at - 1 /\ Done(c) = b.at /\ \A n : Begun(c, n) = Begun(b, n)
  BY <1>1, <1>3 DEF Done, Begun
<1>5. ASSUME NEW v \in Vehicles, position'[v] # 0 PROVE Shown(v)'
  <2>1. UnderWay(v) => UnderWay(v)'
    BY <1>1, <1>4, Cached DEF UnderWay, Becomes
  <2>2. CASE v = Vehicle(b)
    <3>1. UnderWay(v)'
      BY <1>1, <1>4, <2>2, Cached DEF UnderWay, Becomes
    <3> QED BY <3>1 DEF Shown
  <2>3. CASE v # Vehicle(b)
    <3>1. position[v] # 0
      BY <1>1, <1>5, <2>3, Cached
    <3> QED BY <1>1, <2>1, <3>1 DEF VInv, Shown
  <2> QED BY <2>2, <2>3
<1>6. ASSUME NEW a \in batches', a.at = 1, a.step = "update", NEW v \in Vehicles
      PROVE  position'[v] <= a.number
  <2>1. a \in batches /\ a # b
    BY <1>1, <1>3, <1>6 DEF Becomes
  <2> QED BY <1>1, <1>6, <2>1, Cached
<1> QED BY <1>5, <1>6 DEF VInv, Newest

LEMMA ViewsRead ==
  ASSUME VInv, FInv', NEW b \in batches, ReadState(b) \/ EmitToDriver(b)
  PROVE  VInv'
<1>1. UNCHANGED <<position, staff, board, unsent, snapshot>>
  BY DEF ReadState, EmitToDriver, roomVars
<1>2. Handled(b) /\ b.at \in Nat \ {0}
  BY HandledFacts DEF VInv, FInv
<1>3. CASE ReadState(b)
  <2> DEFINE c == [b EXCEPT !.step = "emit", !.seen = Append(@, ticket[Vehicle(b)])]
  <2>1. Becomes(b, c) /\ b.step = "read"
    BY <1>3 DEF ReadState
  <2>2. c.list = b.list /\ c.step = "emit" /\ c.at = b.at
    BY <1>2 DEF Handled, Batch
  <2>3. PICK d : d = c
    OBVIOUS
  <2> HIDE DEF c
  <2>4. Newest(d)' /\ Done(d) = Done(b)
    BY <2>1, <2>2, <2>3 DEF Newest, Done
  <2> QED BY <1>1, <2>1, <2>2, <2>3, <2>4, GoesOn
<1>4. CASE EmitToDriver(b)
  <2> DEFINE c == [b EXCEPT !.step = "update", !.at = @ + 1]
  <2>1. Becomes(b, c) /\ b.step = "emit"
    BY <1>4 DEF EmitToDriver
  <2>2. c.list = b.list /\ c.at = b.at + 1 /\ c.step = "update"
    BY <1>2 DEF Handled, Batch
  <2>3. PICK d : d = c
    OBVIOUS
  <2> HIDE DEF c
  <2>4. Newest(d)' /\ Done(d) = Done(b)
    BY <1>2, <2>1, <2>2, <2>3 DEF Newest, Done
  <2> QED BY <1>1, <2>1, <2>2, <2>3, <2>4, GoesOn
<1> QED BY <1>3, <1>4

LEMMA ViewsRooms ==
  ASSUME VInv, FInv', NEW b \in batches, EmitToRooms(b)
  PROVE  VInv'
<1>1. /\ batches' = batches \ {b} /\ UNCHANGED <<position, staff, snapshot>>
      /\ board' = IF ~InRoom THEN board
                  ELSE [v \in Vehicles |-> IF \E i \in DOMAIN b.list : b.list[i] = v
                                           THEN b.number ELSE board[v]]
      /\ unsent' = unsent \ Begun(b, Len(b.list)) /\ b.at > Len(b.list)
  BY DEF EmitToRooms
<1>2. b.number # 0 /\ Handled(b) /\ b.at \in Nat /\ Len(b.list) \in Nat /\ b.list \in Orders
      /\ b.step \in {"update", "read", "emit"}
  BY HandledFacts DEF VInv, FInv
<1>3. Done(b) = Len(b.list)
  BY <1>1, <1>2 DEF Done, Handled
<1>4. \A v : v \in Begun(b, Len(b.list)) <=> \E i \in DOMAIN b.list : b.list[i] = v
  BY <1>2, OrderFacts DEF Begun
<1>5. ASSUME NEW v \in Vehicles, position'[v] # 0 PROVE Shown(v)'
  <2>1. CASE InRoom /\ v \in Begun(b, Len(b.list))
    <3>1. board'[v] # 0
      BY <1>1, <1>2, <1>4, <2>1
    <3> QED BY <3>1 DEF Shown
  <2>2. CASE InRoom /\ v \notin Begun(b, Len(b.list))
    <3>1. board'[v] = board[v] /\ (v \in unsent => v \in unsent')
      BY <1>1, <1>4, <2>2
    <3>2. UnderWay(v) => UnderWay(v)'
      BY <1>1, <1>3, <2>2 DEF UnderWay
    <3> QED BY <1>1, <1>5, <3>1, <3>2 DEF VInv, Shown
  <2>3. CASE ~InRoom
    BY <1>1, <2>3 DEF InRoom, Shown
  <2> QED BY <2>1, <2>2, <2>3
<1>6. \A a \in batches' : Newest(a)'
  BY <1>1 DEF VInv, Newest
<1> QED BY <1>5, <1>6 DEF VInv

\* What a handler that fails has cached is known to be unsent.
LEMMA ViewsFailed ==
  ASSUME VInv, FInv', NEW b \in batches, HandlerFails(b)
  PROVE  VInv'
<1>1. batches' = batches \ {b} /\ UNCHANGED <<staff, snapshot, board>>
  BY DEF HandlerFails, Abandon
<1>2. \/ UNCHANGED position /\ unsent' = unsent \cup Begun(b, Done(b))
      \/ CachesPosition(b) /\ unsent' = unsent \cup Begun(b, b.at) /\ Done(b) = b.at - 1
  BY DEF HandlerFails, Abandon, Done, CachesPosition
<1>3. unsent \cup Begun(b, Done(b)) \subseteq unsent'
  BY <1>2, Cached
<1>4. ASSUME NEW v \in Vehicles, position'[v] # 0 PROVE Shown(v)'
  <2>1. UnderWay(v) => UnderWay(v)' \/ v \in unsent'
    BY <1>1, <1>3 DEF UnderWay
  <2>2. position[v] # 0 \/ v \in unsent'
    BY <1>2, <1>4, Cached
  <2> QED BY <1>1, <1>3, <2>1, <2>2 DEF VInv, Shown
<1>5. ASSUME NEW a \in batches' PROVE Newest(a)'
  <2>1. a \in batches \ {b}
    BY <1>1, <1>5
  <2> QED BY <1>2, <2>1, Cached DEF VInv, Newest
<1> QED BY <1>4, <1>5 DEF VInv

LEMMA ViewsConnection ==
  ASSUME VInv, FInv', Connection
  PROVE  VInv'
<1>1. UNCHANGED feedVars /\ UNCHANGED <<batches, position>>
  BY DEF Connection, feedVars
<1>2. ASSUME NEW v \in Vehicles, position[v] # 0 PROVE Shown(v)'
  <2>1. UnderWay(v)' <=> UnderWay(v)
    BY <1>1 DEF UnderWay
  <2>2. CASE StaffJoins
    BY <2>2 DEF StaffJoins, Shown
  <2>3. CASE StaffReads
    BY <1>2, <2>3 DEF StaffReads, Shown
  <2>4. CASE StaffIsSent
    <3>1. board'[v] = IF snapshot[v] = 0 THEN board[v] ELSE snapshot[v]
      BY <2>4 DEF StaffIsSent
    <3> QED BY <1>2, <2>1, <2>4, <3>1 DEF StaffIsSent, VInv, Shown
  <2>5. CASE UNCHANGED <<staff, snapshot, board, unsent>>
    BY <1>2, <2>1, <2>5 DEF VInv, Shown
  <2> QED BY <2>2, <2>3, <2>4, <2>5 DEF Connection
<1> QED BY <1>1, <1>2, ShownKept

LEMMA ViewsRefused ==
  ASSUME VInv, FInv', ConnectionFails
  PROVE  VInv'
<1>1. UNCHANGED feedVars /\ UNCHANGED <<batches, position, board, unsent, snapshot>>
  BY DEF ConnectionFails, feedVars
<1>2. staff' = "out" \/ staff' = staff
  BY DEF ConnectionFails
<1>3. \A v \in Vehicles : position[v] # 0 => Shown(v)'
  BY <1>1, <1>2 DEF VInv, Shown, UnderWay
<1> QED BY <1>1, <1>3, ShownKept

LEMMA ViewsChange ==
  ASSUME VInv, FInv', BeginChange \/ WriteTicket \/ Notify \/ ChangeFails \/ AppConnects
  PROVE  VInv'
<1>1. UNCHANGED feedVars /\ UNCHANGED <<batches, position, staff, unsent, snapshot>>
  BY DEF BeginChange, WriteTicket, Notify, ChangeFails, AppConnects, feedVars, roomVars
<1>2. UNCHANGED board
  <2>1. CASE Notify
    <3>1. change.lastPosition = 0
      BY <2>1 DEF Notify, VInv, FInv, Change, NoChange
    <3> QED BY <2>1, <3>1 DEF Notify, NotifyRooms
  <2>2. CASE BeginChange \/ WriteTicket \/ ChangeFails \/ AppConnects
    BY <2>2 DEF BeginChange, WriteTicket, ChangeFails, AppConnects, roomVars
  <2> QED BY <2>1, <2>2
<1>3. \A v \in Vehicles : position[v] # 0 => Shown(v)'
  BY <1>1, <1>2 DEF VInv, Shown, UnderWay
<1> QED BY <1>1, <1>3, ShownKept

LEMMA ViewsInit == Init => VInv
BY TypesInit DEF Init, VInv, NoPosition

LEMMA ViewsNext == VInv /\ [Next]_vars => VInv'
<1> SUFFICES ASSUME VInv, [Next]_vars PROVE VInv'
  OBVIOUS
<1>1. FInv'
  BY TypesNext DEF VInv
<1>2. CASE (SocketNext /\ UNCHANGED <<feedVars, changeVars, roomVars>>) \/ UNCHANGED vars
  <2>1. UNCHANGED feedVars /\ UNCHANGED <<batches, position, staff, snapshot, board, unsent>>
    BY <1>2 DEF vars, feedVars, roomVars
  <2>2. \A v \in Vehicles : position[v] # 0 => Shown(v)'
    BY <2>1 DEF VInv, Shown, UnderWay
  <2> QED BY <1>1, <2>1, <2>2, ShownKept
<1>3. ASSUME NEW b \in batches,
             UpdateLastPosition(b) \/ ReadState(b) \/ EmitToDriver(b) \/ EmitToRooms(b)
      PROVE  VInv'
  BY <1>1, <1>3, ViewsUpdate, ViewsRead, ViewsRooms
<1>4. CASE Serves
  BY <1>1, <1>2, <1>3, <1>4, ViewsMessage, ViewsConnection, ViewsChange DEF Serves
<1>5. CASE RedisFails
  BY <1>1, <1>5, ViewsFailed, ViewsRefused, ViewsChange DEF RedisFails
<1> QED BY <1>2, <1>4, <1>5 DEF Next

\* A client that has connected, at whatever moment and whatever calls of Redis fail,
\* misses a vehicle that has a position, once the messages are handled, only if the
\* handler of a message failed between caching and sending it, after the client had read
\* (MonitoringGateway.handleConnection joins the room before it reads).
THEOREM NoneMissed == Spec => []NothingMissed
<1>1. VInv => NothingMissed
  BY DEF VInv, Shown, UnderWay, NothingMissed
<1> QED BY <1>1, ViewsInit, ViewsNext, PTL DEF Spec

\* The first position of a message never takes a vehicle back, although handlers
\* overlap and nobody waits for them: the commands to Redis keep their order.
THEOREM BackwardInBursts == Spec => BackwardOnlyInBursts
<1>1. ASSUME VInv, [Next]_vars, NEW v \in Vehicles, position'[v] < position[v]
      PROVE  \E b \in batches : b.number = position'[v] /\ Vehicle(b) = v /\ b.at > 1
  <2>0. position[v] \in 0 .. MaxMessages
    BY <1>1 DEF VInv, FInv, TypeOK
  <2>1. UNCHANGED position \/ \E b \in batches : CachesPosition(b)
    BY <1>1 DEF Next, Serves, RedisFails, UpdateLastPosition, HandlerFails, ChangeFails,
                ConnectionFails, Message, ReadState, EmitToDriver, EmitToRooms, BeginChange, WriteTicket,
                Notify, Connection, AppConnects, feedVars, vars
  <2>2. PICK b \in batches : CachesPosition(b)
    <3>1. position'[v] # position[v]
      BY <1>1, <2>0
    <3> QED BY <2>1, <3>1
  <2>3. /\ b.at <= Len(b.list) /\ b.step = "update"
        /\ position' = [position EXCEPT ![Vehicle(b)] = b.number]
    BY <2>2 DEF CachesPosition
  <2>4. Vehicle(b) \in Vehicles /\ b.at \in Nat \ {0} /\ b.number \in Nat
    BY <1>1, <2>3, HandledFacts DEF VInv, FInv
  <2>5. v = Vehicle(b) /\ position'[v] = b.number
    BY <1>1, <2>0, <2>3, <2>4 DEF VInv, FInv, TypeOK
  <2>6. b.at # 1
    BY <1>1, <2>0, <2>3, <2>4, <2>5 DEF VInv, Newest
  <2> QED BY <2>4, <2>5, <2>6
<1>2. VInv /\ [Next]_vars =>
        [\A v \in Vehicles : position'[v] < position[v] =>
           \E b \in batches : b.number = position'[v] /\ Vehicle(b) = v /\ b.at > 1]_vars
  BY <1>1
<1> QED BY <1>2, ViewsInit, ViewsNext, PTL DEF Spec, BackwardOnlyInBursts
=============================================================================

-------------------------- MODULE TicketCreationProofs --------------------------
(***************************************************************************)
(* For any vehicles, drivers, loaders, days, requests and failures, and    *)
(* however loads and requests overlap: types, the numbers of the tickets,  *)
(* and the positions a load of the cache must not lose.                    *)
(***************************************************************************)
EXTENDS TicketCreation, FiniteSetTheorems, TLAPS

-----------------------------------------------------------------------------
(* Types.                                                                   *)

TInv ==
  /\ TypeOK
  /\ \A r \in Requests : pc[r] \in InFlight => subject[r] \in Ticket

Labels == InFlight \cup {"idle", "done"}

\* What TypeOK says of requests, and what a request in flight has.
ReqTypes ==
  /\ sequence \in Nat
  /\ receipts \subseteq Nat
  /\ holder \in Requests \cup {Nobody}
  /\ pc \in [Requests -> Labels]
  /\ kind \in [Requests -> Kinds \cup {"NONE"}]
  /\ subject \in [Requests -> Ticket \cup {NoTicket}]
  /\ read \in [Requests -> Ticket \cup {NoTicket}]
  /\ overtaken \subseteq Requests
  /\ \A r \in Requests : pc[r] \in InFlight => subject[r] \in Ticket

LEMMA TInvParts == TInv <=> CacheTypeOK /\ ReqTypes
BY DEF TInv, TypeOK, ReqTypes, Labels

LEMMA TInvAfter ==
  ASSUME CacheTypeOK', ReqTypes'
  PROVE  TInv'
BY DEF TInv, TypeOK, ReqTypes, Labels

LEMMA LoadersOK == Requests \subseteq Loaders /\ Boot \in Loaders
BY CacheAssumptions, CreationAssumptions

LEMMA NoLoadOK == NoLoad \in Loading /\ NewLoad \in Loading
<1>1. [v \in Vehicles |-> 0] \in [Vehicles -> 0 .. MaxPosition] /\ 0 \in 0 .. MaxDay
  BY CacheAssumptions
<1>2. {} \in SUBSET Ticket /\ {} \in SUBSET Vehicles /\ {} \in SUBSET (Vehicles \X {"state", "position"})
  OBVIOUS
<1> QED BY <1>1, <1>2 DEF NoLoad, NewLoad, Loading

\* The loads of a process that has just started.
LEMMA FirstLoads ==
  [l \in Loaders |-> IF l = Boot THEN NewLoad ELSE NoLoad] \in [Loaders -> Loading]
BY NoLoadOK

LEMMA TypesInit == Init => TInv
<1> SUFFICES ASSUME Init PROVE TInv
  OBVIOUS
<1>1. CacheTypeOK
  <2>1. /\ shown \in [Vehicles -> Ticket \cup {NoTicket}]
        /\ position \in [Vehicles -> 0 .. MaxPosition]
        /\ newest \in [Vehicles -> 0 .. MaxPosition]
    BY CacheAssumptions DEF Init, CacheInit
  <2>2. day \in 1 .. MaxDay /\ failures \in 0 .. MaxFailures /\ lastLoad \in 0 .. MaxDay
    BY CacheAssumptions DEF Init, CacheInit
  <2>3. load \in [Loaders -> Loading]
    BY FirstLoads DEF Init, CacheInit
  <2>4. /\ tickets \subseteq Ticket /\ routed \subseteq Vehicles /\ doubted \subseteq Vehicles
        /\ up \in BOOLEAN
    BY DEF Init, CacheInit
  <2> QED BY <2>1, <2>2, <2>3, <2>4 DEF CacheTypeOK
<1>2. ReqTypes
  BY DEF Init, ReqTypes, Labels, InFlight, CachePhase, DbPhase
<1> QED BY <1>1, <1>2, TInvParts

\* A load stays one when a step gives it another place, or less to do.
LEMMA CrossingOK ==
  ASSUME load \in [Loaders -> Loading], NEW l \in Loaders, NEW moved \in Loading
  PROVE  Crossing(l, moved) \in [Loaders -> Loading]
<1>1. ASSUME NEW k \in Loaders
      PROVE  [load[k] EXCEPT !.crossed = load[k].at \in {"clear", "query", "hydrate"}] \in Loading
  <2> DEFINE inside == load[k].at \in {"clear", "query", "hydrate"}
  <2>1. inside \in BOOLEAN
    OBVIOUS
  <2>2. ASSUME NEW b \in BOOLEAN PROVE [load[k] EXCEPT !.crossed = b] \in Loading
    BY DEF Loading
  <2> HIDE DEF inside
  <2>3. [load[k] EXCEPT !.crossed = inside] \in Loading
    BY <2>1, <2>2
  <2> QED BY <2>3 DEF inside
<1> QED BY <1>1 DEF Crossing

LEMMA OutdatingOK ==
  ASSUME load \in [Loaders -> Loading], NEW v \in Vehicles
  PROVE  Outdating(v) \in [Loaders -> Loading]
<1>1. ASSUME NEW l \in Loaders
      PROVE  [load[l] EXCEPT !.changed =
                IF load[l].at = "hydrate" THEN @ \cup {v} ELSE @] \in Loading
  BY DEF Loading
<1> QED BY <1>1 DEF Outdating

\* The cache is loaded from tickets, and with positions it had.
LEMMA LoadTypes ==
  ASSUME CacheTypeOK, NEW l \in Loaders,
         \/ StartLoad(l) \/ SavePositions(l) \/ Clear(l) \/ QueryTickets(l) \/ EndLoad(l)
         \/ FailLoad(l) \/ \E v \in Vehicles : HydrateState(l, v) \/ HydratePosition(l, v)
  PROVE  CacheTypeOK'
<1>0. load \in [Loaders -> Loading] /\ load[l] \in Loading
  BY DEF CacheTypeOK
<1>1. CASE StartLoad(l)
  <2>1. load' \in [Loaders -> Loading]
    BY <1>0, <1>1, NoLoadOK DEF StartLoad
  <2> QED BY <1>1, <2>1 DEF StartLoad, redis, CacheTypeOK
<1>2. CASE SavePositions(l)
  <2>1. [load[l] EXCEPT !.at = "clear", !.saved = position] \in Loading
    BY <1>0 DEF Loading, CacheTypeOK
  <2>2. load' \in [Loaders -> Loading]
    BY <1>0, <1>2, <2>1 DEF SavePositions
  <2> QED BY <1>2, <2>2 DEF SavePositions, redis, CacheTypeOK
<1>3. CASE Clear(l)
  <2>1. [load[l] EXCEPT !.at = "query"] \in Loading
    BY <1>0 DEF Loading
  <2>2. load' \in [Loaders -> Loading]
    BY <1>0, <1>3, <2>1, CrossingOK DEF Clear
  <2>3. position' \in [Vehicles -> 0 .. MaxPosition]
    BY <1>3, CacheAssumptions DEF Clear
  <2> QED BY <1>3, <2>2, <2>3 DEF Clear, CacheTypeOK
<1>4. CASE QueryTickets(l)
  <2>1. ActiveToday \in SUBSET Ticket /\ day \in 0 .. MaxDay
    BY DEF ActiveToday, CacheTypeOK
  <2>2. Vehicles \X {"state", "position"} \in SUBSET (Vehicles \X {"state", "position"})
    OBVIOUS
  <2>3. [load[l] EXCEPT !.at = "hydrate", !.day = day, !.active = ActiveToday,
                        !.pending = Vehicles \X {"state", "position"}] \in Loading
    <3> DEFINE all == Vehicles \X {"state", "position"}
    <3>1. all \in SUBSET (Vehicles \X {"state", "position"})
      BY <2>2
    <3> HIDE DEF all
    <3>2. [load[l] EXCEPT !.at = "hydrate", !.day = day, !.active = ActiveToday,
                          !.pending = all] \in Loading
      BY <1>0, <2>1, <3>1 DEF Loading
    <3> QED BY <3>2 DEF all
  <2>4. load' \in [Loaders -> Loading]
    BY <1>0, <1>4, <2>3 DEF QueryTickets
  <2> QED BY <1>4, <2>4 DEF QueryTickets, redis, CacheTypeOK
<1>5. CASE EndLoad(l)
  <2>1. load' \in [Loaders -> Loading] /\ load[l].day \in 0 .. MaxDay
    BY <1>0, <1>5, NoLoadOK DEF EndLoad, Loading
  <2> QED BY <1>5, <2>1 DEF EndLoad, redis, CacheTypeOK
<1>6. CASE FailLoad(l)
  <2>1. load' \in [Loaders -> Loading]
    BY <1>0, <1>6, NoLoadOK DEF FailLoad
  <2> QED BY <1>6, <2>1, CacheAssumptions DEF FailLoad, redis, CacheTypeOK
<1>7. ASSUME NEW v \in Vehicles, HydrateState(l, v) PROVE CacheTypeOK'
  <2>1. load[l].active \in SUBSET Ticket
    BY <1>0 DEF Loading
  <2>2. Shown(l, v) \subseteq Ticket \cup {NoTicket}
    BY <2>1 DEF Shown
  <2>3. shown' \in [Vehicles -> Ticket \cup {NoTicket}]
    BY <1>7, <2>2 DEF HydrateState, CacheTypeOK
  <2> DEFINE moved == [load[l] EXCEPT !.pending = @ \ {<<v, "state">>}]
  <2>4. moved \in Loading
    BY <1>0 DEF Loading
  <2>5. load' \in [Loaders -> Loading]
    <3>1. load' = [load EXCEPT ![l] = moved]
      BY <1>7 DEF HydrateState
    <3> HIDE DEF moved
    <3> QED BY <1>0, <2>4, <3>1
  <2>6. doubted' \subseteq Vehicles /\ routed' \subseteq Vehicles
    BY <1>7 DEF HydrateState, CacheTypeOK
  <2> QED BY <1>7, <2>3, <2>5, <2>6 DEF HydrateState, CacheTypeOK
<1>8. ASSUME NEW v \in Vehicles, HydratePosition(l, v) PROVE CacheTypeOK'
  <2> DEFINE moved == [load[l] EXCEPT !.pending = @ \ {<<v, "position">>}]
  <2>1. moved \in Loading
    BY <1>0 DEF Loading
  <2>2. load' \in [Loaders -> Loading]
    <3>1. load' = Crossing(l, moved) \/ load' = [load EXCEPT ![l] = moved]
      BY <1>8 DEF HydratePosition
    <3> HIDE DEF moved
    <3> QED BY <1>0, <2>1, <3>1, CrossingOK
  <2>3. load[l].saved[v] \in 0 .. MaxPosition
    BY <1>0 DEF Loading
  <2>4. position' \in [Vehicles -> 0 .. MaxPosition]
    BY <1>8, <2>3 DEF HydratePosition, CacheTypeOK
  <2> QED BY <1>8, <2>2, <2>4 DEF HydratePosition, CacheTypeOK
<1> QED BY <1>1, <1>2, <1>3, <1>4, <1>5, <1>6, <1>7, <1>8

LEMMA ClockTypes ==
  ASSUME CacheTypeOK, NextDay \/ \E v \in Vehicles : UpdatePosition(v)
  PROVE  CacheTypeOK'
<1>1. CASE NextDay
  BY <1>1, CacheAssumptions DEF NextDay, redis, CacheTypeOK
<1>2. ASSUME NEW v \in Vehicles, UpdatePosition(v) PROVE CacheTypeOK'
  <2>1. newest[v] + 1 \in 0 .. MaxPosition
    BY <1>2, CacheAssumptions DEF UpdatePosition, CacheTypeOK
  <2>2. newest' \in [Vehicles -> 0 .. MaxPosition] /\ newest'[v] = newest[v] + 1
    BY <1>2, <2>1 DEF UpdatePosition, CacheTypeOK
  <2>3. position' \in [Vehicles -> 0 .. MaxPosition]
    BY <1>2, <2>1, <2>2 DEF UpdatePosition, CacheTypeOK
  <2> QED BY <1>2, <2>2, <2>3 DEF UpdatePosition, CacheTypeOK
<1> QED BY <1>1, <1>2

\* A request that finishes or goes on keeps what it has.
LEMMA MoveTypes ==
  ASSUME TInv, NEW r \in Requests, UNCHANGED <<sequence, receipts>>,
         holder' \in Requests \cup {Nobody}, overtaken' \subseteq Requests,
         \/ Finish(r)
         \/ \E label \in InFlight : Goto(r, label) /\ pc[r] \in InFlight
                                    /\ UNCHANGED <<kind, subject, read>>
  PROVE  ReqTypes'
<1>0. ReqTypes
  BY TInvParts
<1>1. CASE Finish(r)
  BY <1>0, <1>1 DEF ReqTypes, Labels, InFlight, CachePhase, DbPhase, Finish, Goto
<1>2. ASSUME NEW label \in InFlight, Goto(r, label), pc[r] \in InFlight,
             UNCHANGED <<kind, subject, read>>
      PROVE  ReqTypes'
  BY <1>0, <1>2 DEF ReqTypes, Labels, Goto
<1> QED BY <1>1, <1>2

LEMMA ReturnTypes ==
  ASSUME TInv, NEW r \in Requests, UNCHANGED <<sequence, receipts>>,
         holder' \in Requests \cup {Nobody}, pc[r] \in InFlight, Return(r)
  PROVE  ReqTypes'
<1>1. overtaken' \subseteq Requests
  BY TInvParts DEF Return, ReqTypes
<1>2. "write" \in InFlight
  BY DEF InFlight, DbPhase
<1> QED BY <1>1, <1>2, MoveTypes DEF Return

LEMMA BeginTypes ==
  ASSUME TInv, NEW r \in Requests, BeginCreate(r) \/ BeginOther(r)
  PROVE  TInv'
<1>0. CacheTypeOK /\ ReqTypes
  BY TInvParts
<1>1. UNCHANGED cacheVars /\ UNCHANGED <<sequence, receipts, holder, read, overtaken>>
  BY DEF BeginCreate, BeginOther
<1>2. CacheTypeOK'
  BY <1>0, <1>1 DEF cacheVars, redis, CacheTypeOK
<1>3. PICK t \in Ticket, k \in Kinds, label \in InFlight :
        /\ subject' = [subject EXCEPT ![r] = t]
        /\ kind' = [kind EXCEPT ![r] = k]
        /\ Goto(r, label)
  <2>1. CASE BeginCreate(r)
    <3>1. PICK v \in Vehicles, d \in Drivers \cup {NoDriver}, w \in 1 .. MaxDay :
            subject' = [subject EXCEPT ![r] =
              [vehicle |-> v, driver |-> d, number |-> 1, day |-> w,
               status |-> "ACTIVE", leg |-> 1]]
      BY <2>1 DEF BeginCreate
    <3>2. [vehicle |-> v, driver |-> d, number |-> 1, day |-> w,
           status |-> "ACTIVE", leg |-> 1] \in Ticket
      BY <1>0 DEF CacheTypeOK, Ticket
    <3>3. kind' = [kind EXCEPT ![r] = "CREATE"] /\ Goto(r, "lookup")
      BY <2>1 DEF BeginCreate
    <3> QED BY <3>1, <3>2, <3>3 DEF Kinds, InFlight, DbPhase
  <2>2. CASE BeginOther(r)
    <3>1. PICK t \in tickets, k \in {"CLOSE", "MOVE", "ARRIVE"} :
            /\ subject' = [subject EXCEPT ![r] = t]
            /\ kind' = [kind EXCEPT ![r] = k]
            /\ Goto(r, IF k = "ARRIVE" THEN "day" ELSE "write")
      BY <2>2 DEF BeginOther
    <3> QED BY <1>0, <3>1 DEF CacheTypeOK, Kinds, InFlight, DbPhase, CachePhase
  <2> QED BY <2>1, <2>2
<1>4. ReqTypes'
  BY <1>0, <1>1, <1>3 DEF ReqTypes, Labels, Goto
<1> QED BY <1>2, <1>4, TInvAfter

\* What a write makes of a row is the row of the same number.
LEMMA ChangedFacts ==
  ASSUME NEW r \in Requests, NEW t \in Ticket, subject[r] \in Ticket, NEW u \in Changed(r, t)
  PROVE  u \in Ticket /\ u.number = t.number /\ u.vehicle = t.vehicle /\ u.day = t.day
<1>1. CASE kind[r] = "CLOSE"
  BY <1>1 DEF Changed, Ticket
<1>2. CASE kind[r] # "CLOSE"
  <2>1. PICK l \in Nat \ {0} : u = [t EXCEPT !.leg = l]
    BY <1>2 DEF Changed, Ticket
  <2> QED BY <2>1 DEF Ticket
<1> QED BY <1>1, <1>2

\* The steps that touch tickets, or nothing but where the request is.
LEMMA TableTypes ==
  ASSUME TInv, NEW r \in Requests,
         \/ Lookup(r) \/ Lock(r) \/ Insert(r) \/ CommitTicket(r) \/ Write(r) \/ FailWrite(r)
  PROVE  TInv'
<1>0. CacheTypeOK /\ ReqTypes
  BY TInvParts
<1>1. CASE Lookup(r)
  <2>1. UNCHANGED cacheVars /\ pc[r] \in InFlight /\ "lock" \in InFlight
    BY <1>1 DEF Lookup, InFlight, DbPhase
  <2>2. CacheTypeOK'
    BY <1>0, <2>1 DEF cacheVars, redis, CacheTypeOK
  <2>3. ReqTypes'
    BY <1>0, <1>1, <2>1, MoveTypes DEF Lookup, ReqTypes
  <2> QED BY <2>2, <2>3, TInvAfter
<1>2. CASE Lock(r)
  <2>1. UNCHANGED cacheVars /\ pc[r] \in InFlight /\ "insert" \in InFlight
    BY <1>2 DEF Lock, InFlight, DbPhase
  <2>2. CacheTypeOK'
    BY <1>0, <2>1 DEF cacheVars, redis, CacheTypeOK
  <2>3. PICK t \in Ticket : subject' = [subject EXCEPT ![r] = t]
    <3>1. subject[r] \in Ticket
      BY <1>0, <2>1 DEF ReqTypes
    <3>2. [subject[r] EXCEPT !.number = sequence + 1] \in Ticket
      BY <1>0, <3>1 DEF Ticket, ReqTypes
    <3>3. subject' = [subject EXCEPT ![r] = [subject[r] EXCEPT !.number = sequence + 1]]
      BY <1>2 DEF Lock
    <3> QED BY <3>2, <3>3
  <2>4. ReqTypes'
    BY <1>0, <1>2, <2>1, <2>3 DEF Lock, ReqTypes, Labels, Goto
  <2> QED BY <2>2, <2>4, TInvAfter
<1>3. CASE Insert(r)
  <2>1. UNCHANGED cacheVars /\ pc[r] \in InFlight /\ "commit" \in InFlight
    BY <1>3 DEF Insert, InFlight, DbPhase
  <2>2. CacheTypeOK'
    BY <1>0, <2>1 DEF cacheVars, redis, CacheTypeOK
  <2>3. ReqTypes'
    BY <1>0, <1>3, <2>1, MoveTypes DEF Insert, ReqTypes
  <2> QED BY <2>2, <2>3, TInvAfter
<1>4. CASE CommitTicket(r)
  <2>1. pc[r] \in InFlight /\ "day" \in InFlight
    BY <1>4 DEF CommitTicket, InFlight, CachePhase, DbPhase
  <2>2. subject[r] \in Ticket /\ subject[r].number \in Nat /\ subject[r].vehicle \in Vehicles
    BY <1>0, <2>1 DEF ReqTypes, Ticket
  <2>3. load' \in [Loaders -> Loading]
    BY <1>0, <1>4, <2>2, OutdatingOK DEF CommitTicket, CacheTypeOK
  <2>4. CacheTypeOK'
    BY <1>0, <1>4, <2>2, <2>3 DEF CommitTicket, redis, CacheTypeOK
  <2>5. ReqTypes'
    BY <1>0, <1>4, <2>1, <2>2 DEF CommitTicket, ReqTypes, Labels, Goto
  <2> QED BY <2>4, <2>5, TInvAfter
<1>5. CASE Write(r)
  <2>1. pc[r] \in InFlight /\ "day" \in InFlight
    BY <1>5 DEF Write, InFlight, CachePhase, DbPhase
  <2>2. subject[r] \in Ticket /\ subject[r].vehicle \in Vehicles
    BY <1>0, <2>1 DEF ReqTypes, Ticket
  <2>3. PICK t \in Row(r) : \E u \in Changed(r, t) :
          /\ tickets' = (tickets \ {t}) \cup {u}
          /\ IF kind[r] = "ARRIVE"
             THEN Finish(r)
             ELSE /\ Goto(r, "day")
                  /\ subject' = [subject EXCEPT ![r] = u]
                  /\ UNCHANGED <<kind, read>>
    BY <1>5 DEF Write
  <2>4. PICK u \in Changed(r, t) :
          /\ tickets' = (tickets \ {t}) \cup {u}
          /\ IF kind[r] = "ARRIVE"
             THEN Finish(r)
             ELSE /\ Goto(r, "day")
                  /\ subject' = [subject EXCEPT ![r] = u]
                  /\ UNCHANGED <<kind, read>>
    BY <2>3
  <2>5. u \in Ticket
    BY <1>0, <2>2, ChangedFacts DEF Row, CacheTypeOK
  <2>6. load' \in [Loaders -> Loading]
    BY <1>0, <1>5, <2>2, OutdatingOK DEF Write, CacheTypeOK
  <2>7. tickets' \subseteq Ticket /\ doubted' \subseteq Vehicles
    BY <1>0, <1>5, <2>2, <2>4, <2>5 DEF Write, CacheTypeOK
  <2>8. CacheTypeOK'
    BY <1>0, <1>5, <2>6, <2>7 DEF Write, redis, CacheTypeOK
  <2>9. overtaken' \subseteq Requests /\ UNCHANGED <<sequence, receipts, holder>>
    BY <1>0, <1>5 DEF Write, Overtaken, ReqTypes
  <2>10. CASE Finish(r)
    <3>1. ReqTypes'
      BY <1>0, <2>9, <2>10, MoveTypes DEF ReqTypes
    <3> QED BY <2>8, <3>1, TInvAfter
  <2>11. CASE Goto(r, "day") /\ subject' = [subject EXCEPT ![r] = u] /\ UNCHANGED <<kind, read>>
    <3>1. ReqTypes'
      BY <1>0, <2>1, <2>5, <2>9, <2>11 DEF ReqTypes, Labels, Goto
    <3> QED BY <2>8, <3>1, TInvAfter
  <2> QED BY <2>4, <2>10, <2>11
<1>6. CASE FailWrite(r)
  <2>1. CacheTypeOK'
    BY <1>0, <1>6, CacheAssumptions DEF FailWrite, redis, CacheTypeOK
  <2>2. overtaken' \subseteq Requests /\ holder' \in Requests \cup {Nobody}
    BY <1>0, <1>6 DEF FailWrite, ReqTypes
  <2>3. ReqTypes'
    BY <1>6, <2>2, MoveTypes DEF FailWrite
  <2> QED BY <2>1, <2>3, TInvAfter
<1> QED BY <1>1, <1>2, <1>3, <1>4, <1>5, <1>6

\* The calls of setDailyTicketId.
LEMMA CallTypes ==
  ASSUME TInv, NEW r \in Requests,
         \/ CheckDay(r) \/ ResetFor(r) \/ AwaitLoad(r) \/ Hget(r)
         \/ FindTicket(r) \/ Hset(r) \/ FailCache(r)
  PROVE  TInv'
<1>0. CacheTypeOK /\ ReqTypes
  BY TInvParts
<1>1. pc[r] \in InFlight /\ {"reset", "await", "hget", "find", "hset"} \subseteq InFlight
  BY DEF CheckDay, ResetFor, AwaitLoad, Hget, FindTicket, Hset, FailCache, InFlight, CachePhase
<1>2. UNCHANGED <<sequence, receipts, holder>> /\ holder' \in Requests \cup {Nobody}
  BY <1>0 DEF CheckDay, ResetFor, AwaitLoad, Hget, FindTicket, Hset, FailCache, ReqTypes
<1>3. CASE CheckDay(r)
  <2>1. CacheTypeOK'
    BY <1>0, <1>3 DEF CheckDay, cacheVars, redis, CacheTypeOK
  <2>2. ReqTypes'
    BY <1>0, <1>1, <1>2, <1>3, MoveTypes DEF CheckDay, ReqTypes
  <2> QED BY <2>1, <2>2, TInvAfter
<1>4. CASE ResetFor(r)
  <2>1. CacheTypeOK'
    BY <1>0, <1>4, LoadTypes, LoadersOK DEF ResetFor
  <2>2. ReqTypes'
    BY <1>0, <1>1, <1>2, <1>4, MoveTypes DEF ResetFor, ReqTypes
  <2> QED BY <2>1, <2>2, TInvAfter
<1>5. CASE AwaitLoad(r)
  <2>1. CacheTypeOK'
    BY <1>0, <1>5 DEF AwaitLoad, cacheVars, redis, CacheTypeOK
  <2>2. ReqTypes'
    BY <1>0, <1>1, <1>2, <1>5, MoveTypes DEF AwaitLoad, ReqTypes
  <2> QED BY <2>1, <2>2, TInvAfter
<1>6. CASE Hget(r)
  <2>1. CacheTypeOK'
    BY <1>0, <1>6 DEF Hget, cacheVars, redis, CacheTypeOK
  <2>2. CASE Return(r)
    BY <1>1, <1>2, <2>1, <2>2, ReturnTypes, TInvAfter
  <2>3. CASE Goto(r, "find") /\ UNCHANGED <<kind, subject, read, overtaken>>
    <3>1. ReqTypes'
      BY <1>0, <1>1, <1>2, <2>3, MoveTypes DEF ReqTypes
    <3> QED BY <2>1, <3>1, TInvAfter
  <2> QED BY <1>6, <2>2, <2>3 DEF Hget
<1>7. CASE FindTicket(r)
  <2>1. CacheTypeOK'
    BY <1>0, <1>7 DEF FindTicket, cacheVars, redis, CacheTypeOK
  <2>2. Found(r) \subseteq Ticket \cup {NoTicket}
    BY <1>0 DEF Found, Row, CacheTypeOK
  <2>3. ReqTypes'
    BY <1>0, <1>1, <1>2, <1>7, <2>2 DEF FindTicket, ReqTypes, Labels, Goto
  <2> QED BY <2>1, <2>3, TInvAfter
<1>8. CASE Hset(r)
  <2>1. CacheTypeOK'
    <3>1. read[r] \in Ticket \cup {NoTicket} /\ subject[r].vehicle \in Vehicles
      BY <1>0, <1>1 DEF ReqTypes, Ticket
    <3>2. doubted' \subseteq Vehicles /\ shown' \in [Vehicles -> Ticket \cup {NoTicket}]
      BY <1>0, <1>8, <3>1 DEF Hset, CacheTypeOK
    <3> QED BY <1>0, <1>8, <3>2 DEF Hset, CacheTypeOK
  <2>2. ReqTypes'
    BY <1>1, <1>2, <1>8, ReturnTypes DEF Hset
  <2> QED BY <2>1, <2>2, TInvAfter
<1>9. CASE FailCache(r)
  <2>1. subject[r].vehicle \in Vehicles
    BY <1>0, <1>1 DEF ReqTypes, Ticket
  <2>2. CacheTypeOK'
    BY <1>0, <1>9, <2>1, CacheAssumptions DEF FailCache, redis, CacheTypeOK
  <2>3. CASE Return(r)
    BY <1>1, <1>2, <2>2, <2>3, ReturnTypes, TInvAfter
  <2>4. CASE Finish(r) /\ overtaken' = overtaken \ {r}
    <3>1. ReqTypes'
      BY <1>0, <1>2, <2>4, MoveTypes DEF ReqTypes
    <3> QED BY <2>2, <3>1, TInvAfter
  <2> QED BY <1>9, <2>3, <2>4 DEF FailCache
<1> QED BY <1>3, <1>4, <1>5, <1>6, <1>7, <1>8, <1>9

LEMMA RestartTypes ==
  ASSUME TInv, Restart
  PROVE  TInv'
<1>0. CacheTypeOK /\ ReqTypes
  BY TInvParts
<1>1. load' \in [Loaders -> Loading]
  BY FirstLoads DEF Restart
<1>2. CacheTypeOK'
  <2>1. UNCHANGED <<day, tickets, routed, shown, position, newest, doubted>>
    BY DEF Restart, redis
  <2>2. lastLoad' \in 0 .. MaxDay /\ failures' \in 0 .. MaxFailures
    BY <1>0, CacheAssumptions DEF Restart, CacheTypeOK
  <2>3. up' \in BOOLEAN
    BY DEF Restart
  <2> QED BY <1>0, <1>1, <2>1, <2>2, <2>3 DEF CacheTypeOK
<1>3. ReqTypes'
  BY <1>0 DEF Restart, ReqTypes, Labels, InFlight, CachePhase, DbPhase
<1> QED BY <1>2, <1>3, TInvAfter

LEMMA TypesNext == TInv /\ [Next]_vars => TInv'
<1> SUFFICES ASSUME TInv, [Next]_vars PROVE TInv'
  OBVIOUS
<1>0. CacheTypeOK /\ ReqTypes
  BY TInvParts
<1>1. CASE \E r \in Requests : Request(r)
  BY <1>1, BeginTypes, TableTypes, CallTypes DEF Request
<1>2. CASE UNCHANGED reqVars /\ CacheTypeOK'
  <2>1. ReqTypes'
    BY <1>0, <1>2 DEF ReqTypes, reqVars
  <2> QED BY <1>2, <2>1, TInvAfter
<1>3. CASE Restart
  BY <1>3, RestartTypes
<1>4. CASE UNCHANGED vars
  <2>1. CacheTypeOK' /\ UNCHANGED reqVars
    BY <1>0, <1>4 DEF vars, cacheVars, redis, CacheTypeOK
  <2> QED BY <1>2, <2>1
<1>5. ASSUME NEW l \in Loaders, Load(l) PROVE CacheTypeOK'
  BY <1>0, <1>5, LoadTypes DEF Load, Reset
<1> QED BY <1>0, <1>1, <1>2, <1>3, <1>4, <1>5, ClockTypes DEF Next

\* What a request has read is a ticket or none, and what it writes is a ticket: no
\* request in flight is without the one it creates, closes or moves.
THEOREM Typing == Spec => []TypeOK
<1>1. TInv => TypeOK
  BY DEF TInv
<1> QED BY <1>1, TypesInit, TypesNext, PTL DEF Spec

-----------------------------------------------------------------------------
(* Numbers.                                                                 *)

\* The tickets T have the numbers 1 to n, one each.
Numbered(T, n) ==
  /\ IsFiniteSet(T)
  /\ Cardinality(T) = n
  /\ {t.number : t \in T} = 1 .. n
  /\ \A t, u \in T : t.number = u.number => t = u

LEMMA Appended ==
  ASSUME NEW T, NEW n \in Nat, NEW s, Numbered(T, n), s.number = n + 1
  PROVE  Numbered(T \cup {s}, n + 1)
<1>1. \A t \in T : t.number \in 1 .. n
  BY DEF Numbered
<1>2. s \notin T
  BY <1>1
<1>3. IsFiniteSet(T \cup {s}) /\ Cardinality(T \cup {s}) = n + 1
  BY <1>2, FS_AddElement DEF Numbered
<1>4. {t.number : t \in T \cup {s}} = {t.number : t \in T} \cup {n + 1}
  OBVIOUS
<1>5. {t.number : t \in T \cup {s}} = 1 .. (n + 1)
  BY <1>4 DEF Numbered
<1>6. ASSUME NEW t \in T \cup {s}, NEW u \in T \cup {s}, t.number = u.number
      PROVE  t = u
  BY <1>1, <1>6 DEF Numbered
<1>7. QED
  BY <1>3, <1>5, <1>6 DEF Numbered

LEMMA Replaced ==
  ASSUME NEW T, NEW n \in Nat, NEW s \in T, NEW t, Numbered(T, n), t.number = s.number
  PROVE  Numbered((T \ {s}) \cup {t}, n)
<1> DEFINE U == T \ {s}
<1>1. \A u \in U : u.number # t.number
  BY DEF Numbered
<1>2. t \notin U
  BY <1>1
<1>3. IsFiniteSet(U) /\ Cardinality(U) = n - 1
  BY FS_RemoveElement DEF Numbered
<1>4. IsFiniteSet(U \cup {t}) /\ Cardinality(U \cup {t}) = n
  <2> HIDE DEF U
  <2> QED
    BY <1>2, <1>3, FS_AddElement
<1>5. {u.number : u \in U \cup {t}} = {u.number : u \in T}
  OBVIOUS
<1>6. ASSUME NEW u \in U \cup {t}, NEW v \in U \cup {t}, u.number = v.number
      PROVE  u = v
  BY <1>1, <1>6 DEF Numbered
<1>7. QED
  BY <1>4, <1>5, <1>6 DEF Numbered


\* The request that numbers a ticket holds the row, and has read what is committed.
Numbers(r) == pc[r] \in {"insert", "commit"} => holder = r /\ subject[r].number = sequence + 1

NInv ==
  /\ TInv
  /\ Numbered(tickets, sequence)
  /\ receipts = 1 .. sequence
  /\ \A r \in Requests : Numbers(r)

LEMMA NumbersInit == Init => NInv
<1> SUFFICES ASSUME Init PROVE NInv
  OBVIOUS
<1>1. tickets = {} /\ sequence = 0 /\ receipts = {}
  BY DEF Init, CacheInit
<1>2. IsFiniteSet({}) /\ Cardinality({}) = 0
  BY FS_EmptySet
<1>3. 1 .. 0 = {}
  OBVIOUS
<1>4. Numbered(tickets, sequence) /\ receipts = 1 .. sequence
  BY <1>1, <1>2, <1>3 DEF Numbered
<1>5. \A r \in Requests : Numbers(r)
  BY DEF Init, Numbers
<1> QED BY <1>4, <1>5, TypesInit DEF NInv

\* A request that holds the row is the only one that numbers.
LEMMA OneHolder ==
  ASSUME NInv, NEW q \in Requests, NEW r \in Requests,
         pc[q] \in {"insert", "commit"}, pc[r] \in {"insert", "commit"}
  PROVE  q = r
BY DEF NInv, Numbers

\* What a step of one request leaves of the others.
Apart(r) ==
  \A q \in Requests \ {r} : pc'[q] = pc[q] /\ subject'[q] = subject[q]

LEMMA OthersApart ==
  ASSUME TInv, NEW r \in Requests, Request(r)
  PROVE  Apart(r)
<1>1. ReqTypes
  BY TInvParts
<1>2. \/ Finish(r) \/ Return(r)
      \/ \E label \in {"find"} : Goto(r, label) /\ UNCHANGED subject
      \/ \E label \in Labels : Goto(r, label) /\ \E t : subject' = [subject EXCEPT ![r] = t]
      \/ \E label \in Labels : Goto(r, label) /\ UNCHANGED subject
  <2>1. CASE BeginCreate(r) \/ BeginOther(r)
    <3>1. PICK t : subject' = [subject EXCEPT ![r] = t]
      BY <2>1 DEF BeginCreate, BeginOther
    <3>2. PICK label \in Labels : Goto(r, label)
      BY <2>1 DEF BeginCreate, BeginOther, Labels, InFlight, CachePhase, DbPhase
    <3> QED BY <3>1, <3>2
  <2>2. CASE Lock(r)
    <3>1. subject' = [subject EXCEPT ![r] = [subject[r] EXCEPT !.number = sequence + 1]]
      BY <2>2 DEF Lock
    <3>2. Goto(r, "insert") /\ "insert" \in Labels
      BY <2>2 DEF Lock, Labels, InFlight, DbPhase
    <3> QED BY <3>1, <3>2
  <2>3. CASE Write(r)
    <3>1. Finish(r) \/ (Goto(r, "day") /\ \E t : subject' = [subject EXCEPT ![r] = t])
      BY <2>3 DEF Write
    <3>2. "day" \in Labels
      BY DEF Labels, InFlight, CachePhase
    <3> QED BY <3>1, <3>2
  <2>4. CASE Lookup(r) \/ Insert(r) \/ FailWrite(r) \/ CommitTicket(r)
    BY <2>4 DEF Lookup, Insert, FailWrite, CommitTicket, Labels, InFlight, CachePhase, DbPhase
  <2>5. CASE CheckDay(r) \/ ResetFor(r) \/ AwaitLoad(r) \/ Hget(r) \/ FindTicket(r)
    BY <2>5 DEF CheckDay, ResetFor, AwaitLoad, Hget, FindTicket, Labels, InFlight, CachePhase
  <2>6. CASE Hset(r) \/ FailCache(r)
    BY <2>6 DEF Hset, FailCache
  <2> QED BY <2>1, <2>2, <2>3, <2>4, <2>5, <2>6 DEF Request
<1> QED BY <1>1, <1>2 DEF ReqTypes, Apart, Finish, Return, Goto

\* A step that writes no ticket, and after which only who held the row holds it.
LEMMA QuietNumbers ==
  ASSUME NInv, UNCHANGED <<tickets, sequence, receipts>>, TInv',
         \A q \in Requests : pc'[q] \in {"insert", "commit"} =>
           pc[q] \in {"insert", "commit"} /\ subject'[q] = subject[q] /\ holder' = holder
  PROVE  NInv'
BY DEF NInv, Numbers

LEMMA LockNumbers ==
  ASSUME NInv, TInv', NEW r \in Requests, Lock(r), Apart(r)
  PROVE  NInv'
<1>1. pc[r] \in InFlight
  BY DEF Lock, InFlight, DbPhase
<1>2. subject[r] \in Ticket /\ pc \in [Requests -> Labels]
      /\ subject \in [Requests -> Ticket \cup {NoTicket}]
  BY <1>1, TInvParts DEF NInv, ReqTypes
<1>3. UNCHANGED <<tickets, sequence, receipts>> /\ holder' = r /\ holder = Nobody
  BY DEF Lock, RowFree, cacheVars
<1>4. subject'[r].number = sequence + 1
  <2>1. subject' = [subject EXCEPT ![r] = [subject[r] EXCEPT !.number = sequence + 1]]
    BY DEF Lock
  <2>2. subject'[r] = [subject[r] EXCEPT !.number = sequence + 1]
    BY <1>2, <2>1
  <2> QED BY <1>2, <2>2 DEF Ticket
<1>5. ASSUME NEW q \in Requests, q # r PROVE pc'[q] \notin {"insert", "commit"}
  <2>1. pc'[q] = pc[q]
    BY <1>5 DEF Apart
  <2>2. Nobody \notin Requests
    BY CreationAssumptions DEF Nobody
  <2> QED BY <1>3, <1>5, <2>1, <2>2 DEF NInv, Numbers
<1>6. \A q \in Requests : Numbers(q)'
  BY <1>3, <1>4, <1>5 DEF Numbers
<1> QED BY <1>3, <1>6 DEF NInv

LEMMA CommitNumbers ==
  ASSUME NInv, TInv', NEW r \in Requests, CommitTicket(r), Apart(r)
  PROVE  NInv'
<1>1. subject[r].number = sequence + 1 /\ pc[r] = "commit"
  BY DEF NInv, Numbers, CommitTicket
<1>2. sequence \in Nat /\ pc \in [Requests -> Labels]
  BY TInvParts DEF NInv, ReqTypes
<1>3. /\ tickets' = tickets \cup {subject[r]}
      /\ receipts' = receipts \cup {sequence + 1}
      /\ sequence' = sequence + 1
  BY <1>1 DEF CommitTicket
<1>4. Numbered(tickets \cup {subject[r]}, sequence + 1)
  BY <1>1, <1>2, Appended DEF NInv
<1>5. receipts' = 1 .. (sequence + 1)
  BY <1>2, <1>3 DEF NInv
<1>6. pc'[r] = "day"
  BY <1>2 DEF CommitTicket, Goto
<1>7. ASSUME NEW q \in Requests PROVE pc'[q] \notin {"insert", "commit"}
  BY <1>1, <1>6, OneHolder DEF Apart
<1> QED BY <1>3, <1>4, <1>5, <1>7 DEF NInv, Numbers

LEMMA WriteNumbers ==
  ASSUME NInv, TInv', NEW r \in Requests, Write(r), Apart(r)
  PROVE  NInv'
<1>1. pc[r] \in InFlight
  BY DEF Write, InFlight, DbPhase
<1>2. /\ subject[r] \in Ticket /\ tickets \subseteq Ticket /\ sequence \in Nat
      /\ pc \in [Requests -> Labels]
  BY <1>1, TInvParts DEF NInv, ReqTypes, CacheTypeOK
<1>3. PICK t \in Row(r) : \E u \in Changed(r, t) : tickets' = (tickets \ {t}) \cup {u}
  BY DEF Write
<1>4. PICK u \in Changed(r, t) : tickets' = (tickets \ {t}) \cup {u}
  BY <1>3
<1>5. t \in tickets /\ t \in Ticket
  BY <1>2 DEF Row
<1>6. u.number = t.number
  BY <1>2, <1>5, ChangedFacts
<1>7. Numbered(tickets', sequence)
  BY <1>2, <1>4, <1>5, <1>6, Replaced DEF NInv
<1>8. UNCHANGED <<sequence, receipts, holder>>
  BY DEF Write
<1>9. pc'[r] \in {"done", "day"}
  BY <1>2 DEF Write, Finish, Goto
<1>10. \A q \in Requests : Numbers(q)'
  BY <1>8, <1>9 DEF NInv, Numbers, Apart
<1> QED BY <1>7, <1>8, <1>10 DEF NInv

LEMMA RequestNumbers ==
  ASSUME NInv, TInv', NEW r \in Requests, Request(r)
  PROVE  NInv'
<1>0. Apart(r)
  BY OthersApart DEF NInv
<1>1. CASE Lock(r)
  BY <1>0, <1>1, LockNumbers
<1>2. CASE CommitTicket(r)
  BY <1>0, <1>2, CommitNumbers
<1>3. CASE Write(r)
  BY <1>0, <1>3, WriteNumbers
<1>4. pc \in [Requests -> Labels] /\ subject \in [Requests -> Ticket \cup {NoTicket}]
  BY TInvParts DEF NInv, ReqTypes
<1>5. CASE /\ UNCHANGED <<tickets, sequence, receipts>>
           /\ \/ pc'[r] \notin {"insert", "commit"} /\ holder' = holder
              \/ pc'[r] \notin {"insert", "commit"} /\ holder = r
              \/ /\ pc[r] \in {"insert", "commit"}
                 /\ holder' = holder /\ subject'[r] = subject[r]
  <2>1. ASSUME NEW q \in Requests, pc'[q] \in {"insert", "commit"}
        PROVE  pc[q] \in {"insert", "commit"} /\ subject'[q] = subject[q] /\ holder' = holder
    <3>1. CASE q = r
      BY <1>5, <2>1, <3>1
    <3>2. CASE q # r
      BY <1>0, <1>5, <2>1, <3>2 DEF Apart, NInv, Numbers
    <3> QED BY <3>1, <3>2
  <2> QED BY <1>5, <2>1, QuietNumbers
<1>6. CASE Lookup(r) \/ BeginCreate(r) \/ BeginOther(r)
  <2>1. pc'[r] \notin {"insert", "commit"}
    BY <1>4, <1>6 DEF Lookup, BeginCreate, BeginOther, Finish, Goto
  <2>2. UNCHANGED <<tickets, sequence, receipts, holder>>
    BY <1>6 DEF Lookup, BeginCreate, BeginOther, cacheVars
  <2> QED BY <1>5, <2>1, <2>2
<1>7. CASE Insert(r)
  <2>1. UNCHANGED <<tickets, sequence, receipts>> /\ pc[r] = "insert"
    BY <1>7 DEF Insert, cacheVars
  <2>2. holder = r
    BY <2>1 DEF NInv, Numbers
  <2>3. CASE Finish(r)
    BY <1>4, <1>5, <2>1, <2>2, <2>3 DEF Finish, Goto
  <2>4. CASE UNCHANGED <<subject, holder>>
    BY <1>5, <2>1, <2>4
  <2> QED BY <1>7, <2>3, <2>4 DEF Insert
<1>8. CASE FailWrite(r)
  <2>1. pc'[r] \notin {"insert", "commit"}
    BY <1>4, <1>8 DEF FailWrite, Finish, Goto
  <2> QED BY <1>5, <1>8, <2>1 DEF FailWrite
<1>9. CASE CheckDay(r) \/ ResetFor(r) \/ AwaitLoad(r) \/ Hget(r) \/ FindTicket(r)
           \/ Hset(r) \/ FailCache(r)
  <2>1. UNCHANGED <<tickets, sequence, receipts, holder>>
    BY <1>9 DEF CheckDay, ResetFor, AwaitLoad, Hget, FindTicket, Hset, FailCache, StartLoad,
                cacheVars
  <2>2. pc'[r] \notin {"insert", "commit"}
    BY <1>4, <1>9 DEF CheckDay, ResetFor, AwaitLoad, Hget, FindTicket, Hset, FailCache,
                      Return, Finish, Goto
  <2> QED BY <1>5, <2>1, <2>2
<1> QED BY <1>1, <1>2, <1>3, <1>6, <1>7, <1>8, <1>9 DEF Request

LEMMA NumbersNext == NInv /\ [Next]_vars => NInv'
<1> SUFFICES ASSUME NInv, [Next]_vars PROVE NInv'
  OBVIOUS
<1>0. TInv'
  BY TypesNext DEF NInv
<1>1. CASE \E r \in Requests : Request(r)
  BY <1>0, <1>1, RequestNumbers
<1>2. CASE UNCHANGED reqVars /\ UNCHANGED tickets
  BY <1>0, <1>2, QuietNumbers DEF reqVars
<1>3. CASE Restart
  <2>1. \A r \in Requests : pc'[r] \notin {"insert", "commit"}
    BY <1>3 DEF Restart
  <2> QED BY <1>0, <1>3, <2>1, QuietNumbers DEF Restart
<1>4. ASSUME NEW l \in Loaders, Load(l) PROVE UNCHANGED tickets
  BY <1>4 DEF Load, Reset, StartLoad, SavePositions, Clear, QueryTickets, EndLoad, FailLoad,
              HydrateState, HydratePosition
<1>5. ASSUME NextDay \/ \E v \in Vehicles : UpdatePosition(v) PROVE UNCHANGED tickets
  BY <1>5 DEF NextDay, UpdatePosition
<1> QED BY <1>1, <1>2, <1>3, <1>4, <1>5 DEF Next, vars, cacheVars

LEMMA NumbersBook == NInv => NumbersConsecutive
BY DEF NInv, Numbered, NumbersConsecutive

\* The tickets of the tenant are numbered 1, 2, 3, ... without a gap or a repetition,
\* and their payments with the same numbers, however requests and loads overlap, fail
\* and restart: whoever numbers a ticket holds the row of the sequence
\* (create-daily-ticket.handler.ts), and has read the value that is committed.
THEOREM Numbering == Spec => []NumbersConsecutive
BY NumbersInit, NumbersNext, NumbersBook, PTL DEF Spec

-----------------------------------------------------------------------------
(* Positions are out of the cache between DEL and the end of a load.        *)

\* What a load has read and the cache shows was sent, and what an uncrossed load has
\* written back is still there, or a later one.
Kept ==
  /\ \A v \in Vehicles : position[v] <= newest[v]
  /\ \A l \in Loaders, v \in Vehicles :
       /\ load[l].saved[v] <= newest[v]
       /\ load[l].at = "hydrate" /\ ~load[l].crossed =>
            <<v, "position">> \in load[l].pending \/ position[v] >= load[l].saved[v]

PInv == CacheTypeOK /\ Kept

LEMMA PositionNumbers ==
  ASSUME CacheTypeOK
  PROVE  /\ \A v \in Vehicles : position[v] \in Nat /\ newest[v] \in Nat
         /\ \A l \in Loaders, v \in Vehicles : load[l].saved[v] \in Nat
BY CacheAssumptions DEF CacheTypeOK, Loading

LEMMA KeptInit == Init => Kept
BY DEF Init, CacheInit, NoLoad, NewLoad, Kept

\* A step that leaves the hash of positions and gives loads at most new marks.
LEMMA QuietKept ==
  ASSUME Kept, UNCHANGED <<position, newest>>,
         \A l \in Loaders :
           \/ load'[l] = NoLoad \/ load'[l] = NewLoad
           \/ /\ load'[l].saved = load[l].saved
              /\ load'[l].at = "hydrate" /\ ~load'[l].crossed =>
                   load[l].at = "hydrate" /\ ~load[l].crossed
              /\ \A v \in Vehicles : <<v, "position">> \in load[l].pending =>
                   <<v, "position">> \in load'[l].pending,
         CacheTypeOK
  PROVE  Kept'
<1>1. ASSUME NEW l \in Loaders, NEW v \in Vehicles
      PROVE  /\ load'[l].saved[v] <= newest'[v]
             /\ load'[l].at = "hydrate" /\ ~load'[l].crossed =>
                  <<v, "position">> \in load'[l].pending \/ position'[v] >= load'[l].saved[v]
  <2>1. CASE load'[l] = NoLoad \/ load'[l] = NewLoad
    <3>1. load'[l].saved[v] = 0 /\ load'[l].at # "hydrate"
      BY <2>1 DEF NoLoad, NewLoad
    <3> QED BY <3>1, PositionNumbers
  <2>2. CASE /\ load'[l].saved = load[l].saved
             /\ load'[l].at = "hydrate" /\ ~load'[l].crossed =>
                  load[l].at = "hydrate" /\ ~load[l].crossed
             /\ \A w \in Vehicles : <<w, "position">> \in load[l].pending =>
                  <<w, "position">> \in load'[l].pending
    BY <2>2 DEF Kept
  <2> QED BY <2>1, <2>2
<1> QED BY <1>1 DEF Kept

LEMMA LoadKept ==
  ASSUME PInv, NEW l \in Loaders, Load(l)
  PROVE  Kept'
<1>0. load \in [Loaders -> Loading] /\ position \in [Vehicles -> 0 .. MaxPosition]
  BY DEF PInv, CacheTypeOK
<1>1. CASE StartLoad(l) \/ EndLoad(l) \/ FailLoad(l)
  BY <1>0, <1>1, QuietKept DEF StartLoad, EndLoad, FailLoad, redis, PInv
<1>2. CASE SavePositions(l)
  <2>1. /\ load'[l].saved = position /\ load'[l].at = "clear"
        /\ \A k \in Loaders \ {l} : load'[k] = load[k]
        /\ UNCHANGED <<position, newest>>
    BY <1>0, <1>2 DEF SavePositions, redis, Loading
  <2> QED BY <2>1 DEF PInv, Kept
<1>3. CASE Clear(l)
  <2>1. ASSUME NEW k \in Loaders
        PROVE  /\ load'[k].saved = load[k].saved
               /\ load'[k].at = "hydrate" => load'[k].crossed
    BY <1>0, <1>3 DEF Clear, Crossing, Loading
  <2>2. /\ \A v \in Vehicles : position'[v] = 0
        /\ UNCHANGED newest
    BY <1>3 DEF Clear
  <2> QED BY <2>1, <2>2, PositionNumbers DEF PInv, Kept
<1>4. CASE QueryTickets(l)
  <2>1. /\ load'[l].saved = load[l].saved
        /\ load'[l].pending = Vehicles \X {"state", "position"}
        /\ \A k \in Loaders \ {l} : load'[k] = load[k]
        /\ UNCHANGED <<position, newest>>
    BY <1>0, <1>4 DEF QueryTickets, redis, Loading
  <2> QED BY <2>1 DEF PInv, Kept
<1>5. ASSUME NEW v \in Vehicles, HydrateState(l, v) PROVE Kept'
  <2>1. /\ load'[l].saved = load[l].saved /\ load'[l].at = load[l].at
        /\ load'[l].crossed = load[l].crossed
        /\ load'[l].pending = load[l].pending \ {<<v, "state">>}
        /\ \A k \in Loaders \ {l} : load'[k] = load[k]
        /\ UNCHANGED <<position, newest>>
    BY <1>0, <1>5 DEF HydrateState, Loading
  <2> QED BY <2>1 DEF PInv, Kept
<1>6. ASSUME NEW v \in Vehicles, HydratePosition(l, v) PROVE Kept'
  <2> DEFINE moved == [load[l] EXCEPT !.pending = @ \ {<<v, "position">>}]
  <2>1. /\ moved.saved = load[l].saved /\ moved.at = load[l].at /\ moved.crossed = load[l].crossed
        /\ moved.pending = load[l].pending \ {<<v, "position">>}
    BY <1>0 DEF Loading
  <2>2. UNCHANGED newest
    BY <1>6 DEF HydratePosition
  <2>3. load[l].saved[v] \in Nat /\ load[l].saved[v] <= newest[v]
    BY PositionNumbers DEF PInv, Kept
  <2>4. CASE Restored(l, v)
    <3>1. position' = [position EXCEPT ![v] = load[l].saved[v]] /\ load' = Crossing(l, moved)
      BY <1>6, <2>4 DEF HydratePosition
    <3>2. load'[l] = moved
      BY <3>1 DEF Crossing
    <3>3. ASSUME NEW k \in Loaders \ {l}
          PROVE  /\ load'[k].saved = load[k].saved
                 /\ load'[k].at = "hydrate" => load'[k].crossed
      BY <1>0, <3>1 DEF Crossing, Loading
    <3>4. position'[v] = load[l].saved[v] /\ \A w \in Vehicles \ {v} : position'[w] = position[w]
      BY <1>0, <3>1
    <3>5. \A w \in Vehicles : position'[w] <= newest'[w]
      BY <2>2, <2>3, <3>4 DEF PInv, Kept
    <3>6. ASSUME NEW k \in Loaders, NEW w \in Vehicles
          PROVE  /\ load'[k].saved[w] <= newest'[w]
                 /\ load'[k].at = "hydrate" /\ ~load'[k].crossed =>
                      <<w, "position">> \in load'[k].pending \/ position'[w] >= load'[k].saved[w]
      <4>1. CASE k # l
        BY <2>2, <3>3, <4>1 DEF PInv, Kept
      <4>2. CASE k = l /\ w = v
        <5> HIDE DEF moved
        <5>1. load'[k].saved[w] = load[l].saved[v] /\ position'[w] = load[l].saved[v]
          BY <2>1, <3>2, <3>4, <4>2
        <5> QED BY <2>2, <2>3, <4>2, <5>1
      <4>3. CASE k = l /\ w # v
        BY <2>1, <2>2, <3>2, <3>4, <4>3 DEF PInv, Kept
      <4> QED BY <4>1, <4>2, <4>3
    <3> QED BY <3>5, <3>6 DEF Kept
  <2>5. CASE ~Restored(l, v)
    <3>1. UNCHANGED position /\ load' = [load EXCEPT ![l] = moved]
      BY <1>6, <2>5 DEF HydratePosition
    <3>2. load'[l] = moved /\ \A k \in Loaders \ {l} : load'[k] = load[k]
      BY <1>0, <3>1
    <3>3. load[l].saved[v] = 0 /\ position[v] >= 0
      BY <2>5, PositionNumbers DEF Restored, PInv
    <3>4. ASSUME NEW k \in Loaders, NEW w \in Vehicles
          PROVE  /\ load'[k].saved[w] <= newest'[w]
                 /\ load'[k].at = "hydrate" /\ ~load'[k].crossed =>
                      <<w, "position">> \in load'[k].pending \/ position'[w] >= load'[k].saved[w]
      <4>1. CASE k # l
        BY <2>2, <3>1, <3>2, <4>1 DEF PInv, Kept
      <4>2. CASE k = l /\ w = v
        BY <2>1, <2>2, <2>3, <3>1, <3>2, <3>3, <4>2
      <4>3. CASE k = l /\ w # v
        BY <2>1, <2>2, <3>1, <3>2, <4>3 DEF PInv, Kept
      <4> QED BY <4>1, <4>2, <4>3
    <3> QED BY <2>2, <3>1, <3>4 DEF PInv, Kept
  <2> QED BY <2>4, <2>5
<1> QED BY <1>1, <1>2, <1>3, <1>4, <1>5, <1>6 DEF Load, Reset

LEMMA UpdateKept ==
  ASSUME PInv, NEW v \in Vehicles, UpdatePosition(v)
  PROVE  Kept'
<1>1. /\ newest'[v] = newest[v] + 1 /\ position'[v] = newest[v] + 1
      /\ \A w \in Vehicles \ {v} : newest'[w] = newest[w] /\ position'[w] = position[w]
      /\ UNCHANGED load
  BY DEF PInv, CacheTypeOK, UpdatePosition
<1>2. /\ \A w \in Vehicles : newest[w] \in Nat /\ position[w] \in Nat
      /\ \A l \in Loaders, w \in Vehicles : load[l].saved[w] \in Nat
  BY PositionNumbers DEF PInv
<1>3. \A w \in Vehicles : position'[w] <= newest'[w]
  BY <1>1, <1>2 DEF PInv, Kept
<1>4. ASSUME NEW l \in Loaders, NEW w \in Vehicles
      PROVE  /\ load'[l].saved[w] <= newest'[w]
             /\ load'[l].at = "hydrate" /\ ~load'[l].crossed =>
                  <<w, "position">> \in load'[l].pending \/ position'[w] >= load'[l].saved[w]
  <2>1. CASE w = v
    BY <1>1, <1>2, <2>1 DEF PInv, Kept
  <2>2. CASE w # v
    BY <1>1, <2>2 DEF PInv, Kept
  <2> QED BY <2>1, <2>2
<1> QED BY <1>3, <1>4 DEF Kept

\* Requests write no position; the tickets they write are marks on the loads.
LEMMA RequestKept ==
  ASSUME PInv, NEW r \in Requests, Request(r)
  PROVE  Kept'
<1>0. load \in [Loaders -> Loading]
  BY DEF PInv, CacheTypeOK
<1>1. UNCHANGED <<position, newest>>
  BY DEF Request, BeginCreate, BeginOther, Lookup, Lock, Insert, CommitTicket, Write, FailWrite,
         CheckDay, ResetFor, AwaitLoad, Hget, FindTicket, Hset, FailCache, StartLoad,
         cacheVars, redis
<1>2. \/ UNCHANGED load \/ StartLoad(r) \/ load' = Outdating(subject[r].vehicle)
  BY DEF Request, BeginCreate, BeginOther, Lookup, Lock, Insert, CommitTicket, Write, FailWrite,
         CheckDay, ResetFor, AwaitLoad, Hget, FindTicket, Hset, FailCache,
         cacheVars
<1>3. CASE UNCHANGED load
  BY <1>1, <1>3 DEF PInv, Kept
<1>4. CASE StartLoad(r)
  BY <1>0, <1>1, <1>4, QuietKept, LoadersOK DEF StartLoad, PInv
<1>5. CASE load' = Outdating(subject[r].vehicle)
  <2>1. ASSUME NEW l \in Loaders
        PROVE  /\ load'[l].saved = load[l].saved /\ load'[l].at = load[l].at
               /\ load'[l].crossed = load[l].crossed /\ load'[l].pending = load[l].pending
    BY <1>0, <1>5 DEF Outdating, Loading
  <2> QED BY <1>1, <2>1, QuietKept DEF PInv
<1> QED BY <1>2, <1>3, <1>4, <1>5

LEMMA KeptNext == TInv /\ Kept /\ [Next]_vars => Kept'
<1> SUFFICES ASSUME TInv, Kept, [Next]_vars PROVE Kept'
  OBVIOUS
<1>0. PInv
  BY TInvParts DEF PInv
<1>1. CASE Restart
  <2>1. /\ UNCHANGED <<position, newest>>
        /\ \A l \in Loaders : load'[l] = NoLoad \/ load'[l] = NewLoad
    BY <1>1 DEF Restart, redis
  <2> QED BY <1>0, <2>1, QuietKept DEF PInv
<1>2. CASE NextDay \/ UNCHANGED vars
  <2>1. UNCHANGED <<position, newest, load>>
    BY <1>2 DEF NextDay, vars, cacheVars, redis
  <2> QED BY <2>1 DEF Kept
<1> QED BY <1>0, <1>1, <1>2, LoadKept, UpdateKept, RequestKept DEF Next

\* A load ends by EndLoad, unless something fails.
LEMMA EndsByItself ==
  ASSUME TInv, Next, NEW l \in Loaders, Ends(l)
  PROVE  load[l].pending = {} /\ UNCHANGED position
<1>0. load \in [Loaders -> Loading] /\ failures \in Nat
  BY TInvParts, CacheAssumptions DEF CacheTypeOK
<1>1. load[l].at = "hydrate" /\ load'[l].at = "idle" /\ failures' # failures + 1
  BY <1>0 DEF Ends
<1>2. ASSUME NEW r \in Requests, Request(r) PROVE FALSE
  <2>1. \/ UNCHANGED load \/ StartLoad(r) \/ load' = Outdating(subject[r].vehicle)
    BY <1>2 DEF Request, BeginCreate, BeginOther, Lookup, Lock, Insert, CommitTicket, Write,
         FailWrite, CheckDay, ResetFor, AwaitLoad, Hget, FindTicket, Hset, FailCache, cacheVars
  <2>2. CASE StartLoad(r)
    BY <1>0, <1>1, <2>2, LoadersOK DEF StartLoad, NewLoad, NoLoad
  <2>3. CASE load' = Outdating(subject[r].vehicle)
    BY <1>0, <1>1, <2>3 DEF Outdating, Loading
  <2> QED BY <1>1, <2>1, <2>2, <2>3
<1>3. ASSUME NEW k \in Loaders, Load(k) PROVE load[l].pending = {} /\ UNCHANGED position
  <2>1. CASE StartLoad(k)
    BY <1>0, <1>1, <2>1 DEF StartLoad, NewLoad, NoLoad
  <2>2. CASE SavePositions(k)
    BY <1>0, <1>1, <2>2 DEF SavePositions, Loading
  <2>3. CASE Clear(k)
    BY <1>0, <1>1, <2>3 DEF Clear, Crossing, Loading
  <2>4. CASE QueryTickets(k)
    <3>1. load'[l].at \in {load[l].at, "hydrate"}
      BY <1>0, <2>4 DEF QueryTickets, Loading
    <3> QED BY <1>1, <3>1
  <2>5. CASE EndLoad(k)
    BY <1>0, <1>1, <2>5 DEF EndLoad, redis
  <2>6. CASE FailLoad(k)
    BY <1>1, <2>6 DEF FailLoad
  <2>7. ASSUME NEW v \in Vehicles, HydrateState(k, v) PROVE FALSE
    BY <1>0, <1>1, <2>7 DEF HydrateState, Loading
  <2>8. ASSUME NEW v \in Vehicles, HydratePosition(k, v) PROVE FALSE
    <3> DEFINE moved == [load[k] EXCEPT !.pending = @ \ {<<v, "position">>}]
    <3>1. moved.at = load[k].at
      BY <1>0 DEF Loading
    <3>2. load' = Crossing(k, moved) \/ load' = [load EXCEPT ![k] = moved]
      BY <2>8 DEF HydratePosition
    <3>3. load'[l].at = load[l].at
      <4> HIDE DEF moved
      <4> QED BY <1>0, <3>1, <3>2 DEF Crossing, Loading
    <3> QED BY <1>1, <3>3
  <2> QED BY <1>3, <2>1, <2>2, <2>3, <2>4, <2>5, <2>6, <2>7, <2>8 DEF Load, Reset
<1>4. ~Restart
  BY <1>1 DEF Restart
<1>5. ~NextDay /\ \A v \in Vehicles : ~UpdatePosition(v)
  BY <1>1 DEF NextDay, UpdatePosition
<1> QED BY <1>2, <1>3, <1>4, <1>5 DEF Next

\* A load that comes to its end has lost no position it has read, unless another load
\* has deleted or written positions meanwhile: those it deletes are written back, and
\* what a vehicle sends meanwhile is later (vehicle-tenant.cache.ts).
THEOREM NoPositionLost == Spec => PositionsKept
<1>1. ASSUME TInv, Kept, [Next]_vars, NEW l \in Loaders, Ends(l), ~load[l].crossed,
             NEW v \in Vehicles
      PROVE  position[v] >= load[l].saved[v]
  <2>1. CASE Next
    BY <1>1, <2>1, EndsByItself DEF Kept, Ends
  <2>2. CASE UNCHANGED vars
    BY <1>1, <2>2 DEF vars, cacheVars, Ends
  <2> QED BY <1>1, <2>1, <2>2
<1>2. TInv /\ Kept /\ [Next]_vars =>
        [\A l \in Loaders : Ends(l) /\ ~load[l].crossed =>
           \A v \in Vehicles : position[v] >= load[l].saved[v]]_vars
  BY <1>1
<1> QED BY <1>2, TypesInit, TypesNext, KeptInit, KeptNext, PTL DEF Spec, PositionsKept
=============================================================================

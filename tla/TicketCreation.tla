--------------------------- MODULE TicketCreation ---------------------------
(***************************************************************************)
(* The daily tickets of one tenant, and what the satellite cache shows of  *)
(* them.  A creation looks for tickets of the vehicle and of the driver,   *)
(* then numbers and inserts the ticket, its first round and its payment in *)
(* a transaction that holds the row of the DAILY_TICKET sequence, and      *)
(* updates the cache after the commit.  Closing a ticket and moving it to  *)
(* its next round update the cache too: the buttons after their writes,    *)
(* the arrivals at the END geofence from within their transaction, whose   *)
(* writes the cache, with a connection of its own, does not see.           *)
(*                                                                         *)
(* The row of the sequence is there (the tenant's data has it), so the     *)
(* branch that creates it is not reached.                                  *)
(***************************************************************************)
EXTENDS VehicleCache

CONSTANTS Requests,    \* requests that create, close or move a ticket
          MaxInFlight, \* bound: requests the server works on at the same time
          MaxLeg       \* bound: the rounds of a ticket

ASSUME CreationAssumptions ==
  /\ "nobody" \notin Requests
  /\ Requests \subseteq Loaders \ {Boot}
  /\ MaxInFlight \in Nat \ {0}
  /\ MaxLeg \in Nat \ {0}

VARIABLES sequence, \* current_value of DAILY_TICKET
          receipts, \* the numbers of the payments of tickets, in a set
          holder,   \* the request that holds the row of the sequence, or nobody
          pc,       \* where each request is
          kind,     \* what each request does
          subject,  \* the ticket it creates, closes or moves
          read,     \* the ticket setDailyTicketId has read, or NoTicket for null
          overtaken \* history: requests whose ticket another has written meanwhile

reqVars == <<sequence, receipts, holder, pc, kind, subject, read, overtaken>>
vars == <<cacheVars, reqVars>>

-----------------------------------------------------------------------------
Nobody == "nobody"

Kinds == {"CREATE", "CLOSE", "MOVE", "ARRIVE"}

CachePhase == {"day", "reset", "await", "hget", "find", "hset"}
DbPhase    == {"lookup", "lock", "insert", "commit", "write"}
InFlight   == CachePhase \cup DbPhase

Init ==
  /\ CacheInit
  /\ sequence = 0
  /\ receipts = {}
  /\ holder = Nobody
  /\ pc = [r \in Requests |-> "idle"]
  /\ kind = [r \in Requests |-> "NONE"]
  /\ subject = [r \in Requests |-> NoTicket]
  /\ read = [r \in Requests |-> NoTicket]
  /\ overtaken = {}

\* A process serves requests when its first load has come to its end.
Room == up /\ Cardinality({r \in Requests : pc[r] \in InFlight}) < MaxInFlight

Goto(r, label) == pc' = [pc EXCEPT ![r] = label]

Finish(r) ==
  /\ Goto(r, "done")
  /\ kind' = [kind EXCEPT ![r] = "NONE"]
  /\ subject' = [subject EXCEPT ![r] = NoTicket]
  /\ read' = [read EXCEPT ![r] = NoTicket]

\* The work date is today, or the one the client asks for.
BeginCreate(r) ==
  /\ pc[r] = "idle" /\ Room
  /\ \E v \in Vehicles, d \in Drivers \cup {NoDriver}, workDate \in 1 .. MaxDay :
       subject' = [subject EXCEPT ![r] =
         [vehicle |-> v, driver |-> d, number |-> 1, day |-> workDate,
          status |-> "ACTIVE", leg |-> 1]]
  /\ kind' = [kind EXCEPT ![r] = "CREATE"]
  /\ Goto(r, "lookup")
  /\ UNCHANGED <<cacheVars, sequence, receipts, holder, read, overtaken>>

\* close, start, complete, webhook, conciliation, sync, for a ticket of any day.
BeginOther(r) ==
  /\ pc[r] = "idle" /\ Room
  /\ \E t \in tickets, k \in {"CLOSE", "MOVE", "ARRIVE"} :
       /\ t.status = "ACTIVE"
       /\ k # "CLOSE" => t.leg < MaxLeg
       /\ subject' = [subject EXCEPT ![r] = t]
       /\ kind' = [kind EXCEPT ![r] = k]
       /\ Goto(r, IF k = "ARRIVE" THEN "day" ELSE "write")
  /\ UNCHANGED <<cacheVars, sequence, receipts, holder, read, overtaken>>

SameDay(t) == {u \in tickets : u.day = t.day}

\* findByVehicleAndDate, findByDriverAndDate: a ticket of any status is found.
VehicleTaken(t) == \E u \in SameDay(t) : u.vehicle = t.vehicle
DriverTaken(t)  == t.driver # NoDriver /\ \E u \in SameDay(t) : u.driver = t.driver

Lookup(r) ==
  /\ pc[r] = "lookup"
  /\ IF VehicleTaken(subject[r]) \/ DriverTaken(subject[r])
     THEN Finish(r)
     ELSE Goto(r, "lock") /\ UNCHANGED <<kind, subject, read>>
  /\ UNCHANGED <<cacheVars, sequence, receipts, holder, overtaken>>

\* Faulty variant: the row is read without FOR UPDATE.
Anyway(r) == TRUE

\* SELECT ... FOR UPDATE waits for the holder of the row.
RowFree(r) == holder = Nobody

Lock(r) ==
  /\ pc[r] = "lock"
  /\ RowFree(r)
  /\ holder' = r
  /\ subject' = [subject EXCEPT ![r].number = sequence + 1]
  /\ Goto(r, "insert")
  /\ UNCHANGED <<cacheVars, sequence, receipts, kind, read, overtaken>>

\* Unique (vehicle, work date): the insert of a second ticket fails.
Insert(r) ==
  /\ pc[r] = "insert"
  /\ IF VehicleTaken(subject[r])
     THEN Finish(r) /\ holder' = Nobody
     ELSE Goto(r, "commit") /\ UNCHANGED <<kind, subject, read, holder>>
  /\ UNCHANGED <<cacheVars, sequence, receipts, overtaken>>

\* The ticket, its payment and the sequence, which is saved twice with one value.
CommitTicket(r) ==
  /\ pc[r] = "commit"
  /\ tickets' = tickets \cup {subject[r]}
  /\ receipts' = receipts \cup {subject[r].number}
  /\ sequence' = subject[r].number
  /\ holder' = Nobody
  /\ Goto(r, "day")
  /\ load' = Outdating(subject[r].vehicle)
  /\ UNCHANGED <<day, redis, newest, lastLoad, up, doubted, failures, kind, subject, read,
                 overtaken>>

\* The row of the ticket a request works on, as it is now.
Row(r) == {t \in tickets : t.number = subject[r].number}

\* Faulty variant: a ticket is closed with the status of a round.
ChangedAsRound(r, t) ==
  IF kind[r] = "CLOSE" THEN {[t EXCEPT !.status = "COMPLETED"]}
                       ELSE {[t EXCEPT !.leg = subject[r].leg + 1]}

\* The writes of closeTicket, startRound, completeRound; of the transaction of an
\* arrival, at its commit.  When another has moved the ticket meanwhile, it has rounds
\* of both, and either may be the one it is in.
Changed(r, t) ==
  IF kind[r] = "CLOSE" THEN {[t EXCEPT !.status = "CLOSED"]}
  ELSE {[t EXCEPT !.leg = l] :
          l \in {subject[r].leg + 1} \cup (IF t.leg = subject[r].leg THEN {} ELSE {t.leg})}

\* The requests on the same ticket whose write to the cache, or whose arrival, this
\* write of r makes out of date.
Overtaken(r) ==
  {q \in Requests \ {r} :
     /\ pc[q] \in CachePhase \cup {"write"}
     /\ subject[q].number = subject[r].number
     /\ pc[q] = "hset" \/ kind[q] = "ARRIVE" \/ kind[r] = "CLOSE"}

Write(r) ==
  /\ pc[r] = "write"
  /\ \E t \in Row(r) : \E u \in Changed(r, t) :
       /\ tickets' = (tickets \ {t}) \cup {u}
       /\ IF kind[r] = "ARRIVE"
          THEN Finish(r)
          ELSE /\ Goto(r, "day")
               /\ subject' = [subject EXCEPT ![r] = u]
               /\ UNCHANGED <<kind, read>>
  /\ load' = Outdating(subject[r].vehicle)
  /\ doubted' = IF kind[r] = "ARRIVE" /\ r \in overtaken
                THEN doubted \cup {subject[r].vehicle} ELSE doubted
  /\ overtaken' = (overtaken \cup Overtaken(r)) \ (IF kind[r] = "ARRIVE" THEN {r} ELSE {})
  /\ UNCHANGED <<day, redis, newest, lastLoad, up, failures, sequence, receipts, holder>>

\* A transaction rolls back, or a query outside one fails, before anything is
\* committed.
FailWrite(r) ==
  /\ failures < MaxFailures
  /\ failures' = failures + 1
  /\ pc[r] \in DbPhase
  /\ holder' = IF holder = r THEN Nobody ELSE holder
  /\ Finish(r)
  /\ overtaken' = overtaken \ {r}
  /\ UNCHANGED <<day, tickets, redis, newest, lastLoad, up, load, doubted, sequence, receipts>>

-----------------------------------------------------------------------------
\* setDailyTicketId: on a new day the cache is loaded first, by a load of its own,
\* and waited for.
CheckDay(r) ==
  /\ pc[r] = "day"
  /\ Goto(r, IF NewDay THEN "reset" ELSE "hget")
  /\ UNCHANGED <<cacheVars, sequence, receipts, holder, kind, subject, read, overtaken>>

ResetFor(r) ==
  /\ pc[r] = "reset"
  /\ StartLoad(r)
  /\ Goto(r, "await")
  /\ UNCHANGED <<sequence, receipts, holder, kind, subject, read, overtaken>>

AwaitLoad(r) ==
  /\ pc[r] = "await"
  /\ load[r].at = "idle"
  /\ Goto(r, "hget")
  /\ UNCHANGED <<cacheVars, sequence, receipts, holder, kind, subject, read, overtaken>>

\* Where the handler goes on after setDailyTicketId.
Return(r) ==
  IF kind[r] = "ARRIVE"
  THEN Goto(r, "write") /\ UNCHANGED <<kind, subject, read, overtaken>>
  ELSE Finish(r) /\ overtaken' = overtaken \ {r}

\* A vehicle without routing is left alone.
Hget(r) ==
  /\ pc[r] = "hget"
  /\ IF subject[r].vehicle \in routed
     THEN Goto(r, "find") /\ UNCHANGED <<kind, subject, read, overtaken>>
     ELSE Return(r)
  /\ UNCHANGED <<cacheVars, sequence, receipts, holder>>

\* Faulty variant: a close passes the id of the ticket, not null.
FoundAlways(r) == Row(r)

\* findOne of the ticket, whatever its status or day; nothing is read for a close.
Found(r) == IF kind[r] = "CLOSE" THEN {NoTicket} ELSE Row(r)

FindTicket(r) ==
  /\ pc[r] = "find"
  /\ \E t \in Found(r) : read' = [read EXCEPT ![r] = t]
  /\ Goto(r, "hset")
  /\ UNCHANGED <<cacheVars, sequence, receipts, holder, kind, subject, overtaken>>

\* The cache shows a ticket, or none, whatever the work date of the ticket and
\* whoever has written it since.
Hset(r) ==
  /\ pc[r] = "hset"
  /\ shown' = [shown EXCEPT ![subject[r].vehicle] = read[r]]
  /\ doubted' = IF r \in overtaken \/ subject[r].day # day \/ subject[r].vehicle \notin routed
                THEN doubted \cup {subject[r].vehicle} ELSE doubted \ {subject[r].vehicle}
  /\ Return(r)
  /\ UNCHANGED <<day, tickets, routed, position, newest, lastLoad, up, load, failures,
                 sequence, receipts, holder>>

\* An error of the first reads reaches the handler, which answers with an error
\* and, within a transaction, rolls back; a later one is caught and logged.
FailCache(r) ==
  /\ failures < MaxFailures
  /\ failures' = failures + 1
  /\ doubted' = doubted \cup {subject[r].vehicle}
  /\ \/ pc[r] \in {"day", "hget"} /\ Finish(r) /\ overtaken' = overtaken \ {r}
     \/ pc[r] \in {"find", "hset"} /\ Return(r)
  /\ UNCHANGED <<day, tickets, redis, newest, lastLoad, up, load, sequence, receipts, holder>>

\* The process dies, and the next one loads the cache before it serves anything.
Restart ==
  /\ failures < MaxFailures
  /\ failures' = failures + 1
  /\ lastLoad' = 0
  /\ up' = FALSE
  /\ load' = [l \in Loaders |-> IF l = Boot THEN NewLoad ELSE NoLoad]
  /\ holder' = Nobody
  /\ pc' = [r \in Requests |-> IF pc[r] = "idle" THEN "idle" ELSE "done"]
  /\ kind' = [r \in Requests |-> "NONE"]
  /\ subject' = [r \in Requests |-> NoTicket]
  /\ read' = [r \in Requests |-> NoTicket]
  /\ overtaken' = {}
  /\ UNCHANGED <<day, tickets, redis, newest, doubted, sequence, receipts>>

-----------------------------------------------------------------------------
Request(r) ==
  \/ BeginCreate(r) \/ BeginOther(r) \/ Lookup(r) \/ Lock(r) \/ Insert(r)
  \/ CommitTicket(r) \/ Write(r) \/ FailWrite(r) \/ CheckDay(r) \/ ResetFor(r)
  \/ AwaitLoad(r) \/ Hget(r) \/ FindTicket(r) \/ Hset(r) \/ FailCache(r)

\* The timer at 00:05, the controller, or any other call that notices the new day.
Reset(l) ==
  /\ l \in Loaders \ Requests
  /\ up
  /\ StartLoad(l)

Load(l) ==
  \/ Reset(l) \/ SavePositions(l) \/ Clear(l) \/ QueryTickets(l) \/ EndLoad(l) \/ FailLoad(l)
  \/ \E v \in Vehicles : HydrateState(l, v) \/ HydratePosition(l, v)

Next ==
  \/ \E r \in Requests : Request(r)
  \/ (\E l \in Loaders : Load(l)) /\ UNCHANGED reqVars
  \/ (\E v \in Vehicles : UpdatePosition(v)) /\ UNCHANGED reqVars
  \/ NextDay /\ UNCHANGED reqVars
  \/ Restart

Spec == Init /\ [][Next]_vars

-----------------------------------------------------------------------------
TypeOK ==
  /\ CacheTypeOK
  /\ sequence \in Nat
  /\ receipts \subseteq Nat
  /\ holder \in Requests \cup {Nobody}
  /\ pc \in [Requests -> InFlight \cup {"idle", "done"}]
  /\ kind \in [Requests -> Kinds \cup {"NONE"}]
  /\ subject \in [Requests -> Ticket \cup {NoTicket}]
  /\ read \in [Requests -> Ticket \cup {NoTicket}]
  /\ overtaken \subseteq Requests

\* However creations overlap and fail, the tickets of the tenant are numbered 1, 2,
\* 3, ... without a gap or a repetition, and their payments with the same numbers.
NumbersConsecutive ==
  /\ {t.number : t \in tickets} = 1 .. Cardinality(tickets)
  /\ receipts = 1 .. Cardinality(tickets)

\* What the cache should show for a vehicle.
Today(v) == {t \in tickets : t.vehicle = v /\ t.day = day /\ t.status = "ACTIVE"}

Settled(v) ==
  /\ Running = {} /\ lastLoad = day
  /\ \A r \in Requests : pc[r] \in InFlight => subject[r].vehicle # v


\* A load comes to its end, when it does not fail.
Ends(l) == load[l].at = "hydrate" /\ load'[l].at = "idle" /\ failures' = failures

\* A load that comes to its end has lost no vehicle's last position, although it has
\* deleted them all: each has the one the load read, or one it has sent since; unless
\* another load has deleted or written positions meanwhile.
PositionsKept ==
  [][\A l \in Loaders : Ends(l) /\ ~load[l].crossed =>
       \A v \in Vehicles : position[v] >= load[l].saved[v]]_vars
=============================================================================

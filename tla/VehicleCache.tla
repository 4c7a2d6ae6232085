---------------------------- MODULE VehicleCache ----------------------------
(***************************************************************************)
(* The satellite cache of one tenant: hashes in Redis that say, for each   *)
(* vehicle with a device, which ticket and driver it works with and where  *)
(* it was last.  It is loaded from PostgreSQL when the process starts, and *)
(* by resetCache: at 00:05, when the controller asks, and by every call    *)
(* that notices a new day.  A reset forgets the promise of the load that   *)
(* may be running, so that several loads delete and write the hashes at    *)
(* once; in between, the handlers of tickets and rounds update them with   *)
(* setDailyTicketId, which reads, changes and writes a state.              *)
(*                                                                         *)
(* Tickets are read here and written in TicketCreation.  A state of the    *)
(* cache is the ticket it shows.  The rounds of a ticket are counted: leg  *)
(* is the round the vehicle is in.  Positions are numbered as written.    *)
(***************************************************************************)
EXTENDS Naturals, FiniteSets

CONSTANTS Vehicles,     \* vehicles of the tenant, with a device in Traccar
          Drivers,
          Loaders,      \* who loads the cache; each waits for the load it began
          Boot,         \* the loader that does so when the process starts
          MaxDay,       \* bound: the days that pass
          MaxPosition,  \* bound: the positions a vehicle sends
          MaxFailures   \* bound: failures of Redis or PostgreSQL, and restarts

ASSUME CacheAssumptions ==
  /\ Boot \in Loaders
  /\ MaxDay \in Nat \ {0}
  /\ MaxPosition \in Nat
  /\ MaxFailures \in Nat

VARIABLES day,       \* today, in the time zone of the tenant
          tickets,   \* committed daily_tickets
          routed,    \* vehicles in gps:vehicle-to-device and gps:device-to-tenant
          shown,     \* <tenant>_cache_tickets: the ticket shown for each vehicle
          position,  \* <tenant>_cache_vehiculos: its last position, 0 for none
          newest,    \* history: the last position each vehicle has sent
          lastLoad,  \* lastLoadDate, 0 for null
          up,        \* has the first load come to its end, well or not?
          load,      \* the load of each loader
          doubted,   \* history: vehicles whose state in the cache may be wrong
          failures

redis == <<routed, shown, position>>
cacheVars == <<day, tickets, redis, newest, lastLoad, up, load, doubted, failures>>

-----------------------------------------------------------------------------
NoTicket == [vehicle |-> "none"]
NoDriver == "No asignado"

Ticket == [vehicle : Vehicles, driver : Drivers \cup {NoDriver}, number : Nat \ {0},
           day : 1 .. MaxDay, status : {"ACTIVE", "CLOSED"}, leg : Nat \ {0}]

\* A load: where it is, its todayStr, activeTickets and savedPositions, and the
\* vehicles it has not written yet, or not their position.  Two histories: the
\* vehicles whose tickets have changed since it read them, and whether another
\* load has written to the hash of positions since it read that.
Loading == [at      : {"idle", "positions", "clear", "query", "hydrate"},
            day     : 0 .. MaxDay,
            active  : SUBSET Ticket,
            saved   : [Vehicles -> 0 .. MaxPosition],
            pending : SUBSET (Vehicles \X {"state", "position"}),
            changed : SUBSET Vehicles,
            crossed : BOOLEAN]

NoLoad == [at |-> "idle", day |-> 0, active |-> {}, saved |-> [v \in Vehicles |-> 0],
           pending |-> {}, changed |-> {}, crossed |-> FALSE]

NewLoad == [NoLoad EXCEPT !.at = "positions"]

\* A process starts with an empty Redis, and the first load.
CacheInit ==
  /\ day = 1
  /\ tickets = {}
  /\ routed = {}
  /\ shown = [v \in Vehicles |-> NoTicket]
  /\ position = [v \in Vehicles |-> 0]
  /\ newest = [v \in Vehicles |-> 0]
  /\ lastLoad = 0
  /\ up = FALSE
  /\ load = [l \in Loaders |-> IF l = Boot THEN NewLoad ELSE NoLoad]
  /\ doubted = {}
  /\ failures = 0

NextDay ==
  /\ day < MaxDay
  /\ day' = day + 1
  /\ UNCHANGED <<tickets, redis, newest, lastLoad, up, load, doubted, failures>>

\* checkAndResetCacheIfNewDay
NewDay == lastLoad # 0 /\ lastLoad # day

\* resetCache: preloadPromise is forgotten, so that preloadCache runs once more,
\* whatever loads are running.
StartLoad(l) ==
  /\ load[l].at = "idle"
  /\ load' = [load EXCEPT ![l] = NewLoad]
  /\ UNCHANGED <<day, tickets, redis, newest, lastLoad, up, doubted, failures>>

\* HGETALL of the positions, so as not to lose them.
SavePositions(l) ==
  /\ load[l].at = "positions"
  /\ load' = [load EXCEPT ![l] = [@ EXCEPT !.at = "clear", !.saved = position]]
  /\ UNCHANGED <<day, tickets, redis, newest, lastLoad, up, doubted, failures>>

\* The loads after l has moved on and written to the hash of positions.
Crossing(l, moved) ==
  [k \in Loaders |-> IF k = l THEN moved
                     ELSE [load[k] EXCEPT !.crossed = load[k].at \in {"clear", "query", "hydrate"}]]

\* DEL of the four hashes.
Clear(l) ==
  /\ load[l].at = "clear"
  /\ routed' = {}
  /\ shown' = [v \in Vehicles |-> NoTicket]
  /\ position' = [v \in Vehicles |-> 0]
  /\ load' = Crossing(l, [load[l] EXCEPT !.at = "query"])
  /\ UNCHANGED <<day, tickets, newest, lastLoad, up, doubted, failures>>


\* The tickets with status ACTIVE and the work date of today.
ActiveToday == {t \in tickets : t.status = "ACTIVE" /\ t.day = day}

QueryTickets(l) ==
  /\ load[l].at = "query"
  /\ load' = [load EXCEPT ![l] = [@ EXCEPT !.at = "hydrate", !.day = day, !.active = ActiveToday,
                                         !.pending = Vehicles \X {"state", "position"}]]
  /\ UNCHANGED <<day, tickets, redis, newest, lastLoad, up, doubted, failures>>

\* What a load shows for a vehicle; the later one of several.
Shown(l, v) ==
  LET mine == {t \in load[l].active : t.vehicle = v}
  IN  IF mine = {} THEN {NoTicket} ELSE mine

\* HSET of the routing and the state of a vehicle, one vehicle after the other.  The
\* state is in doubt when what the load has read is no longer so.
HydrateState(l, v) ==
  /\ load[l].at = "hydrate"
  /\ <<v, "state">> \in load[l].pending
  /\ \A w \in Vehicles : <<w, "position">> \in load[l].pending => <<w, "state">> \in load[l].pending
  /\ routed' = routed \cup {v}
  /\ \E t \in Shown(l, v) : shown' = [shown EXCEPT ![v] = t]
  /\ doubted' = IF v \in load[l].changed \/ load[l].day # day THEN doubted \cup {v}
                ELSE doubted \ {v}
  /\ load' = [load EXCEPT ![l] = [load[l] EXCEPT !.pending = @ \ {<<v, "state">>}]]
  /\ UNCHANGED <<day, tickets, position, newest, lastLoad, up, failures>>

\* Faulty variant: positions are written back for vehicles with a ticket.
RestoredIfWorking(l, v) == load[l].saved[v] # 0 /\ shown[v] # NoTicket

Restored(l, v) == load[l].saved[v] # 0

\* HSET of the position a vehicle had, over one it may have sent meanwhile.
HydratePosition(l, v) ==
  LET moved == [load[l] EXCEPT !.pending = @ \ {<<v, "position">>}]
  IN  /\ load[l].at = "hydrate"
      /\ <<v, "state">> \notin load[l].pending /\ <<v, "position">> \in load[l].pending
      /\ IF Restored(l, v)
         THEN /\ position' = [position EXCEPT ![v] = load[l].saved[v]]
              /\ load' = Crossing(l, moved)
         ELSE /\ load' = [load EXCEPT ![l] = moved]
              /\ UNCHANGED position
      /\ UNCHANGED <<day, tickets, routed, shown, newest, lastLoad, up, doubted, failures>>

\* lastLoadDate is set by a load that has come to its end.
EndLoad(l) ==
  /\ load[l].at = "hydrate"
  /\ load[l].pending = {}
  /\ lastLoad' = load[l].day
  /\ up' = TRUE
  /\ load' = [load EXCEPT ![l] = NoLoad]
  /\ UNCHANGED <<day, tickets, redis, newest, doubted, failures>>

\* The catch of preloadCache logs the error; nobody loads again until the next
\* reset.
FailLoad(l) ==
  /\ failures < MaxFailures
  /\ load[l].at # "idle"
  /\ failures' = failures + 1
  /\ up' = TRUE
  /\ load' = [load EXCEPT ![l] = NoLoad]
  /\ doubted' = Vehicles
  /\ UNCHANGED <<day, tickets, redis, newest, lastLoad>>

Running == {l \in Loaders : load[l].at # "idle"}

\* updateLastPosition, for a vehicle with routing, which a load may have deleted
\* since it was read.
UpdatePosition(v) ==
  /\ up
  /\ v \in routed \/ Running # {}
  /\ newest[v] < MaxPosition
  /\ newest' = [newest EXCEPT ![v] = @ + 1]
  /\ position' = [position EXCEPT ![v] = newest'[v]]
  /\ UNCHANGED <<day, tickets, routed, shown, lastLoad, up, load, doubted, failures>>

\* The tickets of a vehicle change: what loads have read of them is out of date.
Outdating(v) ==
  [l \in Loaders |-> [load[l] EXCEPT !.changed =
     IF load[l].at = "hydrate" THEN @ \cup {v} ELSE @]]

-----------------------------------------------------------------------------
CacheTypeOK ==
  /\ day \in 1 .. MaxDay
  /\ tickets \subseteq Ticket
  /\ routed \subseteq Vehicles
  /\ shown \in [Vehicles -> Ticket \cup {NoTicket}]
  /\ position \in [Vehicles -> 0 .. MaxPosition]
  /\ newest \in [Vehicles -> 0 .. MaxPosition]
  /\ lastLoad \in 0 .. MaxDay
  /\ up \in BOOLEAN
  /\ load \in [Loaders -> Loading]
  /\ doubted \subseteq Vehicles
  /\ failures \in 0 .. MaxFailures
=============================================================================

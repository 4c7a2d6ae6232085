----------------------------- MODULE TraccarSocket -----------------------------
(***************************************************************************)
(* TraccarSocketService: the one WebSocket over which Traccar sends the    *)
(* positions.  It logs in over HTTP, opens the socket with the cookie of   *)
(* the session and, when the login fails or the socket closes, sets a      *)
(* timer to do it all again.  Traccar is external: it may be unreachable   *)
(* for a while, and closes the socket then or later.                       *)
(***************************************************************************)
EXTENDS Naturals

CONSTANT MaxOutages  \* bound: how often Traccar becomes unreachable, or the
                     \* socket is lost while it is not

ASSUME SocketAssumptions == MaxOutages \in Nat

VARIABLES up,           \* is Traccar reachable?
          outages,
          loaded,       \* has onModuleInit come back from preloadCache?
          login,        \* is a login on its way?
          ws,           \* the socket: "none", "opening" or "open"
          isConnecting,
          timer,        \* is reconnectTimeout set and not yet fired?
          isDestroyed

traccarVars == <<up, outages>>
linkVars    == <<loaded, login, ws, isConnecting, timer, isDestroyed>>
socketVars  == <<traccarVars, linkVars>>

-----------------------------------------------------------------------------
SocketInit ==
  /\ up \in BOOLEAN
  /\ outages = 0
  /\ loaded = FALSE
  /\ login = FALSE
  /\ ws = "none"
  /\ isConnecting = FALSE
  /\ timer = FALSE
  /\ isDestroyed = FALSE

\* connectToTraccar, up to the fetch of the session.
Connect ==
  IF isDestroyed \/ isConnecting
  THEN UNCHANGED <<login, isConnecting>>
  ELSE login' = TRUE /\ isConnecting' = TRUE

\* onModuleInit: the cache is loaded first, whether that succeeds or not.
Loaded ==
  /\ ~loaded
  /\ loaded' = TRUE
  /\ Connect
  /\ UNCHANGED <<traccarVars, ws, timer, isDestroyed>>

\* scheduleReconnect takes the place of a timer that is set.
ScheduleReconnect == timer' = (timer \/ ~isDestroyed)

\* A login that comes back after onModuleDestroy opens a socket all the same.
LoginAnswered ==
  /\ login
  /\ login' = FALSE
  /\ \/ up /\ ws' = "opening" /\ UNCHANGED <<isConnecting, timer>>
     \/ ~up /\ isConnecting' = FALSE /\ ScheduleReconnect /\ UNCHANGED ws
  /\ UNCHANGED <<traccarVars, loaded, isDestroyed>>

Opened ==
  /\ ws = "opening" /\ up
  /\ ws' = "open"
  /\ isConnecting' = FALSE
  /\ UNCHANGED <<traccarVars, loaded, login, timer, isDestroyed>>

\* Faulty variant: the close of a socket that never opened keeps isConnecting.
ConnectingAfterLoss == isConnecting

ConnectingAfterClose == FALSE

\* The event close, for a socket that was open or never opened.
Closed ==
  /\ ws # "none" /\ ~up
  /\ ws' = "none"
  /\ isConnecting' = ConnectingAfterClose
  /\ ScheduleReconnect
  /\ UNCHANGED <<traccarVars, loaded, login, isDestroyed>>

TimerFires ==
  /\ timer
  /\ timer' = FALSE
  /\ Connect
  /\ UNCHANGED <<traccarVars, loaded, ws, isDestroyed>>

\* closeConnection; the close of the socket it terminates finds isDestroyed.
CloseConnection ==
  /\ ws' = "none"
  /\ isConnecting' = IF ws = "none" THEN isConnecting ELSE FALSE

\* onModuleDestroy
Destroy ==
  /\ ~isDestroyed
  /\ isDestroyed' = TRUE
  /\ timer' = FALSE
  /\ CloseConnection
  /\ UNCHANGED <<traccarVars, loaded, login>>

GoesDown ==
  /\ up /\ outages < MaxOutages
  /\ up' = FALSE
  /\ outages' = outages + 1
  /\ UNCHANGED linkVars

ComesUp ==
  /\ ~up
  /\ up' = TRUE
  /\ UNCHANGED <<outages, linkVars>>

SocketNext ==
  Loaded \/ LoginAnswered \/ Opened \/ Closed \/ TimerFires \/ Destroy \/ GoesDown \/ ComesUp

\* preloadCache and the fetch come back, the event loop fires the timer, and a
\* handshake that Traccar can answer or must break off ends.
SocketFairness ==
  /\ WF_socketVars(Loaded)
  /\ WF_socketVars(LoginAnswered)
  /\ WF_socketVars(Opened)
  /\ WF_socketVars(Closed)
  /\ WF_socketVars(TimerFires)

-----------------------------------------------------------------------------
SocketTypeOK ==
  /\ up \in BOOLEAN
  /\ outages \in 0 .. MaxOutages
  /\ loaded \in BOOLEAN
  /\ login \in BOOLEAN
  /\ ws \in {"none", "opening", "open"}
  /\ isConnecting \in BOOLEAN
  /\ timer \in BOOLEAN
  /\ isDestroyed \in BOOLEAN

\* However often Traccar goes away, at whatever point of a login or a handshake, the
\* service is connected again once Traccar stays reachable: no path leaves it without
\* a timer, or with isConnecting set and nothing on its way.
EventuallyConnected ==
  <>[](up) => <>[](ws = "open" \/ isDestroyed)

\* There is one way to a connection at a time: a timer, a login or a socket, so that
\* no position arrives twice.
OneAttempt ==
  /\ ~(timer /\ login) /\ ~(timer /\ ws # "none") /\ ~(login /\ ws # "none")
  /\ isConnecting => login \/ ws = "opening"
=============================================================================

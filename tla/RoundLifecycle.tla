--------------------------- MODULE RoundLifecycle ---------------------------
(***************************************************************************)
(* The rounds of one daily ticket, as the requests that reach the API      *)
(* change them in PostgreSQL (READ COMMITTED): the driver's start and      *)
(* complete buttons, the close of the day, the END geofence reported by    *)
(* the satellite's webhook, by the driver's app and by a conciliation, and *)
(* the audits that completed rounds are queued for.                        *)
(*                                                                         *)
(* A handler reads, checks what it read, and writes later.  A write of a   *)
(* round saves the entity in memory: its status replaces whatever the row  *)
(* has by then.  What a transaction writes is one step here, its commit:   *)
(* the row locks it takes before only delay other writers of the row, and  *)
(* each handler locks a single row, so they wait in no circle.             *)
(*                                                                         *)
(* Rounds are named by their place in rounds, the order of insertion.      *)
(* There is one END geofence; a conciliation brings one END event, which   *)
(* may fall in the window of any round it has read.                        *)
(***************************************************************************)
EXTENDS Naturals, Sequences, FiniteSets

CONSTANTS Requests,    \* requests, each of which runs one command
          Kinds,       \* the commands the clients send
          MaxInFlight, \* requests the server works on at the same time
          Failures     \* may queries, Redis or the process fail?

AllKinds == {"START", "COMPLETE", "CLOSE", "WEBHOOK", "SYNC", "CONCILIATE"}

ASSUME RoundAssumptions ==
  /\ IsFiniteSet(Requests)
  /\ Kinds \subseteq AllKinds
  /\ MaxInFlight \in Nat \ {0}
  /\ Failures \in BOOLEAN

VARIABLES rounds, \* committed daily_rounds of the ticket, in insertion order
          ticket, \* committed status of the ticket
          fines,  \* does the ticket have PENDING infractions?
          audits, \* rounds with a job in audit-round-queue
          stale,  \* requests that saved a status over one they had not read
          pc,     \* where each request is
          kind,   \* the command of each request
          round,  \* the round it works on, 0 when it has none yet
          loaded  \* the statuses of the ticket's rounds when it read them

tables == <<rounds, ticket, fines, audits, stale>>
memory == <<kind, round, loaded>>
vars   == <<tables, pc, memory>>

-----------------------------------------------------------------------------
RoundsStatus == {"PENDING", "IN_PROGRESS", "COMPLETED", "CANCELLED"}
Open         == {"PENDING", "IN_PROGRESS"}
Directions   == {"IDA", "VUELTA"}

\* endMarks: who reported the entry to the END geofence in tracking_events.
Round == [number : Nat \ {0}, direction : Directions, status : RoundsStatus,
          endMarks : SUBSET {"PWA", "TRACCAR", "TRACCAR_AUDIT"}]

Opposite(d) == IF d = "IDA" THEN "VUELTA" ELSE "IDA"

\* Faulty variant: the number is not increased.
NextSameNumber(k) == [number |-> rounds[k].number, direction |-> Opposite(rounds[k].direction),
                      status |-> "PENDING", endMarks |-> {}]

\* The round every completion but the close's schedules.
NextRound(k) == [number    |-> rounds[k].number + 1,
                 direction |-> Opposite(rounds[k].direction),
                 status    |-> "PENDING",
                 endMarks  |-> {}]

OpenRounds == {k \in DOMAIN rounds : rounds[k].status \in Open}

\* order: { roundNumber: 'DESC' }, whichever comes first among equals.
LatestOpen == {k \in OpenRounds : \A j \in OpenRounds : rounds[j].number <= rounds[k].number}

\* A conciliation matches its event with the round whose window has the time of
\* the event, or else with an open or the last one: any round, for some time.
WindowMatches == DOMAIN rounds

Snapshot == [k \in DOMAIN rounds |-> rounds[k].status]

\* halfDone: failed after a completion and before its next round.
Final    == {"ok", "rejected", "ignored", "duplicate", "error", "halfDone"}
Arriving == {"commitNew", "commitRectified"}
InFlight == {"read", "count", "save", "insertNext", "saveRound",
             "ticket", "round", "event"} \cup Arriving

\* Faulty variant: the status of the round is not looked at.
CompletesAny(r) == TRUE

\* The check before an END geofence completes the round it was matched with.
Completes(r) == loaded[r][round[r]] = "IN_PROGRESS"

\* History: the row has changed since r read the status it now replaces.
Overwrites(r, k) ==
  stale' = IF rounds[k].status # loaded[r][k] THEN stale \cup {r} ELSE stale

\* RoundCompletedEvent is handled in the process, by adding a job to the queue
\* in Redis; nobody waits for the answer.
Publish(k) ==
  \/ audits' = audits \cup {k}
  \/ Failures /\ UNCHANGED audits

Finish(r, outcome) ==
  /\ pc' = [pc EXCEPT ![r] = outcome]
  /\ kind' = [kind EXCEPT ![r] = "NONE"]
  /\ round' = [round EXCEPT ![r] = 0]
  /\ loaded' = [loaded EXCEPT ![r] = <<>>]

-----------------------------------------------------------------------------
\* The rounds table right after the ticket has been issued.
Init ==
  /\ rounds = <<[number |-> 1, direction |-> "IDA", status |-> "PENDING", endMarks |-> {}]>>
  /\ ticket = "ACTIVE"
  /\ fines = FALSE
  /\ audits = {}
  /\ stale = {}
  /\ pc = [r \in Requests |-> "idle"]
  /\ kind = [r \in Requests |-> "NONE"]
  /\ round = [r \in Requests |-> 0]
  /\ loaded = [r \in Requests |-> <<>>]

\* start, complete and sync name a round; the others find theirs.
Begin(r) ==
  /\ pc[r] = "idle"
  /\ Cardinality({q \in Requests : pc[q] \in InFlight}) < MaxInFlight
  /\ \E c \in Kinds, k \in DOMAIN rounds :
       /\ kind' = [kind EXCEPT ![r] = c]
       /\ round' = [round EXCEPT ![r] = IF c \in {"START", "COMPLETE", "SYNC"} THEN k ELSE 0]
       /\ pc' = [pc EXCEPT ![r] = IF c \in {"START", "COMPLETE", "CLOSE"} THEN "read"
                                  ELSE IF c = "SYNC" THEN "event" ELSE "ticket"]
  /\ UNCHANGED <<tables, loaded>>

\* Faulty variant: the buttons work on a round in any state.
AdmitsAnything(r) ==
  CASE kind[r] = "START"    -> ticket = "ACTIVE"
    [] kind[r] = "COMPLETE" -> rounds[round[r]].status \in Open \cup {"COMPLETED"}
    [] OTHER                -> ticket # "CLOSED"

\* The checks of start, complete and close on what they have read.
Admits(r) ==
  CASE kind[r] = "START"    -> rounds[round[r]].status = "PENDING" /\ ticket = "ACTIVE"
    [] kind[r] = "COMPLETE" -> rounds[round[r]].status = "IN_PROGRESS"
    [] OTHER                -> ticket # "CLOSED"

\* findOne of the round with its ticket, or of the ticket with its rounds.
Read(r) ==
  /\ pc[r] = "read"
  /\ \/ /\ Admits(r)
        /\ loaded' = [loaded EXCEPT ![r] = Snapshot]
        /\ pc' = [pc EXCEPT ![r] = IF kind[r] = "START" THEN "count" ELSE "save"]
        /\ UNCHANGED <<kind, round>>
     \/ /\ ~Admits(r)
        /\ Finish(r, "rejected")
  /\ UNCHANGED tables

\* Rule 8: the infractions of the ticket that are PENDING are counted.
CountFines(r) ==
  /\ pc[r] = "count"
  /\ \/ /\ ~fines
        /\ pc' = [pc EXCEPT ![r] = "save"]
        /\ UNCHANGED memory
     \/ /\ fines
        /\ Finish(r, "rejected")
  /\ UNCHANGED tables

SaveStart(r) ==
  /\ pc[r] = "save"
  /\ kind[r] = "START"
  /\ rounds' = [rounds EXCEPT ![round[r]].status = "IN_PROGRESS"]
  /\ Overwrites(r, round[r])
  /\ Finish(r, "ok")
  /\ UNCHANGED <<ticket, fines, audits>>

\* completeRound saves the round and publishes RoundCompletedEvent ...
SaveComplete(r) ==
  /\ pc[r] = "save"
  /\ kind[r] = "COMPLETE"
  /\ rounds' = [rounds EXCEPT ![round[r]].status = "COMPLETED"]
  /\ Overwrites(r, round[r])
  /\ Publish(round[r])
  /\ pc' = [pc EXCEPT ![r] = "insertNext"]
  /\ UNCHANGED <<ticket, fines, memory>>

\* ... and then inserts the next round, in another transaction.
InsertNext(r) ==
  /\ pc[r] = "insertNext"
  /\ rounds' = Append(rounds, NextRound(round[r]))
  /\ Finish(r, "ok")
  /\ UNCHANGED <<ticket, fines, audits, stale>>

\* closeTicket saves the ticket with the list of rounds it has read.  A round
\* inserted since is not on the list: TypeORM would clear its daily_ticket_id,
\* which is NOT NULL, and the save fails.
SaveTicket(r) ==
  /\ pc[r] = "save"
  /\ kind[r] = "CLOSE"
  /\ \/ /\ Len(rounds) # Len(loaded[r])
        /\ Finish(r, "error")
        /\ UNCHANGED tables
     \/ /\ Len(rounds) = Len(loaded[r])
        /\ ticket' = "CLOSED"
        /\ IF \E k \in DOMAIN loaded[r] : loaded[r][k] \in Open
           THEN pc' = [pc EXCEPT ![r] = "saveRound"] /\ UNCHANGED memory
           ELSE Finish(r, "ok")
        /\ UNCHANGED <<rounds, fines, audits, stale>>

\* Faulty variant: a round that was never started is left as it is.
ClosesStarted(r) ==
  /\ pc[r] = "saveRound"
  /\ \E k \in {j \in DOMAIN loaded[r] : loaded[r][j] \in Open} :
       /\ rounds' = IF loaded[r][k] = "IN_PROGRESS"
                    THEN [rounds EXCEPT ![k].status = "COMPLETED"] ELSE rounds
       /\ Overwrites(r, k)
       /\ Publish(k)
  /\ Finish(r, "ok")
  /\ UNCHANGED <<ticket, fines>>

\* Faulty variant: the round takes the status of its ticket.
ClosesRound(r) ==
  /\ pc[r] = "saveRound"
  /\ \E k \in {j \in DOMAIN loaded[r] : loaded[r][j] \in Open} :
       /\ rounds' = [rounds EXCEPT ![k].status = "CLOSED"]
       /\ Overwrites(r, k)
       /\ Publish(k)
  /\ Finish(r, "ok")
  /\ UNCHANGED <<ticket, fines>>

\* The first open round of the list, which has no order, is completed.
SaveClosedRound(r) ==
  /\ pc[r] = "saveRound"
  /\ \E k \in {j \in DOMAIN loaded[r] : loaded[r][j] \in Open} :
       /\ rounds' = [rounds EXCEPT ![k].status = "COMPLETED"]
       /\ Overwrites(r, k)
       /\ Publish(k)
  /\ Finish(r, "ok")
  /\ UNCHANGED <<ticket, fines>>

\* The webhook and the conciliation want an ACTIVE ticket.
ReadTicket(r) ==
  /\ pc[r] = "ticket"
  /\ \/ /\ ticket = "ACTIVE"
        /\ pc' = [pc EXCEPT ![r] = "round"]
        /\ UNCHANGED memory
     \/ /\ ticket # "ACTIVE"
        /\ Finish(r, "ignored")
  /\ UNCHANGED tables

\* The round the END event belongs to, with its status, is kept in memory.
MatchRound(r) ==
  LET matches == IF kind[r] = "WEBHOOK" THEN LatestOpen ELSE WindowMatches IN
  /\ pc[r] = "round"
  /\ kind[r] # "SYNC"
  /\ \/ /\ matches = {}
        /\ Finish(r, "ignored")
     \/ /\ \E k \in matches : round' = [round EXCEPT ![r] = k]
        /\ loaded' = [loaded EXCEPT ![r] = Snapshot]
        /\ pc' = [pc EXCEPT ![r] = "event"]
        /\ UNCHANGED kind
  /\ UNCHANGED tables

\* Has the entry been reported before?  The app gives way to any report; the
\* satellite rectifies the app's and ignores its own.
ReadEvent(r) ==
  LET marks == rounds[round[r]].endMarks IN
  /\ pc[r] = "event"
  /\ \/ /\ marks = {}
        /\ pc' = [pc EXCEPT ![r] = IF kind[r] = "SYNC" THEN "round" ELSE "commitNew"]
        /\ UNCHANGED memory
     \/ /\ "PWA" \in marks
        /\ kind[r] # "SYNC"
        /\ pc' = [pc EXCEPT ![r] = "commitRectified"]
        /\ UNCHANGED memory
     \/ /\ IF kind[r] = "SYNC" THEN marks # {} ELSE marks \ {"PWA"} # {}
        /\ Finish(r, "duplicate")
  /\ UNCHANGED tables

\* sync-offline-checkpoints looks for the round in IN_PROGRESS after the event.
ReadSyncedRound(r) ==
  /\ pc[r] = "round"
  /\ kind[r] = "SYNC"
  /\ loaded' = [loaded EXCEPT ![r] = Snapshot]
  /\ pc' = [pc EXCEPT ![r] = "commitNew"]
  /\ UNCHANGED <<tables, kind, round>>

\* Who is on record for the entry after the request commits.
MarksAfter(r) ==
  LET marks == rounds[round[r]].endMarks IN
  IF kind[r] = "SYNC" THEN marks \cup {"PWA"}
  ELSE IF pc[r] = "commitNew" THEN marks \cup {"TRACCAR"}
  ELSE (marks \ {"PWA"}) \cup {"TRACCAR"}

\* Faulty variant: the next round is not scheduled.
ForgetsNext(r) ==
  LET marked == [rounds EXCEPT ![round[r]].endMarks = MarksAfter(r)] IN
  /\ pc[r] \in Arriving
  /\ \/ /\ Completes(r)
        /\ rounds' = [marked EXCEPT ![round[r]].status = "COMPLETED"]
        /\ Overwrites(r, round[r])
        /\ Publish(round[r])
     \/ /\ ~Completes(r)
        /\ rounds' = marked
        /\ UNCHANGED <<audits, stale>>
  /\ Finish(r, "ok")
  /\ UNCHANGED <<ticket, fines>>

\* The transaction commits the event and, if the round was IN_PROGRESS when it
\* was read, its completion and the next round.
CommitArrival(r) ==
  LET marked == [rounds EXCEPT ![round[r]].endMarks = MarksAfter(r)] IN
  /\ pc[r] \in Arriving
  /\ \/ /\ Completes(r)
        /\ rounds' = Append([marked EXCEPT ![round[r]].status = "COMPLETED"],
                            NextRound(round[r]))
        /\ Overwrites(r, round[r])
        /\ Publish(round[r])
     \/ /\ ~Completes(r)
        /\ rounds' = marked
        /\ UNCHANGED <<audits, stale>>
  /\ Finish(r, "ok")
  /\ UNCHANGED <<ticket, fines>>

\* A query or Redis fails, or the process dies.  RoundCompletedEvent is
\* published before the commit, and a rollback does not take the job back.
Fail(r) ==
  /\ Failures
  /\ pc[r] \in InFlight
  /\ \/ /\ Finish(r, IF pc[r] = "insertNext" THEN "halfDone" ELSE "error")
        /\ UNCHANGED audits
     \/ /\ pc[r] \in Arriving
        /\ Completes(r)
        /\ audits' = audits \cup {round[r]}
        /\ Finish(r, "halfDone")
  /\ UNCHANGED <<rounds, ticket, fines, stale>>

\* A worker runs an audit job: the round ends up COMPLETED, whatever it was, and
\* an END entry nobody reported may be found in the history of positions.  The
\* job stays when it is retried or when the round was queued twice; it is dropped
\* when its attempts are used up or the vehicle has lost its device.
AuditRound(k) ==
  /\ k \in audits
  /\ \/ /\ \E marks \in {rounds[k].endMarks, {"TRACCAR_AUDIT"}} :
             /\ rounds[k].endMarks \in {marks, {}}
             /\ rounds' = [rounds EXCEPT ![k].status = "COMPLETED", ![k].endMarks = marks]
        /\ audits' \in {audits, audits \ {k}}
     \/ /\ audits' = audits \ {k}
        /\ UNCHANGED rounds
  /\ UNCHANGED <<ticket, fines, stale, pc, memory>>

\* Infractions are issued and paid meanwhile (see InfractionPayments).
FinesChange ==
  /\ fines' \in BOOLEAN \ {fines}
  /\ UNCHANGED <<rounds, ticket, audits, stale, pc, memory>>

Step(r) ==
  \/ Read(r) \/ CountFines(r) \/ SaveStart(r)
  \/ SaveComplete(r) \/ InsertNext(r)
  \/ SaveTicket(r) \/ SaveClosedRound(r)
  \/ ReadTicket(r) \/ MatchRound(r) \/ ReadEvent(r) \/ ReadSyncedRound(r)
  \/ CommitArrival(r)

Next ==
  \/ \E r \in Requests : Begin(r) \/ Step(r) \/ Fail(r)
  \/ \E k \in audits : AuditRound(k)
  \/ FinesChange

Spec == Init /\ [][Next]_vars

-----------------------------------------------------------------------------
(* Properties                                                              *)

\* Type invariant.
TypeOK ==
  /\ rounds \in Seq(Round)
  /\ ticket \in {"ACTIVE", "CLOSED"}
  /\ fines \in BOOLEAN
  /\ audits \subseteq DOMAIN rounds
  /\ stale \subseteq Requests
  /\ pc \in [Requests -> {"idle"} \cup InFlight \cup Final]
  /\ kind \in [Requests -> Kinds \cup {"NONE"}]
  /\ round \in [Requests -> DOMAIN rounds \cup {0}]
  /\ loaded \in [Requests -> Seq(RoundsStatus)]

Quiet == \A r \in Requests : pc[r] \notin InFlight

\* A vehicle whose day is not closed always has a round to run, even when
\* stale requests write old statuses back and audits complete rounds whose
\* completion was rolled back, unless a completion failed half-way.
NeverStranded ==
  ticket = "ACTIVE" /\ Quiet /\ (\A r \in Requests : pc[r] # "halfDone") => OpenRounds # {}

\* Each request that saves over a status it has not read adds one open round at
\* most, and nothing else does: however requests overlap and fail, a ticket has
\* one open round until a save goes stale.
OpenRoundsBounded == Cardinality(OpenRounds) <= 1 + Cardinality(stale)

\* So it is for the rounds of a ticket that have the same number: two completions
\* of one round, or of a round that was opened again, schedule two next rounds.
NumbersShared ==
  \A n \in {rounds[k].number : k \in DOMAIN rounds} :
    Cardinality({k \in DOMAIN rounds : rounds[k].number = n}) <= 1 + Cardinality(stale)

\* A completed round is opened again only by a start that read it before it was
\* completed.
ReopenedOnlyStale ==
  [][\A k \in DOMAIN rounds :
       rounds[k].status = "COMPLETED" /\ rounds'[k].status # "COMPLETED" =>
         \E r \in Requests : /\ kind[r] = "START" /\ round[r] = k
                             /\ loaded[r][k] # "COMPLETED" /\ r \in stale']_vars

\* "Completar o cancelar cualquier vuelta abierta": once the close is over no
\* round of the ticket is open.
ClosedHasNoOpenRound == ticket = "CLOSED" /\ Quiet => OpenRounds = {}

\* Requests that do not overlap make a DispatchDay: between its two steps a
\* completion is still on its way, and so is a close.
Last == rounds[Len(rounds)]
Day == INSTANCE DispatchDay WITH
         trip      <- Last.number,
         direction <- Last.direction,
         phase     <- IF Last.status \in Open THEN Last.status
                      ELSE IF \E r \in Requests : pc[r] = "insertNext" THEN "IN_PROGRESS"
                      ELSE "DONE",
         closed    <- ticket = "CLOSED" /\ \A r \in Requests : pc[r] # "saveRound"
ImplementsDispatchDay == Day!DaySpec
=============================================================================

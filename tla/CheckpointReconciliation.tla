---------------------- MODULE CheckpointReconciliation ----------------------
(***************************************************************************)
(* The arrivals at the stops of one round, and the fines for delay they    *)
(* cause.  They are reported by the satellite's webhook, by a conciliation *)
(* with the events Traccar has kept, and by the lists the driver's app     *)
(* sends when it is back online.  The app is believed for the time being:  *)
(* its fines are TENTATIVE until a satellite confirms or refutes them.     *)
(*                                                                         *)
(* A request is a transaction (PostgreSQL, READ COMMITTED) that goes       *)
(* through its list of reports; what it has written is a draft that the    *)
(* commit merges into the tables and a failure forgets.  A row in another  *)
(* draft is locked.  The ticket is ACTIVE, with a route; the round runs    *)
(* one direction of it, but arrivals at any stop the company knows are     *)
(* taken down, of the other direction and of other routes too.             *)
(*                                                                         *)
(* Nobody here reads a fine that is not TENTATIVE: the payment and the     *)
(* annulment of the others are in InfractionPayments, and the round that   *)
(* follows a completed one is in RoundLifecycle.                           *)
(***************************************************************************)
EXTENDS Naturals, Sequences, FiniteSets

CONSTANTS Requests,    \* requests of the three reporters
          Jobs,        \* jobs of audit-round-queue
          Checkpoints, \* stops of type CHECKPOINT, of any route
          StartStops,  \* stops of type START
          EndStops,    \* stops of type END
          OnRoute,     \* the stops of the ticket's route, both directions
          OnWay,       \* those of the round's direction
          Planned,     \* minutesFromStart of each checkpoint
          Times,       \* the minutes a report may carry
          Lists,       \* the lists of reports that are sent
          MaxInFlight  \* transactions that may overlap: the connections of the pool

Stops  == Checkpoints \cup StartStops \cup EndStops
Reports == [stop : Stops, event : {"enter", "exit"}, time : Times]
Actors == Requests \cup Jobs

ASSUME CheckpointAssumptions ==
  /\ Requests \cap Jobs = {}
  /\ IsFiniteSet(Actors)
  /\ Checkpoints \cap StartStops = {} /\ (Checkpoints \cup StartStops) \cap EndStops = {}
  /\ OnWay \subseteq OnRoute /\ OnRoute \subseteq Stops
  /\ Planned \in [Checkpoints -> Nat]
  /\ Times \subseteq Nat
  /\ Lists \subseteq Seq(Reports) \ {<<>>}
  /\ MaxInFlight \in Nat \ {0}

VARIABLES linked, \* has the vehicle a traccarId?
          round,  \* committed status of the round
          marks,  \* committed tracking_events of the round
          fines,  \* committed infractions of type RETRASO_RUTA of the round
          queued, \* jobs that RoundCompletedEvent has added to the queue
          failed, \* has a query failed, or a process died?
          pc,     \* where each request and each job is
          kind,   \* which reporter each request is
          todo,   \* the reports it has not handled
          loaded, \* the status of the round in its memory
          found,  \* the row its last findOne returned
          draft   \* what each transaction has written so far

tables == <<linked, round, marks, fines>>
memory == <<kind, todo, loaded>>
recVars == <<tables, queued, failed, pc, memory, found, draft>>

-----------------------------------------------------------------------------
Sources  == {"PWA", "TRACCAR", "TRACCAR_AUDIT"}
Official == {"TRACCAR", "TRACCAR_AUDIT"}

NULL == [row |-> "none"]

\* durationSeconds is null (0 here) when there is no entry to count from.
\* copy and no are the identities of the rows.
Mark == [row : {"mark"}, stop : Stops, event : {"enter", "exit"}, time : Times,
         source : Sources, stay : Nat, copy : Nat \ {0}]
\* stop is the one the description names.
Fine == [row : {"fine"}, stop : Checkpoints, status : {"TENTATIVE", "PENDING", "ANNULLED"},
         no : Nat \ {0}]

\* stale (history): a fine was saved that had changed since it was read.
NoDraft == [marks |-> {}, fines |-> {}, round |-> "same", stale |-> FALSE]

SameRow(x, y) ==
  /\ x.row = y.row
  /\ IF x.row = "mark" THEN x.stop = y.stop /\ x.event = y.event /\ x.copy = y.copy
     ELSE x.no = y.no

\* Rows with those of a draft written over them.
Overlay(rows, written) ==
  {x \in rows : \A y \in written : ~SameRow(x, y)} \cup written

\* What a transaction sees: the committed rows and its own.
Marks(a) == Overlay(marks, draft[a].marks)
Fines(a) == Overlay(fines, draft[a].fines)
Status(a) == IF draft[a].round = "same" THEN round ELSE draft[a].round

Existing(a, stop, event) == {m \in Marks(a) : m.stop = stop /\ m.event = event}

\* Faulty variant: the status is left out of the where.
NotYetOfficial(a) == {f \in Fines(a) : f.status # "PENDING"}

Tentative(a) == {f \in Fines(a) : f.status = "TENTATIVE"}

\* A row that a transaction has written is locked until it ends.
LockedBy(b, x) == \E y \in draft[b].marks \cup draft[b].fines : SameRow(x, y)

\* The row is not locked by a transaction other than a.
Unlocked(a, x) == \A b \in Actors \ {a} : ~LockedBy(b, x)
RoundUnlocked(a) == \A b \in Actors \ {a} : draft[b].round = "same"

AllMarks == marks \cup UNION {draft[a].marks : a \in Actors}
AllFines == fines \cup UNION {draft[a].fines : a \in Actors}

\* A number no row has, though rows that were rolled back have left gaps.
Unused(numbers) == CHOOSE n \in 1 .. Cardinality(numbers) + 1 : n \notin numbers

NextCopy(stop, event) ==
  Unused({m.copy : m \in {x \in AllMarks : x.stop = stop /\ x.event = event}})
NextNo == Unused({f.no : f \in AllFines})

NewMark(stop, event, time, source, stay) ==
  [row |-> "mark", stop |-> stop, event |-> event, time |-> time, source |-> source,
   stay |-> stay, copy |-> NextCopy(stop, event)]
NewFine(stop, status) ==
  [row |-> "fine", stop |-> stop, status |-> status, no |-> NextNo]

\* delayMinutes > ROUTE_DELAY_TOLERANCE_MINUTES, a tolerance of 0.
Late(start, stop, time) == time > start.time + Planned[stop]

\* Writes of one transaction to its draft.
WriteMark(d, m) == [d EXCEPT !.marks = Overlay(@, {m})]
WriteFine(d, f) == [d EXCEPT !.fines = Overlay(@, {f})]
WriteRound(d, status) == [d EXCEPT !.round = status]

\* The draft d of a, which has just saved the fine f as it had read it, or a new one.
Saving(a, d, f) == [d EXCEPT !.stale = @ \/ (f # NULL /\ f \notin Fines(a))]

InFlight == {"find", "record", "issue", "judge", "late", "onTime", "complete",
             "confirm", "stops", "lateStop", "onTimeStop"}

\* The server takes one transaction more.
Room == Cardinality({a \in Actors : pc[a] \in InFlight}) < MaxInFlight

\* RoundCompletedHandler adds a job; it waits for nobody, not for the commit.
Publish == \E j \in Jobs \ queued : queued' = queued \cup {j}

-----------------------------------------------------------------------------
RecInit ==
  /\ linked \in BOOLEAN
  /\ round = "PENDING"
  /\ marks = {}
  /\ fines = {}
  /\ queued = {}
  /\ failed = FALSE
  /\ pc = [a \in Actors |-> "idle"]
  /\ kind = [r \in Requests |-> "NONE"]
  /\ todo = [r \in Requests |-> <<>>]
  /\ loaded = [r \in Requests |-> "NONE"]
  /\ found = [a \in Actors |-> NULL]
  /\ draft = [a \in Actors |-> NoDraft]

\* The app sends no exits; the webhook sends one event at a time.
AppLists == {l \in Lists : \A n \in DOMAIN l : l[n].event = "enter"}

BeginAs(r, k, l) ==
  /\ pc[r] = "idle"
  /\ Room
  /\ kind' = [kind EXCEPT ![r] = k]
  /\ todo' = [todo EXCEPT ![r] = l]
  /\ loaded' = [loaded EXCEPT ![r] = round]
  /\ pc' = [pc EXCEPT ![r] = "find"]
  /\ UNCHANGED <<tables, queued, failed, found, draft>>

\* The webhook finds the vehicle by its traccarId and looks for an open round; after
\* this one is completed it finds the next one.
BeginWebhook(r) ==
  /\ linked
  /\ round \in {"PENDING", "IN_PROGRESS"}
  /\ \E l \in Lists : Len(l) = 1 /\ BeginAs(r, "WEBHOOK", l)

\* getDeviceEvents: what Traccar has kept of the time without a connection.
DeviceEvents == Lists

\* The conciliation matches the hours of its events with those of the round, which it
\* reads before its transaction.
BeginConciliation(r) ==
  /\ linked
  /\ \E l \in DeviceEvents : BeginAs(r, "CONCILIATE", l)

\* The app names the round.
BeginSync(r) == \E l \in AppLists : BeginAs(r, "SYNC", l)

Begin(r) == BeginWebhook(r) \/ BeginConciliation(r) \/ BeginSync(r)

\* One geofence event, looked up before anything else.
Find(r) ==
  /\ pc[r] = "find"
  /\ todo[r] # <<>>
  /\ LET rows == Existing(r, Head(todo[r]).stop, Head(todo[r]).event)
     IN  \E m \in IF rows = {} THEN {NULL} ELSE rows : found' = [found EXCEPT ![r] = m]
  /\ pc' = [pc EXCEPT ![r] = "record"]
  /\ UNCHANGED <<tables, queued, failed, kind, todo, loaded, draft>>

Advance(r) ==
  /\ pc' = [pc EXCEPT ![r] = "find"]
  /\ todo' = [todo EXCEPT ![r] = Tail(@)]
  /\ found' = [found EXCEPT ![r] = NULL]

GoOn(r, step) == pc' = [pc EXCEPT ![r] = step] /\ UNCHANGED <<todo, found>>

Skip(r) ==
  /\ pc[r] = "record"
  /\ found[r] # NULL
  /\ \/ kind[r] = "SYNC"
     \/ found[r].event = "exit"
     \/ found[r].source # "PWA"
  /\ Advance(r)
  /\ UNCHANGED <<tables, queued, failed, kind, loaded, draft>>

\* Faulty variant: nobody looks for the report of another reporter.
AlwaysNew(r) == TRUE

\* The condition of Case A.
IsNew(r) == found[r] = NULL

\* What follows a new mark: the app's checkpoints are judged in a round of any
\* status, the satellite's in a round that is running.
AfterNew(r, x) ==
  CASE x.stop \in Checkpoints /\ (kind[r] = "SYNC" \/ loaded[r] = "IN_PROGRESS") -> GoOn(r, "issue")
    [] x.stop \in EndStops -> GoOn(r, "complete")
    [] OTHER -> Advance(r)

\* Case A.
RecordEntry(r) ==
  LET x == Head(todo[r])
      source == IF kind[r] = "SYNC" THEN "PWA" ELSE "TRACCAR"
  IN  /\ pc[r] = "record" /\ x.event = "enter" /\ IsNew(r)
      /\ draft' = [draft EXCEPT ![r] =
                     WriteMark(@, NewMark(x.stop, "enter", x.time, source, 0))]
      /\ AfterNew(r, x)
      /\ UNCHANGED <<tables, queued, failed, kind, loaded>>

\* The stay is counted from the last entry, and never negative.
Stay(r, x) ==
  LET entries == {m.time : m \in Existing(r, x.stop, "enter")}
      last == CHOOSE t \in entries : \A u \in entries : u <= t
  IN  IF entries # {} /\ x.time > last THEN x.time - last ELSE 0

RecordExit(r) ==
  LET x == Head(todo[r])
  IN  /\ pc[r] = "record" /\ x.event = "exit" /\ found[r] = NULL
      /\ draft' = [draft EXCEPT ![r] =
                     WriteMark(@, NewMark(x.stop, "exit", x.time, "TRACCAR", Stay(r, x)))]
      /\ Advance(r)
      /\ UNCHANGED <<tables, queued, failed, kind, loaded>>

\* Faulty variant: the hour is corrected and the row stays the app's.
RectifiedHour(m, time) == [m EXCEPT !.time = time]

\* Faulty variant: the payload replaces the old one, and nobody signs it.
RectifiedUnsigned(m, time) == [m EXCEPT !.time = time, !.source = "UNKNOWN"]

\* The app's row becomes the satellite's.
Rectified(m, time) == [m EXCEPT !.time = time, !.source = "TRACCAR"]

AfterRectified(r, x) ==
  CASE x.stop \in Checkpoints -> GoOn(r, "judge")
    [] x.stop \in EndStops -> GoOn(r, "complete")
    [] OTHER -> Advance(r)

\* Case B.
Rectify(r) ==
  LET x == Head(todo[r])
  IN  /\ pc[r] = "record" /\ x.event = "enter"
      /\ kind[r] # "SYNC" /\ found[r] # NULL /\ found[r].source = "PWA"
      /\ Unlocked(r, found[r])
      /\ draft' = [draft EXCEPT ![r] = WriteMark(@, Rectified(found[r], x.time))]
      /\ AfterRectified(r, x)
      /\ UNCHANGED <<tables, queued, failed, kind, loaded>>

\* Any entry of the round to a START of the route, whatever its direction.
Starts(a) == UNION {Existing(a, s, "enter") : s \in StartStops \cap OnRoute}

\* A delay of a new mark, if the start of the round is known, is fined; by the
\* webhook, if the stop is on the ticket's route.
Issue(r, status) ==
  LET x == Head(todo[r])
  IN  /\ pc[r] = "issue"
      /\ IF Starts(r) = {} \/ (kind[r] = "WEBHOOK" /\ x.stop \notin OnRoute)
         THEN UNCHANGED draft
         ELSE \E s \in Starts(r) :
                IF Late(s, x.stop, x.time)
                THEN draft' = [draft EXCEPT ![r] = WriteFine(@, NewFine(x.stop, status))]
                ELSE UNCHANGED draft
      /\ Advance(r)
      /\ UNCHANGED <<tables, queued, failed, kind, loaded>>

IssueOfficial(r)  == kind[r] # "SYNC" /\ Issue(r, "PENDING")
IssueTentative(r) == kind[r] = "SYNC" /\ Issue(r, "TENTATIVE")

\* convalidateTentativeInfraction, first half: the start of the round, and any of
\* its TENTATIVE fines.
Judge(r) ==
  LET x == Head(todo[r])
  IN  /\ pc[r] = "judge"
      /\ IF Starts(r) = {} THEN Advance(r)
         ELSE /\ \E f \in IF Tentative(r) = {} THEN {NULL} ELSE Tentative(r) :
                   found' = [found EXCEPT ![r] = f]
              /\ \E s \in Starts(r) :
                   pc' = [pc EXCEPT ![r] = IF Late(s, x.stop, x.time) THEN "late" ELSE "onTime"]
              /\ UNCHANGED todo
      /\ UNCHANGED <<tables, queued, failed, kind, loaded, draft>>

\* Faulty variant: a delay nobody had reported is let pass.
SettledIfKnown(d, f, stop, late) ==
  IF f = NULL THEN d
  ELSE IF late THEN WriteFine(d, [f EXCEPT !.status = "PENDING", !.stop = stop])
               ELSE WriteFine(d, [f EXCEPT !.status = "ANNULLED", !.stop = stop])

\* What the satellite's hour does to a tentative fine, or to its absence.
Settled(d, f, stop, late) ==
  CASE late /\ f # NULL  -> WriteFine(d, [f EXCEPT !.status = "PENDING", !.stop = stop])
    [] late /\ f = NULL  -> WriteFine(d, NewFine(stop, "PENDING"))
    [] ~late /\ f # NULL -> WriteFine(d, [f EXCEPT !.status = "ANNULLED", !.stop = stop])
    [] OTHER             -> d

\* Second half: the fine found is saved.
Settle(r) ==
  /\ pc[r] \in {"late", "onTime"}
  /\ found[r] = NULL \/ Unlocked(r, found[r])
  /\ LET settled == Settled(draft[r], found[r], Head(todo[r]).stop, pc[r] = "late")
     IN  draft' = [draft EXCEPT ![r] = Saving(r, settled, found[r])]
  /\ Advance(r)
  /\ UNCHANGED <<tables, queued, failed, kind, loaded>>

\* autoCompleteRound: nothing unless the round, as the caller has it, is running.
Complete(r, status) ==
  /\ pc[r] = "complete"
  /\ IF status = "IN_PROGRESS"
     THEN /\ RoundUnlocked(r)
          /\ Publish
          /\ draft' = [draft EXCEPT ![r] = WriteRound(@, "COMPLETED")]
          /\ loaded' = [loaded EXCEPT ![r] = "COMPLETED"]
     ELSE UNCHANGED <<queued, draft, loaded>>
  /\ Advance(r)
  /\ UNCHANGED <<tables, failed, kind>>

\* The satellite's reporters go by the round in memory, the app's reads it again.
CompleteMatched(r) == kind[r] # "SYNC" /\ Complete(r, loaded[r])
CompleteNamed(r)   == kind[r] = "SYNC" /\ Complete(r, Status(r))

\* A draft becomes visible.
Merge(a) ==
  /\ marks' = Overlay(marks, draft[a].marks)
  /\ fines' = Overlay(fines, draft[a].fines)
  /\ round' = Status(a)
  /\ UNCHANGED linked
  /\ draft' = [draft EXCEPT ![a] = NoDraft]

Leave(r) ==
  /\ pc' = [pc EXCEPT ![r] = "done"]
  /\ kind' = [kind EXCEPT ![r] = "NONE"]
  /\ todo' = [todo EXCEPT ![r] = <<>>]
  /\ loaded' = [loaded EXCEPT ![r] = "NONE"]
  /\ found' = [found EXCEPT ![r] = NULL]

Commit(r) ==
  /\ pc[r] = "find"
  /\ todo[r] = <<>>
  /\ Merge(r)
  /\ Leave(r)
  /\ UNCHANGED <<queued, failed>>

\* A query fails, PostgreSQL breaks a circle of waits, or the process dies.
Fail(r) ==
  /\ pc[r] \in InFlight
  /\ draft' = [draft EXCEPT ![r] = NoDraft]
  /\ failed' = TRUE
  /\ Leave(r)
  /\ UNCHANGED <<tables, queued>>

-----------------------------------------------------------------------------
\* The driver's buttons; how they overlap with the rest is in RoundLifecycle.
Press ==
  /\ Room
  /\ \A a \in Actors : draft[a].round = "same"
  /\ \/ round = "PENDING" /\ round' = "IN_PROGRESS" /\ UNCHANGED queued
     \/ round = "IN_PROGRESS" /\ round' = "COMPLETED" /\ Publish
  /\ UNCHANGED <<linked, marks, fines, failed, pc, memory, found, draft>>

\* The close of the ticket and the midnight reset annul every TENTATIVE fine
\* with one UPDATE, the office one of them.
AnnulTentative ==
  /\ Room
  /\ \E T \in SUBSET {f \in fines : f.status = "TENTATIVE"} :
       /\ T # {}
       /\ Cardinality(T) = 1 \/ T = {f \in fines : f.status = "TENTATIVE"}
       /\ \A a \in Actors, f \in T : ~LockedBy(a, f)
       /\ fines' = Overlay(fines, {[f EXCEPT !.status = "ANNULLED"] : f \in T})
  /\ UNCHANGED <<linked, round, marks, queued, failed, pc, memory, found, draft>>

\* The steps of a request that has begun.
Answer(r) ==
  \/ Find(r) \/ Skip(r) \/ RecordEntry(r) \/ RecordExit(r) \/ Rectify(r)
  \/ IssueOfficial(r) \/ IssueTentative(r) \/ Judge(r) \/ Settle(r)
  \/ CompleteMatched(r) \/ CompleteNamed(r) \/ Commit(r)

-----------------------------------------------------------------------------
RecTypeOK ==
  /\ linked \in BOOLEAN
  /\ round \in {"PENDING", "IN_PROGRESS", "COMPLETED"}
  /\ marks \subseteq Mark
  /\ fines \subseteq Fine
  /\ queued \subseteq Jobs
  /\ failed \in BOOLEAN
  /\ kind \in [Requests -> {"NONE", "WEBHOOK", "CONCILIATE", "SYNC"}]
  /\ todo \in [Requests -> Seq(Reports)]
  /\ loaded \in [Requests -> {"NONE", "PENDING", "IN_PROGRESS", "COMPLETED"}]
  /\ found \in [Actors -> Mark \cup Fine \cup {NULL}]
  /\ draft \in [Actors -> [marks : SUBSET Mark, fines : SUBSET Fine,
                           round : {"same", "COMPLETED"}, stale : BOOLEAN]]

\* A stop has at most as many entries, and exits, as transactions may overlap: once
\* one of them has committed its mark, each of the four reporters that looks for it
\* finds it, whoever reports first and however often.
MarksPerStop ==
  \A s \in Stops, e \in {"enter", "exit"} :
    Cardinality({m \in marks : m.stop = s /\ m.event = e}) <= MaxInFlight

\* A fine that was annulled or made official is changed by nobody but a transaction
\* that read it while it was TENTATIVE and saves it now.
SettledForGood ==
  [][\A f \in fines : f.status # "TENTATIVE" /\ f \notin fines' =>
       \E a \in Actors : /\ draft[a].stale
                         /\ \E g \in draft[a].fines : SameRow(f, g) /\ g \in fines']_recVars
=============================================================================

----------------------------- MODULE RoundAudit -----------------------------
(***************************************************************************)
(* The double check of a completed round.  A minute after the completion   *)
(* (and again, up to five times, while Traccar is silent or behind) a job  *)
(* of audit-round-queue decides how to audit: with the positions Traccar   *)
(* has, which recover arrivals nobody reported and settle the TENTATIVE    *)
(* fines, or without them, which confirms what the driver's app reported.  *)
(* With positions it looks at the stops of the round's own direction only. *)
(* The audit is one transaction, beside those of the reporters; BullMQ     *)
(* redelivers the job of a worker that died, once.                         *)
(***************************************************************************)
EXTENDS CheckpointReconciliation

CONSTANTS MaxAttempts, \* attempts of a job: 5, and attemptsMade < 4 for the last
          Crossings    \* when the positions Traccar has pass by each stop

ASSUME AuditAssumptions ==
  /\ MaxAttempts \in Nat \ {0}
  /\ Crossings \in [Stops -> SUBSET Times]

VARIABLES attempts, \* job.attemptsMade
          stalls,   \* how many times a job has been given again
          mode,     \* how the audit of a job was asked for, or goes on
          left,     \* what the audit's loop has not handled: stops, or fines
          audited   \* the round's entry in <tenant>_cache_doblecheck

queueVars == <<attempts, stalls, mode, left, audited>>
vars == <<recVars, queueVars>>

\* Faulty variant: an attempt too many is expected.
NeverLast(j) == attempts[j] >= MaxAttempts

\* Before it, attemptsMade < 4 throws, so that BullMQ tries again; afterwards it gives up.
LastAttempt(j) == attempts[j] >= MaxAttempts - 1

-----------------------------------------------------------------------------
Init ==
  /\ RecInit
  /\ attempts = [j \in Jobs |-> 0]
  /\ stalls = [j \in Jobs |-> 0]
  /\ mode = [j \in Jobs |-> "none"]
  /\ left = [j \in Jobs |-> {}]
  /\ audited = "no"

\* The delay, or the backoff, is over.
Take(j) ==
  /\ j \in queued
  /\ pc[j] = "idle"
  /\ pc' = [pc EXCEPT ![j] = "inspect"]
  /\ UNCHANGED <<tables, queued, failed, memory, found, draft, queueVars>>

\* BullMQ: a job that has thrown waits for its next attempt, if it has one.
ThrownBack(j) ==
  /\ attempts' = [attempts EXCEPT ![j] = @ + 1]
  /\ pc' = [pc EXCEPT ![j] = IF attempts[j] + 1 < MaxAttempts THEN "idle" ELSE "failed"]

\* getDevicePositions, when it does not end in positions up to the arrival.
Silences == {"error", "empty", "behind"}

\* RoundAuditProcessor.process: Traccar does not answer, has no position of the
\* round, has none of the last 45 seconds, or is up to date.
Inspect(j) ==
  /\ pc[j] = "inspect"
  /\ \/ /\ ~linked
        /\ mode' = [mode EXCEPT ![j] = "incomplete"]
        /\ pc' = [pc EXCEPT ![j] = "audit"]
        /\ UNCHANGED attempts
     \/ /\ linked
        /\ \E traccar \in Silences :
             IF LastAttempt(j)
             THEN /\ mode' = [mode EXCEPT ![j] = "incomplete"]
                  /\ pc' = [pc EXCEPT ![j] = "audit"]
                  /\ UNCHANGED attempts
             ELSE ThrownBack(j) /\ UNCHANGED mode
     \/ /\ linked
        /\ mode' = [mode EXCEPT ![j] = "complete"]
        /\ pc' = [pc EXCEPT ![j] = "audit"]
        /\ UNCHANGED attempts
  /\ UNCHANGED <<tables, queued, failed, memory, found, draft, stalls, left, audited>>

\* AuditRoundHandler.execute up to its loops.  A vehicle without traccarId ends the
\* audit, the incomplete one included.  The positions are asked for again: without
\* any ("blind") no stop is looked at.
BeginAudit(j) ==
  /\ pc[j] = "audit"
  /\ Room
  /\ \/ /\ ~linked
        /\ pc' = [pc EXCEPT ![j] = "ack"]
        /\ UNCHANGED <<mode, left>>
     \/ /\ linked /\ mode[j] = "incomplete"
        /\ pc' = [pc EXCEPT ![j] = "confirm"]
        /\ left' = [left EXCEPT ![j] = Tentative(j)]
        /\ UNCHANGED mode
     \/ /\ linked /\ mode[j] = "complete"
        /\ pc' = [pc EXCEPT ![j] = "stops"]
        /\ \/ left' = [left EXCEPT ![j] = OnWay] /\ UNCHANGED mode
           \/ UNCHANGED left /\ mode' = [mode EXCEPT ![j] = "blind"]
  /\ UNCHANGED <<tables, queued, failed, memory, found, draft, attempts, stalls, audited>>

\* Without satellite the app is believed.
Confirm(j) ==
  /\ pc[j] = "confirm"
  /\ \E f \in left[j] :
       /\ Unlocked(j, f)
       /\ draft' = [draft EXCEPT ![j] =
                       Saving(j, WriteFine(@, [f EXCEPT !.status = "PENDING"]), f)]
       /\ left' = [left EXCEPT ![j] = @ \ {f}]
  /\ UNCHANGED <<tables, queued, failed, pc, memory, found, attempts, stalls, mode, audited>>

\* auditCheckpointDelay, for a mark that has just been recovered.
AuditedLate(j, s, t) == s \in Checkpoints /\ \E b \in Starts(j) : Late(b, s, t)

\* When the way between two positions comes within 40 m of a stop, if it does.
PassesBy(s) == Crossings[s]

\* A stop nobody has reported: the positions may pass within 40 m of it.  The stops
\* come in no order, so the start may be recovered after a checkpoint.
RecoverStop(j) ==
  /\ pc[j] = "stops"
  /\ \E s \in left[j] :
       /\ Existing(j, s, "enter") = {}
       /\ left' = [left EXCEPT ![j] = @ \ {s}]
       /\ \/ UNCHANGED draft
          \/ \E t \in PassesBy(s) :
               LET recovered == WriteMark(draft[j], NewMark(s, "enter", t, "TRACCAR_AUDIT", 0))
               IN  IF AuditedLate(j, s, t)
                   THEN draft' = [draft EXCEPT ![j] = WriteFine(recovered, NewFine(s, "PENDING"))]
                   ELSE draft' = [draft EXCEPT ![j] = recovered]
  /\ UNCHANGED <<tables, queued, failed, pc, memory, found, attempts, stalls, mode, audited>>

\* Faulty variant: only the satellite's own marks are judged.
JudgesOfficial(j, m) == m.source \in Official

\* A mark of any source is judged, when it is a checkpoint's.
JudgesMark(j, m) == m.stop \in Checkpoints

\* A stop with a mark: its hour settles a TENTATIVE fine, any of the round's.
JudgeStop(j) ==
  /\ pc[j] = "stops"
  /\ \E s \in left[j] : \E m \in Existing(j, s, "enter") :
       IF JudgesMark(j, m) /\ Starts(j) # {} /\ s \in Checkpoints
       THEN /\ \E f \in IF Tentative(j) = {} THEN {NULL} ELSE Tentative(j) :
                 found' = [found EXCEPT ![j] = f]
            /\ \E b \in Starts(j) :
                 pc' = [pc EXCEPT ![j] = IF Late(b, s, m.time) THEN "lateStop" ELSE "onTimeStop"]
            /\ mode' = [mode EXCEPT ![j] = s]
            /\ left' = [left EXCEPT ![j] = @ \ {s}]
       ELSE /\ left' = [left EXCEPT ![j] = @ \ {s}]
            /\ UNCHANGED <<pc, found, mode>>
  /\ UNCHANGED <<tables, queued, failed, memory, draft, attempts, stalls, audited>>

\* convalidateOrAnnulTentative: the fine found is saved.
SettleStop(j) ==
  /\ pc[j] \in {"lateStop", "onTimeStop"}
  /\ found[j] = NULL \/ Unlocked(j, found[j])
  /\ LET settled == Settled(draft[j], found[j], mode[j], pc[j] = "lateStop")
     IN  draft' = [draft EXCEPT ![j] = Saving(j, settled, found[j])]
  /\ pc' = [pc EXCEPT ![j] = "stops"]
  /\ mode' = [mode EXCEPT ![j] = "complete"]
  /\ found' = [found EXCEPT ![j] = NULL]
  /\ UNCHANGED <<tables, queued, failed, memory, attempts, stalls, left, audited>>

\* The round is completed whatever its status, the result goes to Redis and the
\* transaction commits.
CommitAudit(j) ==
  /\ pc[j] \in {"confirm", "stops"}
  /\ left[j] = {}
  /\ RoundUnlocked(j)
  /\ marks' = Overlay(marks, draft[j].marks)
  /\ fines' = Overlay(fines, draft[j].fines)
  /\ round' = "COMPLETED"
  /\ draft' = [draft EXCEPT ![j] = NoDraft]
  /\ audited' = IF mode[j] = "incomplete" THEN "incomplete" ELSE "complete"
  /\ pc' = [pc EXCEPT ![j] = "ack"]
  /\ UNCHANGED <<linked, queued, failed, memory, found, attempts, stalls, mode, left>>

Acknowledge(j) ==
  /\ pc[j] = "ack"
  /\ pc' = [pc EXCEPT ![j] = "done"]
  /\ mode' = [mode EXCEPT ![j] = "none"]
  /\ UNCHANGED <<tables, queued, failed, memory, found, draft, attempts, stalls, left, audited>>

Running == {"inspect", "audit", "confirm", "stops", "lateStop", "onTimeStop"}

Forget(j) ==
  /\ failed' = TRUE
  /\ draft' = [draft EXCEPT ![j] = NoDraft]
  /\ found' = [found EXCEPT ![j] = NULL]
  /\ mode' = [mode EXCEPT ![j] = "none"]
  /\ left' = [left EXCEPT ![j] = {}]

\* A query or Redis fails: the transaction is rolled back and the handler throws.
FailJob(j) ==
  /\ pc[j] \in Running
  /\ ThrownBack(j)
  /\ Forget(j)
  /\ UNCHANGED <<tables, queued, memory, stalls, audited>>

\* The worker dies, with the commit done or not.
Stall(j) ==
  /\ pc[j] \in Running \cup {"ack"}
  /\ stalls' = [stalls EXCEPT ![j] = @ + 1]
  /\ pc' = [pc EXCEPT ![j] = IF stalls[j] = 0 THEN "idle" ELSE "failed"]
  /\ Forget(j)
  /\ UNCHANGED <<tables, queued, memory, attempts, audited>>

-----------------------------------------------------------------------------
Work(j) ==
  \/ Take(j) \/ Inspect(j) \/ BeginAudit(j) \/ Confirm(j) \/ RecoverStop(j)
  \/ JudgeStop(j) \/ SettleStop(j) \/ CommitAudit(j) \/ Acknowledge(j)

Next ==
  \/ \E r \in Requests : (Begin(r) \/ Answer(r) \/ Fail(r)) /\ UNCHANGED queueVars
  \/ (Press \/ AnnulTentative) /\ UNCHANGED queueVars
  \/ \E j \in Jobs : Work(j) \/ FailJob(j) \/ Stall(j)

\* The worker takes jobs as long as it runs, and a transaction whose queries are
\* answered goes on; nobody has to report, to press or to annul anything.
Fairness ==
  /\ \A j \in Jobs : WF_vars(Work(j))
  /\ \A r \in Requests : WF_vars(Answer(r) /\ UNCHANGED queueVars)

Spec == Init /\ [][Next]_vars /\ Fairness

-----------------------------------------------------------------------------
TypeOK ==
  /\ RecTypeOK
  /\ pc \in [Actors -> InFlight \cup Running \cup {"idle", "done", "ack", "failed"}]
  /\ attempts \in [Jobs -> 0 .. MaxAttempts]
  /\ stalls \in [Jobs -> 0 .. 2]
  /\ mode \in [Jobs -> {"none", "complete", "blind", "incomplete"} \cup Checkpoints]
  /\ \A j \in Jobs : IF pc[j] = "confirm" THEN left[j] \subseteq Fine ELSE left[j] \subseteq Stops
  /\ audited \in {"no", "complete", "incomplete"}

\* j commits an audit that has looked at what it audits.
Settles(j) == pc[j] \in {"confirm", "stops"} /\ pc'[j] = "ack" /\ mode[j] # "blind"

Reached(S)       == {m \in marks : m.event = "enter" /\ m.stop \in S}
StartMarks       == Reached(StartStops \cap OnRoute)
\* Late whichever start is taken, and late by some start.
SurelyLate       == {m \in Reached(OnWay \cap Checkpoints) :
                       StartMarks # {} /\ \A b \in StartMarks : Late(b, m.stop, m.time)}
PerhapsLate      == {m \in Reached(OnWay \cap Checkpoints) :
                       \E b \in StartMarks : Late(b, m.stop, m.time)}
FinesThatAre(st) == {f \in fines : f.status = st}

\* An audit confirms or annuls every TENTATIVE fine of the round, although a stop
\* settles any of them and not the one it caused; with positions, it leaves one at
\* most for each stop of another way that the app has reported and it does not look at.
AuditLeavesNoTentative ==
  [][\A j \in Jobs : Settles(j) =>
       Cardinality(FinesThatAre("TENTATIVE")') <=
         IF mode[j] = "incomplete" THEN 0
         ELSE Cardinality({m \in Reached(Checkpoints \ OnWay) : m.source = "PWA"}')]_vars

\* An audit with positions adds one official fine for each late arrival on the way,
\* those it has just recovered included, if the start was known: no delay is let
\* pass, and a delay that was fined when it happened is charged once more.
AuditChargesEachDelay ==
  [][\A j \in Jobs : Settles(j) /\ mode[j] = "complete" =>
       LET before == Cardinality(FinesThatAre("PENDING"))
           after  == Cardinality(FinesThatAre("PENDING")')
       IN  /\ StartMarks # {} => before + Cardinality(SurelyLate') <= after
           /\ after <= before + Cardinality(PerhapsLate')]_vars

\* A completed round of a linked vehicle is audited in the end, however long Traccar
\* stays silent, unless a query failed or a worker died.
EventuallyAudited == (linked /\ queued # {}) ~> (audited # "no" \/ failed)

\* The marks of the stops are the record that StopMark promises.
Record ==
  [s \in Stops |->
     LET entries == {m \in marks : m.stop = s /\ m.event = "enter"}
         m == CHOOSE x \in entries : TRUE
     IN  IF entries = {} THEN [by |-> "nobody", time |-> 0]
         ELSE [by |-> IF m.source = "PWA" THEN "app" ELSE "satellite", time |-> m.time]]

Marking == INSTANCE StopMark WITH record <- Record

\* Without overlap, each stop is recorded once, corrected at most once, and only by
\* the satellite over the app.
ImplementsStopMark == Marking!StopMarkSpec
=============================================================================

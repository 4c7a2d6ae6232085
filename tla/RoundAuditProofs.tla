-------------------------- MODULE RoundAuditProofs --------------------------
(***************************************************************************)
(* What RoundAudit guarantees for any number of requests, jobs, stops and  *)
(* reports.                                                                *)
(***************************************************************************)
EXTENDS RoundAudit, FiniteSetTheorems, SequenceTheorems, TLAPS

-----------------------------------------------------------------------------
(* Rows and their numbers.                                                  *)

\* A number that no row has exists, and is a number.
LEMMA UnusedFacts ==
  ASSUME NEW numbers, IsFiniteSet(numbers)
  PROVE  Unused(numbers) \in Nat \ {0} /\ Unused(numbers) \notin numbers
<1> DEFINE n == Cardinality(numbers)
           tried == 1 .. n + 1
<1>1. n \in Nat
  BY FS_CardinalityType
<1>2. IsFiniteSet(tried) /\ Cardinality(tried) = n + 1
  <2> HIDE DEF n
  <2>1. n + 1 \in Int /\ ~(1 > n + 1) /\ (n + 1) - 1 + 1 = n + 1
    BY <1>1
  <2> QED BY <2>1, FS_Interval
<1>3. \E k \in tried : k \notin numbers
  <2> SUFFICES ASSUME tried \subseteq numbers PROVE FALSE
    OBVIOUS
  <2>1. Cardinality(tried) <= n
    <3> HIDE DEF tried
    <3> QED BY FS_Subset
  <2> QED BY <1>1, <1>2, <2>1
<1>4. Unused(numbers) \in tried /\ Unused(numbers) \notin numbers
  BY <1>3 DEF Unused
<1> HIDE DEF n
<1> QED BY <1>1, <1>4

\* A finite set of times that is not empty has a last one.
LEMMA LastExists ==
  ASSUME NEW S \in SUBSET Nat, IsFiniteSet(S), S # {}
  PROVE  \E t \in S : \A u \in S : u <= t
<1> DEFINE Last(U) == \E t \in U : \A u \in U : u <= t
           bad == {U \in FiniteSubsetsOf(S) : U # {} /\ ~Last(U)}
<1> SUFFICES ASSUME ~Last(S) PROVE FALSE
  OBVIOUS
<1>1. S \in bad /\ bad \subseteq FiniteSubsetsOf(S)
  BY DEF FiniteSubsetsOf
<1>2. PICK U \in bad : \A V \in bad : ~(<<V, U>> \in StrictSubsetOrdering(S))
  <2> HIDE DEF bad
  <2> QED BY <1>1, WFMin, FS_StrictSubsetOrderingWellFounded
<1>3. U \in SUBSET S /\ IsFiniteSet(U) /\ U # {} /\ ~Last(U)
  BY <1>2 DEF FiniteSubsetsOf
<1>4. PICK x \in U : x \in Nat
  BY <1>3
<1> DEFINE V == U \ {x}
<1>5. V \subseteq U /\ V # U /\ V \in SUBSET S /\ IsFiniteSet(V)
  <2>1. V \in SUBSET U
    OBVIOUS
  <2> QED BY <1>3, <1>4, <2>1, FS_Subset
<1>6. V \notin bad
  <2>1. <<V, U>> \in StrictSubsetOrdering(S)
    BY <1>3, <1>5 DEF StrictSubsetOrdering
  <2> QED BY <1>2, <2>1
<1>7. CASE V = {}
  <2>1. \A u \in U : u <= x
    BY <1>4, <1>7
  <2> QED BY <1>3, <2>1
<1>8. CASE Last(V)
  <2>1. PICK t \in V : \A u \in V : u <= t
    BY <1>8
  <2>2. t \in Nat
    BY <1>5
  <2>3. CASE x <= t
    <3>1. \A u \in U : u <= t
      BY <2>1, <2>3
    <3> QED BY <1>3, <3>1
  <2>4. CASE ~(x <= t)
    <3>1. \A u \in U : u <= x
      <4> TAKE u \in U
      <4>1. u \in Nat
        BY <1>3
      <4>2. u = x \/ u <= t
        BY <2>1
      <4> QED BY <1>4, <2>2, <2>4, <4>1, <4>2
    <3> QED BY <1>3, <3>1
  <2> QED BY <2>3, <2>4
<1> QED BY <1>5, <1>6, <1>7, <1>8 DEF FiniteSubsetsOf

\* An image of a finite set, {Op(x) : x \in S} for the fields of rows.
LEMMA FieldsFinite ==
  ASSUME NEW S, IsFiniteSet(S)
  PROVE  /\ IsFiniteSet({x.copy : x \in S})
         /\ IsFiniteSet({x.no : x \in S})
         /\ IsFiniteSet({x.time : x \in S})
<1>1. [x \in S |-> x.copy] \in Surjection(S, {x.copy : x \in S})
  BY DEF Surjection
<1>2. [x \in S |-> x.no] \in Surjection(S, {x.no : x \in S})
  BY DEF Surjection
<1>3. [x \in S |-> x.time] \in Surjection(S, {x.time : x \in S})
  BY DEF Surjection
<1>4. IsFiniteSet({x.copy : x \in S})
  BY <1>1, FS_Surjection
<1>5. IsFiniteSet({x.no : x \in S})
  BY <1>2, FS_Surjection
<1>6. IsFiniteSet({x.time : x \in S})
  BY <1>3, FS_Surjection
<1> QED BY <1>4, <1>5, <1>6

-----------------------------------------------------------------------------
(* The invariant of the types.  Numbers are found for new rows because there *)
(* are finitely many; the rest is what a transaction has in hand at a step.  *)
\* The steps of a request, and of a job.
Reporting == {"find", "record", "issue", "judge", "late", "onTime", "complete"}
Auditing  == {"confirm", "stops", "lateStop", "onTimeStop"}

\* What a request has in hand at a step: the reports left and the row it has found.
Ordered(l, t, f) ==
  /\ l \in Reporting \cup {"idle", "done"}
  /\ l \in Reporting \ {"find"} => t # <<>>
  /\ l = "record" /\ f # NULL => f \in Mark /\ f.stop = Head(t).stop /\ f.event = Head(t).event
  /\ l \in {"issue", "judge", "late", "onTime"} => Head(t).stop \in Checkpoints
  /\ l \in {"late", "onTime"} => f \in Fine \cup {NULL}

\* And a job: its attempts, its stalls, its mode, what is left and what it has found.
Paced(l, a, s, m, w, f) ==
  /\ l \in Running \cup {"idle", "ack", "done", "failed"}
  /\ l \in Running \cup {"idle", "ack"} => a < MaxAttempts /\ s <= 1
  /\ l \in {"lateStop", "onTimeStop"} => m \in Checkpoints /\ f \in Fine \cup {NULL}
  /\ IF l = "confirm" THEN w \subseteq Fine ELSE w \subseteq Stops

FiniteRows == IsFiniteSet(AllMarks) /\ IsFiniteSet(AllFines)

TInv ==
  /\ TypeOK
  /\ FiniteRows
  /\ left = [j \in Jobs |-> left[j]]
  /\ \A r \in Requests : Ordered(pc[r], todo[r], found[r])
  /\ \A j \in Jobs : Paced(pc[j], attempts[j], stalls[j], mode[j], left[j], found[j])

Draft == [marks : SUBSET Mark, fines : SUBSET Fine, round : {"same", "COMPLETED"},
          stale : BOOLEAN]

\* A transaction sees the rows it has written and those it has not.
LEMMA OverlayFacts ==
  ASSUME NEW rows, NEW written
  PROVE  /\ Overlay(rows, written) \subseteq rows \cup written
         /\ written \subseteq Overlay(rows, written)
         /\ Overlay(rows, {}) = rows
BY DEF Overlay

\* A new entry or exit is a row of its own.
LEMMA NewMarkFacts ==
  ASSUME TypeOK, FiniteRows, NEW stop \in Stops, NEW event \in {"enter", "exit"},
         NEW time \in Times, NEW source \in Sources, NEW stay \in Nat
  PROVE  /\ NewMark(stop, event, time, source, stay) \in Mark
         /\ \A m \in AllMarks : ~SameRow(m, NewMark(stop, event, time, source, stay))
<1> DEFINE rows == {x \in AllMarks : x.stop = stop /\ x.event = event}
           numbers == {m.copy : m \in rows}
<1>1. IsFiniteSet(numbers)
  <2>1. rows \in SUBSET AllMarks
    OBVIOUS
  <2>2. IsFiniteSet(rows)
    BY <2>1, FS_Subset DEF FiniteRows
  <2> HIDE DEF rows
  <2> QED BY <2>2, FieldsFinite
<1>2. NextCopy(stop, event) = Unused(numbers)
  BY DEF NextCopy
<1>3. Unused(numbers) \in Nat \ {0} /\ Unused(numbers) \notin numbers
  BY <1>1, UnusedFacts
<1>4. \A m \in AllMarks : m.stop = stop /\ m.event = event => m.copy # NextCopy(stop, event)
  BY <1>2, <1>3
<1>5. NextCopy(stop, event) \in Nat \ {0}
  BY <1>2, <1>3
<1> HIDE DEF rows, numbers
<1>6. NewMark(stop, event, time, source, stay) \in Mark
  BY <1>5 DEF NewMark, Mark
<1>7. ASSUME NEW m \in AllMarks PROVE ~SameRow(m, NewMark(stop, event, time, source, stay))
  <2>1. m.row = "mark"
    <3>1. AllMarks \subseteq Mark
      BY DEF AllMarks, TypeOK, RecTypeOK
    <3> QED BY <3>1 DEF Mark
  <2> QED BY <1>4, <2>1 DEF SameRow, NewMark
<1> QED BY <1>6, <1>7

\* And so is a new fine.
LEMMA NewFineFacts ==
  ASSUME TypeOK, FiniteRows, NEW stop \in Checkpoints,
         NEW status \in {"TENTATIVE", "PENDING", "ANNULLED"}
  PROVE  /\ NewFine(stop, status) \in Fine
         /\ \A f \in AllFines : f.no # NewFine(stop, status).no
<1> DEFINE numbers == {f.no : f \in AllFines}
<1>1. IsFiniteSet(numbers)
  BY FieldsFinite DEF FiniteRows
<1>2. NextNo \in Nat \ {0} /\ NextNo \notin numbers
  <2> HIDE DEF numbers
  <2>1. Unused(numbers) \in Nat \ {0} /\ Unused(numbers) \notin numbers
    BY <1>1, UnusedFacts
  <2> QED BY <2>1 DEF NextNo, numbers
<1> QED BY <1>2 DEF NewFine, Fine

\* What a transaction adds to its draft leaves finitely many rows, and so does a merge.
LEMMA DraftTyped ==
  ASSUME TypeOK, FiniteRows, NEW a \in Actors, NEW d \in Draft,
         draft' = [draft EXCEPT ![a] = d], NEW M, IsFiniteSet(M), NEW F, IsFiniteSet(F),
         d.marks \subseteq draft[a].marks \cup M, d.fines \subseteq draft[a].fines \cup F,
         marks' \subseteq marks \cup draft[a].marks, fines' \subseteq fines \cup draft[a].fines
  PROVE  /\ draft' \in [Actors -> Draft]
         /\ FiniteRows'
         /\ marks' \subseteq Mark /\ fines' \subseteq Fine
<1>1. draft \in [Actors -> Draft] /\ marks \subseteq Mark /\ fines \subseteq Fine
  BY DEF TypeOK, RecTypeOK, Draft
<1>2. draft' \in [Actors -> Draft] /\ draft'[a] = d /\ \A b \in Actors \ {a} : draft'[b] = draft[b]
  BY <1>1
<1>3. AllMarks' \subseteq AllMarks \cup M
  <2> SUFFICES ASSUME NEW m \in AllMarks' PROVE m \in AllMarks \cup M
    OBVIOUS
  <2>1. CASE m \in marks'
    BY <2>1 DEF AllMarks
  <2>2. CASE m \notin marks'
    <3>1. PICK b \in Actors : m \in draft'[b].marks
      BY <2>2 DEF AllMarks
    <3>2. m \in draft[b].marks \cup M
      BY <1>2, <3>1
    <3> QED BY <3>2 DEF AllMarks
  <2> QED BY <2>1, <2>2
<1>4. AllFines' \subseteq AllFines \cup F
  <2> SUFFICES ASSUME NEW f \in AllFines' PROVE f \in AllFines \cup F
    OBVIOUS
  <2>1. CASE f \in fines'
    BY <2>1 DEF AllFines
  <2>2. CASE f \notin fines'
    <3>1. PICK b \in Actors : f \in draft'[b].fines
      BY <2>2 DEF AllFines
    <3>2. f \in draft[b].fines \cup F
      BY <1>2, <3>1
    <3> QED BY <3>2 DEF AllFines
  <2> QED BY <2>1, <2>2
<1>5. IsFiniteSet(AllMarks \cup M) /\ IsFiniteSet(AllFines \cup F)
  BY FS_Union DEF FiniteRows
<1>6. FiniteRows'
  <2>1. AllMarks' \in SUBSET (AllMarks \cup M) /\ AllFines' \in SUBSET (AllFines \cup F)
    BY <1>3, <1>4
  <2>2. IsFiniteSet(AllMarks')
    BY <1>5, <2>1, FS_Subset
  <2>3. IsFiniteSet(AllFines')
    BY <1>5, <2>1, FS_Subset
  <2> QED BY <2>2, <2>3 DEF FiniteRows
<1>7. marks' \subseteq Mark /\ fines' \subseteq Fine
  <2>1. draft[a].marks \subseteq Mark /\ draft[a].fines \subseteq Fine
    BY <1>1 DEF Draft
  <2> QED BY <1>1, <2>1
<1> QED BY <1>2, <1>6, <1>7

\* A request that takes a step with its part of the types in order.
LEMMA RequestTurn ==
  ASSUME TInv, NEW r \in Requests, RecTypeOK', FiniteRows', UNCHANGED queueVars,
         NEW l, NEW t, NEW f, Ordered(l, t, f),
         pc' = [pc EXCEPT ![r] = l], todo' = [todo EXCEPT ![r] = t],
         found' = [found EXCEPT ![r] = f]
  PROVE  TInv'
<1>1. /\ pc \in [Actors -> InFlight \cup Running \cup {"idle", "done", "ack", "failed"}]
      /\ todo \in [Requests -> Seq(Reports)] /\ DOMAIN found = Actors
  BY DEF TInv, TypeOK, RecTypeOK
<1>2. /\ pc'[r] = l /\ todo'[r] = t /\ found'[r] = f
      /\ \A q \in Requests \ {r} : pc'[q] = pc[q] /\ todo'[q] = todo[q] /\ found'[q] = found[q]
      /\ \A j \in Jobs : pc'[j] = pc[j] /\ found'[j] = found[j]
  BY <1>1, CheckpointAssumptions DEF Actors
<1>3. l \in InFlight \cup {"idle", "done"}
  BY DEF Ordered, Reporting, InFlight
<1>4. pc' \in [Actors -> InFlight \cup Running \cup {"idle", "done", "ack", "failed"}]
  BY <1>1, <1>3
<1>5. \A q \in Requests : Ordered(pc[q], todo[q], found[q])'
  BY <1>2 DEF TInv, Ordered
<1>6. \A j \in Jobs : Paced(pc[j], attempts[j], stalls[j], mode[j], left[j], found[j])'
  BY <1>2 DEF TInv, Paced, queueVars
<1>7. TypeOK' /\ (left = [j \in Jobs |-> left[j]])'
  BY <1>4, <1>2 DEF TInv, TypeOK, queueVars
<1> QED BY <1>5, <1>6, <1>7 DEF TInv

\* A job that does.
LEMMA JobTurn ==
  ASSUME TInv, NEW j \in Jobs, RecTypeOK', FiniteRows', UNCHANGED todo,
         NEW l, pc' = [pc EXCEPT ![j] = l],
         attempts' \in [Jobs -> 0 .. MaxAttempts], stalls' \in [Jobs -> 0 .. 2],
         mode' \in [Jobs -> {"none", "complete", "blind", "incomplete"} \cup Checkpoints],
         audited' \in {"no", "complete", "incomplete"},
         \A i \in Jobs \ {j} : /\ attempts'[i] = attempts[i] /\ stalls'[i] = stalls[i]
                               /\ mode'[i] = mode[i] /\ left'[i] = left[i],
         \A a \in Actors \ {j} : found'[a] = found[a],
         left' = [i \in Jobs |-> left'[i]],
         Paced(l, attempts'[j], stalls'[j], mode'[j], left'[j], found'[j])
  PROVE  TInv'
<1>1. pc \in [Actors -> InFlight \cup Running \cup {"idle", "done", "ack", "failed"}]
  BY DEF TInv, TypeOK
<1>2. /\ pc'[j] = l /\ \A a \in Actors \ {j} : pc'[a] = pc[a]
      /\ j \in Actors /\ \A r \in Requests : r \in Actors \ {j}
      /\ \A i \in Jobs : i \in Actors
  BY <1>1, CheckpointAssumptions DEF Actors
<1>3. l \in Running \cup {"idle", "done", "ack", "failed"}
  BY DEF Paced
<1>4. pc' \in [Actors -> InFlight \cup Running \cup {"idle", "done", "ack", "failed"}]
  BY <1>1, <1>3
<1>5. \A q \in Requests : Ordered(pc[q], todo[q], found[q])'
  BY <1>2 DEF TInv, Ordered
<1>6. \A i \in Jobs : Paced(pc[i], attempts[i], stalls[i], mode[i], left[i], found[i])'
  <2> TAKE i \in Jobs
  <2>1. CASE i = j
    BY <1>2, <2>1 DEF Paced
  <2>2. CASE i # j
    BY <1>2, <2>2 DEF TInv, Paced
  <2> QED BY <2>1, <2>2
<1>7. \A i \in Jobs : IF pc'[i] = "confirm" THEN left'[i] \subseteq Fine ELSE left'[i] \subseteq Stops
  BY <1>6 DEF Paced
<1>8. TypeOK'
  BY <1>4, <1>7 DEF TypeOK
<1> QED BY <1>5, <1>6, <1>8 DEF TInv

\* A report in hand.
LEMMA HandFacts ==
  ASSUME TInv, NEW r \in Requests
  PROVE  /\ r \in Actors /\ r \notin Jobs
         /\ todo[r] \in Seq(Reports)
         /\ todo[r] # <<>> => Head(todo[r]) \in Reports /\ Tail(todo[r]) \in Seq(Reports)
         /\ found[r] \in Mark \cup Fine \cup {NULL}
         /\ draft[r] \in Draft
         /\ pc[r] = "record" => todo[r] # <<>>
         /\ pc[r] \in {"issue", "judge", "late", "onTime"} =>
              todo[r] # <<>> /\ Head(todo[r]).stop \in Checkpoints
         /\ pc[r] = "complete" => todo[r] # <<>>
<1>1. r \in Actors /\ r \notin Jobs
  BY CheckpointAssumptions DEF Actors
<1>2. /\ todo[r] \in Seq(Reports) /\ found[r] \in Mark \cup Fine \cup {NULL}
      /\ draft[r] \in Draft
  BY <1>1 DEF TInv, TypeOK, RecTypeOK, Draft
<1>3. todo[r] # <<>> => Head(todo[r]) \in Reports /\ Tail(todo[r]) \in Seq(Reports)
  BY <1>2, HeadTailProperties
<1> QED BY <1>1, <1>2, <1>3 DEF TInv, Ordered, Reporting

\* Steps that write no row keep the rows finite.
LEMMA SameRows ==
  ASSUME FiniteRows, UNCHANGED <<marks, fines, draft>>
  PROVE  FiniteRows'
BY DEF FiniteRows, AllMarks, AllFines

LEMMA TypesInit == Init => TInv
<1> SUFFICES ASSUME Init PROVE TInv
  OBVIOUS
<1>1. AllMarks = {} /\ AllFines = {}
  BY DEF Init, RecInit, AllMarks, AllFines, NoDraft
<1>2. FiniteRows
  BY <1>1, FS_EmptySet DEF FiniteRows
<1>3. RecTypeOK
  BY EmptySeq DEF Init, RecInit, RecTypeOK, NoDraft
<1>4. MaxAttempts \in Nat \ {0}
  BY AuditAssumptions
<1>5. TypeOK /\ left = [j \in Jobs |-> left[j]]
  BY <1>3, <1>4 DEF Init, RecInit, TypeOK, Actors
<1>6. \A r \in Requests : Ordered(pc[r], todo[r], found[r])
  BY DEF Init, RecInit, Ordered, Reporting, Actors
<1>7. \A j \in Jobs : Paced(pc[j], attempts[j], stalls[j], mode[j], left[j], found[j])
  BY <1>4 DEF Init, RecInit, Paced, Running, Actors
<1> QED BY <1>2, <1>5, <1>6, <1>7 DEF TInv

\* A report that is dealt with leaves nothing in hand.
LEMMA AdvanceTyped ==
  ASSUME TInv, NEW r \in Requests, Advance(r), todo[r] # <<>>,
         draft' \in [Actors -> Draft], FiniteRows',
         UNCHANGED <<linked, round, marks, fines, failed, kind, queueVars>>,
         queued' \subseteq Jobs,
         loaded' \in [Requests -> {"NONE", "PENDING", "IN_PROGRESS", "COMPLETED"}]
  PROVE  TInv'
<1>1. Tail(todo[r]) \in Seq(Reports) /\ r \in Actors
  BY HandFacts
<1>2. /\ pc' = [pc EXCEPT ![r] = "find"] /\ todo' = [todo EXCEPT ![r] = Tail(todo[r])]
      /\ found' = [found EXCEPT ![r] = NULL]
  BY DEF Advance
<1>3. Ordered("find", Tail(todo[r]), NULL)
  BY DEF Ordered, Reporting
<1>4. RecTypeOK'
  BY <1>1, <1>2 DEF TInv, TypeOK, RecTypeOK, Draft
<1> QED BY <1>2, <1>3, <1>4, RequestTurn

\* And one that needs another step leaves itself.
LEMMA GoOnTyped ==
  ASSUME TInv, NEW r \in Requests, NEW l, GoOn(r, l),
         Ordered(l, todo[r], found[r]),
         draft' \in [Actors -> Draft], FiniteRows',
         UNCHANGED <<linked, round, marks, fines, failed, kind, loaded, queued, queueVars>>
  PROVE  TInv'
<1>1. pc' = [pc EXCEPT ![r] = l] /\ todo' = todo /\ found' = found
  BY DEF GoOn
<1>2. todo' = [todo EXCEPT ![r] = todo[r]] /\ found' = [found EXCEPT ![r] = found[r]]
  BY <1>1 DEF TInv, TypeOK, RecTypeOK
<1>3. RecTypeOK'
  BY <1>1 DEF TInv, TypeOK, RecTypeOK, Draft
<1> QED BY <1>1, <1>2, <1>3, RequestTurn

\* A draft with one more mark, and one with one more fine.
LEMMA MarkDrafted ==
  ASSUME TInv, NEW a \in Actors, NEW m \in Mark, UNCHANGED <<marks, fines>>,
         draft' = [draft EXCEPT ![a] = WriteMark(@, m)]
  PROVE  draft' \in [Actors -> Draft] /\ FiniteRows'
<1>1. draft[a] \in Draft /\ TypeOK /\ FiniteRows
  BY DEF TInv, TypeOK, RecTypeOK, Draft
<1> DEFINE d == WriteMark(draft[a], m)
<1>2. /\ d \in Draft /\ d.marks = Overlay(draft[a].marks, {m}) /\ d.fines = draft[a].fines
  <2>1. Overlay(draft[a].marks, {m}) \subseteq draft[a].marks \cup {m}
    BY OverlayFacts
  <2> QED BY <1>1, <2>1 DEF WriteMark, Draft
<1>3. d.marks \subseteq draft[a].marks \cup {m} /\ d.fines \subseteq draft[a].fines \cup {}
  BY <1>2, OverlayFacts
<1>4. draft' = [draft EXCEPT ![a] = d]
  OBVIOUS
<1>5. IsFiniteSet({m}) /\ IsFiniteSet({})
  BY FS_Singleton, FS_EmptySet
<1> HIDE DEF d
<1> QED BY <1>1, <1>2, <1>3, <1>4, <1>5, DraftTyped

\* g is the row that was read, where one was: the history of the draft depends on it.
LEMMA FineDrafted ==
  ASSUME TInv, NEW a \in Actors, NEW f \in Fine, NEW g, UNCHANGED <<marks, fines>>,
         \/ draft' = [draft EXCEPT ![a] = WriteFine(@, f)]
         \/ draft' = [draft EXCEPT ![a] = Saving(a, WriteFine(@, f), g)]
  PROVE  draft' \in [Actors -> Draft] /\ FiniteRows'
<1>1. draft[a] \in Draft /\ TypeOK /\ FiniteRows
  BY DEF TInv, TypeOK, RecTypeOK, Draft
<1>2. PICK d : /\ d = WriteFine(draft[a], f) \/ d = Saving(a, WriteFine(draft[a], f), g)
               /\ draft' = [draft EXCEPT ![a] = d]
  OBVIOUS
<1>3. d \in Draft /\ d.fines = Overlay(draft[a].fines, {f}) /\ d.marks = draft[a].marks
  <2>1. Overlay(draft[a].fines, {f}) \subseteq draft[a].fines \cup {f}
    BY OverlayFacts
  <2>2. /\ WriteFine(draft[a], f) \in Draft
        /\ WriteFine(draft[a], f).fines = Overlay(draft[a].fines, {f})
        /\ WriteFine(draft[a], f).marks = draft[a].marks
    BY <1>1, <2>1 DEF WriteFine, Draft
  <2>3. CASE d = WriteFine(draft[a], f)
    BY <2>2, <2>3
  <2>4. CASE d = Saving(a, WriteFine(draft[a], f), g)
    <3> DEFINE w == WriteFine(draft[a], f)
    <3>1. PICK b \in BOOLEAN : b <=> (w.stale \/ (g # NULL /\ g \notin Fines(a)))
      OBVIOUS
    <3>2. d = [w EXCEPT !.stale = b]
      BY <2>4, <3>1, <2>2, Zenon DEF Saving
    <3> HIDE DEF w
    <3> QED BY <2>2, <3>2 DEF Draft, w
  <2> QED BY <1>2, <2>3, <2>4
<1>4. d.fines \subseteq draft[a].fines \cup {f} /\ d.marks \subseteq draft[a].marks \cup {}
  BY <1>3, OverlayFacts
<1>5. IsFiniteSet({f}) /\ IsFiniteSet({})
  BY FS_Singleton, FS_EmptySet
<1> QED BY <1>1, <1>2, <1>3, <1>4, <1>5, DraftTyped

LEMMA NothingDrafted ==
  ASSUME TInv, UNCHANGED <<marks, fines, draft>>
  PROVE  draft' \in [Actors -> Draft] /\ FiniteRows'
BY SameRows DEF TInv, TypeOK, RecTypeOK, Draft

LEMMA TypesBegin ==
  ASSUME TInv, NEW r \in Requests, Begin(r), UNCHANGED queueVars
  PROVE  TInv'
<1>1. PICK k \in {"WEBHOOK", "CONCILIATE", "SYNC"}, t \in Lists : BeginAs(r, k, t)
  BY DEF Begin, BeginWebhook, BeginConciliation, BeginSync, DeviceEvents, AppLists
<1>2. t \in Seq(Reports)
  BY CheckpointAssumptions
<1>3. /\ pc' = [pc EXCEPT ![r] = "find"] /\ todo' = [todo EXCEPT ![r] = t]
      /\ kind' = [kind EXCEPT ![r] = k] /\ loaded' = [loaded EXCEPT ![r] = round]
      /\ UNCHANGED <<linked, round, marks, fines, queued, failed, found, draft>>
  BY <1>1 DEF BeginAs, tables
<1>4. found' = [found EXCEPT ![r] = found[r]]
  BY <1>3 DEF TInv, TypeOK, RecTypeOK
<1>5. Ordered("find", t, found[r])
  BY DEF Ordered, Reporting
<1>6. FiniteRows' /\ RecTypeOK'
  <2>1. FiniteRows'
    BY <1>3, SameRows DEF TInv
  <2>2. RecTypeOK'
    BY <1>2, <1>3 DEF TInv, TypeOK, RecTypeOK
  <2> QED BY <2>1, <2>2
<1> QED BY <1>3, <1>4, <1>5, <1>6, RequestTurn

LEMMA TypesFind ==
  ASSUME TInv, NEW r \in Requests, Find(r), UNCHANGED queueVars
  PROVE  TInv'
<1> DEFINE x == Head(todo[r])
<1>1. /\ pc' = [pc EXCEPT ![r] = "record"] /\ todo[r] # <<>>
      /\ UNCHANGED <<linked, round, marks, fines, queued, failed, kind, todo, loaded, draft>>
      /\ todo' = [todo EXCEPT ![r] = todo[r]]
  BY DEF Find, tables, TInv, TypeOK, RecTypeOK
<1>2. PICK m : /\ found' = [found EXCEPT ![r] = m]
               /\ m = NULL \/ m \in Existing(r, x.stop, x.event)
  BY DEF Find
<1>3. m # NULL => m \in Mark /\ m.stop = x.stop /\ m.event = x.event
  <2>1. Marks(r) \subseteq Mark
    BY OverlayFacts, HandFacts DEF Marks, Draft, TInv, TypeOK, RecTypeOK
  <2> QED BY <1>2, <2>1 DEF Existing
<1>4. Ordered("record", todo[r], m)
  BY <1>1, <1>3 DEF Ordered, Reporting
<1>5. FiniteRows' /\ RecTypeOK'
  <2>1. FiniteRows'
    BY <1>1, SameRows DEF TInv
  <2>2. m \in Mark \cup Fine \cup {NULL}
    BY <1>3
  <2>3. RecTypeOK'
    BY <1>1, <1>2, <2>2 DEF TInv, TypeOK, RecTypeOK
  <2> QED BY <2>1, <2>3
<1> QED BY <1>1, <1>2, <1>4, <1>5, RequestTurn

LEMMA TypesSkip ==
  ASSUME TInv, NEW r \in Requests, Skip(r), UNCHANGED queueVars
  PROVE  TInv'
<1>1. /\ Advance(r) /\ pc[r] = "record"
      /\ UNCHANGED <<linked, round, marks, fines, queued, failed, kind, loaded, draft>>
  BY DEF Skip, tables
<1>2. /\ queued' \subseteq Jobs
      /\ loaded' \in [Requests -> {"NONE", "PENDING", "IN_PROGRESS", "COMPLETED"}]
  BY <1>1 DEF TInv, TypeOK, RecTypeOK
<1> QED BY <1>1, <1>2, HandFacts, NothingDrafted, AdvanceTyped

\* A mark of the report in hand, and what follows it.
LEMMA TypesMarked ==
  ASSUME TInv, NEW r \in Requests, pc[r] = "record", NEW m \in Mark,
         draft' = [draft EXCEPT ![r] = WriteMark(@, m)],
         Advance(r) \/ AfterNew(r, Head(todo[r])) \/ AfterRectified(r, Head(todo[r])),
         UNCHANGED <<tables, queued, failed, kind, loaded, queueVars>>
  PROVE  TInv'
<1>1. /\ todo[r] # <<>> /\ r \in Actors
      /\ UNCHANGED <<linked, round, marks, fines, queued, failed, kind, loaded, queueVars>>
  BY HandFacts DEF tables
<1>2. draft' \in [Actors -> Draft] /\ FiniteRows'
  BY <1>1, MarkDrafted
<1>3. CASE Advance(r)
  <2>1. /\ queued' \subseteq Jobs
        /\ loaded' \in [Requests -> {"NONE", "PENDING", "IN_PROGRESS", "COMPLETED"}]
    BY <1>1 DEF TInv, TypeOK, RecTypeOK
  <2> QED BY <1>1, <1>2, <1>3, <2>1, AdvanceTyped
<1>4. CASE \E l \in {"issue", "judge"} : Head(todo[r]).stop \in Checkpoints /\ GoOn(r, l)
  <2>1. PICK l \in {"issue", "judge"} : Head(todo[r]).stop \in Checkpoints /\ GoOn(r, l)
    BY <1>4
  <2>2. Ordered(l, todo[r], found[r])
    BY <1>1, <2>1 DEF Ordered, Reporting
  <2> QED BY <1>1, <1>2, <2>1, <2>2, GoOnTyped
<1>5. CASE GoOn(r, "complete")
  <2>1. Ordered("complete", todo[r], found[r])
    BY <1>1 DEF Ordered, Reporting
  <2> QED BY <1>1, <1>2, <1>5, <2>1, GoOnTyped
<1> QED BY <1>3, <1>4, <1>5 DEF AfterNew, AfterRectified

\* The rows a transaction sees are rows, and there are finitely many.
LEMMA RowsSeen ==
  ASSUME TInv, NEW a \in Actors
  PROVE  /\ Marks(a) \subseteq Mark /\ Marks(a) \subseteq AllMarks
         /\ Fines(a) \subseteq Fine /\ Fines(a) \subseteq AllFines
         /\ IsFiniteSet(Marks(a)) /\ IsFiniteSet(Fines(a))
<1>1. /\ marks \subseteq Mark /\ draft[a].marks \subseteq Mark
      /\ fines \subseteq Fine /\ draft[a].fines \subseteq Fine
  BY DEF TInv, TypeOK, RecTypeOK
<1>2. Marks(a) \subseteq marks \cup draft[a].marks /\ Fines(a) \subseteq fines \cup draft[a].fines
  BY OverlayFacts DEF Marks, Fines
<1>3. marks \cup draft[a].marks \subseteq AllMarks /\ fines \cup draft[a].fines \subseteq AllFines
  BY DEF AllMarks, AllFines
<1>4. Marks(a) \in SUBSET AllMarks /\ Fines(a) \in SUBSET AllFines
  BY <1>2, <1>3
<1>5. IsFiniteSet(Marks(a)) /\ IsFiniteSet(Fines(a))
  BY <1>4, FS_Subset DEF TInv, FiniteRows
<1> QED BY <1>1, <1>2, <1>4, <1>5

LEMMA TypesEntry ==
  ASSUME TInv, NEW r \in Requests, RecordEntry(r), UNCHANGED queueVars
  PROVE  TInv'
<1> DEFINE x == Head(todo[r])
           source == IF kind[r] = "SYNC" THEN "PWA" ELSE "TRACCAR"
           m == NewMark(x.stop, "enter", x.time, source, 0)
<1>1. /\ pc[r] = "record" /\ AfterNew(r, x)
      /\ draft' = [draft EXCEPT ![r] = WriteMark(@, m)]
      /\ UNCHANGED <<tables, queued, failed, kind, loaded>>
  BY DEF RecordEntry
<1>2. x.stop \in Stops /\ x.time \in Times /\ source \in Sources
  BY <1>1, HandFacts DEF Reports, Sources
<1>3. m \in Mark
  BY <1>2, NewMarkFacts DEF TInv
<1> QED BY <1>1, <1>3, TypesMarked

LEMMA StayTyped ==
  ASSUME TInv, NEW r \in Requests, NEW x \in Reports
  PROVE  Stay(r, x) \in Nat
<1> DEFINE rows == Existing(r, x.stop, "enter")
           entries == {m.time : m \in rows}
           last == CHOOSE t \in entries : \A u \in entries : u <= t
<1>1. x.time \in Nat
  BY CheckpointAssumptions DEF Reports
<1>2. entries \in SUBSET Nat /\ IsFiniteSet(entries)
  <2>1. rows \in SUBSET Marks(r) /\ r \in Actors
    BY DEF Existing, Actors
  <2>2. IsFiniteSet(rows) /\ rows \subseteq Mark
    <3> HIDE DEF rows
    <3> QED BY <2>1, RowsSeen, FS_Subset
  <2>3. entries \in SUBSET Nat
    BY <2>2, CheckpointAssumptions DEF Mark
  <2>4. IsFiniteSet(entries)
    <3> HIDE DEF rows
    <3> QED BY <2>2, FieldsFinite
  <2> QED BY <2>3, <2>4
<1>3. Stay(r, x) = IF entries # {} /\ x.time > last THEN x.time - last ELSE 0
  BY DEF Stay
<1> HIDE DEF entries
<1>4. entries # {} => last \in Nat
  BY <1>2, LastExists
<1> HIDE DEF last
<1> QED BY <1>1, <1>3, <1>4

LEMMA TypesExit ==
  ASSUME TInv, NEW r \in Requests, RecordExit(r), UNCHANGED queueVars
  PROVE  TInv'
<1> DEFINE x == Head(todo[r])
           m == NewMark(x.stop, "exit", x.time, "TRACCAR", Stay(r, x))
<1>1. /\ pc[r] = "record" /\ Advance(r)
      /\ draft' = [draft EXCEPT ![r] = WriteMark(@, m)]
      /\ UNCHANGED <<tables, queued, failed, kind, loaded>>
  BY DEF RecordExit
<1>2. x \in Reports /\ x.stop \in Stops /\ x.time \in Times
  BY <1>1, HandFacts DEF Reports
<1>3. m \in Mark
  <2>1. Stay(r, x) \in Nat
    BY <1>2, StayTyped
  <2> QED BY <1>2, <2>1, NewMarkFacts DEF TInv, Sources
<1> QED BY <1>1, <1>3, TypesMarked

LEMMA TypesRectify ==
  ASSUME TInv, NEW r \in Requests, Rectify(r), UNCHANGED queueVars
  PROVE  TInv'
<1> DEFINE x == Head(todo[r])
           m == Rectified(found[r], x.time)
<1>1. /\ pc[r] = "record" /\ AfterRectified(r, x) /\ found[r] # NULL
      /\ draft' = [draft EXCEPT ![r] = WriteMark(@, m)]
      /\ UNCHANGED <<tables, queued, failed, kind, loaded>>
  BY DEF Rectify
<1>2. x.time \in Times
  BY <1>1, HandFacts DEF Reports
<1>3. found[r] \in Mark
  BY <1>1 DEF TInv, Ordered
<1>4. m \in Mark
  BY <1>2, <1>3 DEF Rectified, Mark, Sources
<1> QED BY <1>1, <1>4, TypesMarked

LEMMA TypesIssue ==
  ASSUME TInv, NEW r \in Requests, IssueOfficial(r) \/ IssueTentative(r), UNCHANGED queueVars
  PROVE  TInv'
<1>1. PICK status \in {"TENTATIVE", "PENDING"} : Issue(r, status)
  BY DEF IssueOfficial, IssueTentative
<1>2. /\ pc[r] = "issue" /\ Advance(r)
      /\ UNCHANGED <<linked, round, marks, fines, queued, failed, kind, loaded>>
  BY <1>1 DEF Issue, tables
<1>3. todo[r] # <<>> /\ Head(todo[r]).stop \in Checkpoints /\ r \in Actors
  BY <1>2, HandFacts
<1>4. draft' \in [Actors -> Draft] /\ FiniteRows'
  <2>1. CASE UNCHANGED draft
    BY <1>2, <2>1, NothingDrafted
  <2>2. CASE draft' = [draft EXCEPT ![r] = WriteFine(@, NewFine(Head(todo[r]).stop, status))]
    <3>1. NewFine(Head(todo[r]).stop, status) \in Fine
      BY <1>3, NewFineFacts DEF TInv
    <3> QED BY <1>2, <1>3, <2>2, <3>1, FineDrafted
  <2> QED BY <1>1, <2>1, <2>2 DEF Issue
<1>5. /\ queued' \subseteq Jobs
      /\ loaded' \in [Requests -> {"NONE", "PENDING", "IN_PROGRESS", "COMPLETED"}]
  BY <1>2 DEF TInv, TypeOK, RecTypeOK
<1> QED BY <1>2, <1>3, <1>4, <1>5, AdvanceTyped

LEMMA TypesJudge ==
  ASSUME TInv, NEW r \in Requests, Judge(r), UNCHANGED queueVars
  PROVE  TInv'
<1>1. /\ pc[r] = "judge"
      /\ UNCHANGED <<linked, round, marks, fines, queued, failed, kind, loaded, draft>>
  BY DEF Judge, tables
<1>2. todo[r] # <<>> /\ Head(todo[r]).stop \in Checkpoints /\ r \in Actors
  BY <1>1, HandFacts
<1>3. CASE Advance(r)
  <2>1. /\ queued' \subseteq Jobs
        /\ loaded' \in [Requests -> {"NONE", "PENDING", "IN_PROGRESS", "COMPLETED"}]
    BY <1>1 DEF TInv, TypeOK, RecTypeOK
  <2> QED BY <1>1, <1>2, <1>3, <2>1, NothingDrafted, AdvanceTyped
<1>4. CASE /\ \E f \in IF Tentative(r) = {} THEN {NULL} ELSE Tentative(r) :
                 found' = [found EXCEPT ![r] = f]
           /\ \E s \in Starts(r) :
                pc' = [pc EXCEPT ![r] = IF Late(s, Head(todo[r]).stop, Head(todo[r]).time)
                                        THEN "late" ELSE "onTime"]
           /\ UNCHANGED todo
  <2>1. PICK f \in Tentative(r) \cup {NULL} : found' = [found EXCEPT ![r] = f]
    BY <1>4
  <2>2. f \in Fine \cup {NULL}
    BY <1>2, RowsSeen DEF Tentative
  <2>3. PICK l \in {"late", "onTime"} : pc' = [pc EXCEPT ![r] = l]
    BY <1>4
  <2>4. todo' = [todo EXCEPT ![r] = todo[r]]
    BY <1>4 DEF TInv, TypeOK, RecTypeOK
  <2>5. Ordered(l, todo[r], f)
    BY <1>2, <2>2, <2>3 DEF Ordered, Reporting
  <2>6. RecTypeOK'
    BY <1>1, <1>4, <2>1, <2>2 DEF TInv, TypeOK, RecTypeOK
  <2> QED BY <1>1, <2>1, <2>3, <2>4, <2>5, <2>6, NothingDrafted, RequestTurn
<1> QED BY <1>3, <1>4 DEF Judge

\* What a settlement writes is a fine.
LEMMA SettledTyped ==
  ASSUME TInv, NEW a \in Actors, NEW f \in Fine \cup {NULL}, NEW stop \in Checkpoints,
         NEW late \in BOOLEAN, UNCHANGED <<marks, fines>>,
         draft' = [draft EXCEPT ![a] = Saving(a, Settled(@, f, stop, late), f)]
  PROVE  draft' \in [Actors -> Draft] /\ FiniteRows'
<1>1. CASE f # NULL
  <2>1. f \in Fine
    BY <1>1
  <2>2. CASE late
    <3>1. [f EXCEPT !.status = "PENDING", !.stop = stop] \in Fine
      BY <2>1 DEF Fine
    <3>2. draft' = [draft EXCEPT ![a] =
                            Saving(a, WriteFine(@, [f EXCEPT !.status = "PENDING", !.stop = stop]), f)]
      BY <1>1, <2>2 DEF Settled
    <3> QED BY <3>1, <3>2, FineDrafted
  <2>3. CASE ~late
    <3>1. [f EXCEPT !.status = "ANNULLED", !.stop = stop] \in Fine
      BY <2>1 DEF Fine
    <3>2. draft' = [draft EXCEPT ![a] =
                            Saving(a, WriteFine(@, [f EXCEPT !.status = "ANNULLED", !.stop = stop]), f)]
      BY <1>1, <2>3 DEF Settled
    <3> QED BY <3>1, <3>2, FineDrafted
  <2> QED BY <2>2, <2>3
<1>2. CASE f = NULL /\ late
  <2>1. NewFine(stop, "PENDING") \in Fine
    BY NewFineFacts DEF TInv
  <2>2. draft' = [draft EXCEPT ![a] = Saving(a, WriteFine(@, NewFine(stop, "PENDING")), f)]
    BY <1>2 DEF Settled
  <2> QED BY <2>1, <2>2, FineDrafted
<1>3. CASE f = NULL /\ ~late
  <2>1. draft' = draft
    <3>1. draft \in [Actors -> Draft]
      BY DEF TInv, TypeOK, RecTypeOK, Draft
    <3>2. Settled(draft[a], f, stop, late) = draft[a]
      BY <1>3 DEF Settled
    <3>3. Saving(a, draft[a], f) = draft[a]
      <4>1. draft[a].stale \in BOOLEAN
        BY <3>1 DEF Draft
      <4>2. (draft[a].stale \/ (f # NULL /\ f \notin Fines(a))) = draft[a].stale
        BY <1>3, <4>1
      <4>3. Saving(a, draft[a], f) = [draft[a] EXCEPT !.stale = draft[a].stale]
        BY <4>2, Zenon DEF Saving
      <4> QED BY <3>1, <4>3 DEF Draft
    <3> QED BY <3>1, <3>2, <3>3
  <2> QED BY <2>1, NothingDrafted
<1> QED BY <1>1, <1>2, <1>3

LEMMA TypesSettle ==
  ASSUME TInv, NEW r \in Requests, Settle(r), UNCHANGED queueVars
  PROVE  TInv'
<1>1. /\ pc[r] \in {"late", "onTime"} /\ Advance(r)
      /\ UNCHANGED <<linked, round, marks, fines, queued, failed, kind, loaded>>
      /\ draft' = [draft EXCEPT ![r] =
                      Saving(r, Settled(@, found[r], Head(todo[r]).stop, pc[r] = "late"), found[r])]
  BY DEF Settle, tables
<1>2. todo[r] # <<>> /\ Head(todo[r]).stop \in Checkpoints /\ r \in Actors
  BY <1>1, HandFacts
<1>3. found[r] \in Fine \cup {NULL}
  BY <1>1 DEF TInv, Ordered
<1>4. draft' \in [Actors -> Draft] /\ FiniteRows'
  <2>1. PICK f \in Fine \cup {NULL}, stop \in Checkpoints, late \in BOOLEAN :
               f = found[r] /\ stop = Head(todo[r]).stop /\ late = (pc[r] = "late")
    BY <1>2, <1>3, Zenon
  <2>2. draft' = [draft EXCEPT ![r] = Saving(r, Settled(@, f, stop, late), f)]
    BY <1>1, <2>1, Zenon
  <2>3. UNCHANGED <<marks, fines>>
    BY <1>1
  <2> QED BY <1>2, <2>2, <2>3, SettledTyped
<1>5. /\ queued' \subseteq Jobs
      /\ loaded' \in [Requests -> {"NONE", "PENDING", "IN_PROGRESS", "COMPLETED"}]
  BY <1>1 DEF TInv, TypeOK, RecTypeOK
<1> QED BY <1>1, <1>2, <1>4, <1>5, AdvanceTyped

LEMMA TypesComplete ==
  ASSUME TInv, NEW r \in Requests, CompleteMatched(r) \/ CompleteNamed(r), UNCHANGED queueVars
  PROVE  TInv'
<1>1. PICK status \in {"NONE", "PENDING", "IN_PROGRESS", "COMPLETED"} : Complete(r, status)
  <2>1. r \in Actors
    BY HandFacts
  <2>2. loaded[r] \in {"NONE", "PENDING", "IN_PROGRESS", "COMPLETED"}
    BY DEF TInv, TypeOK, RecTypeOK
  <2>3. Status(r) \in {"NONE", "PENDING", "IN_PROGRESS", "COMPLETED"}
    BY <2>1 DEF Status, TInv, TypeOK, RecTypeOK
  <2> QED BY <2>2, <2>3 DEF CompleteMatched, CompleteNamed
<1>2. /\ pc[r] = "complete" /\ Advance(r) /\ r \in Actors /\ todo[r] # <<>>
      /\ UNCHANGED <<linked, round, marks, fines, failed, kind>>
  BY <1>1, HandFacts DEF Complete, tables
<1>3. CASE status = "IN_PROGRESS"
  <2>1. /\ Publish /\ draft' = [draft EXCEPT ![r] = WriteRound(@, "COMPLETED")]
        /\ loaded' = [loaded EXCEPT ![r] = "COMPLETED"]
    BY <1>1, <1>3 DEF Complete
  <2>2. queued' \subseteq Jobs
    BY <2>1 DEF Publish, TInv, TypeOK, RecTypeOK
  <2>3. loaded' \in [Requests -> {"NONE", "PENDING", "IN_PROGRESS", "COMPLETED"}]
    BY <2>1 DEF TInv, TypeOK, RecTypeOK
  <2> DEFINE d == WriteRound(draft[r], "COMPLETED")
  <2>4. draft[r] \in Draft
    BY HandFacts
  <2>5. /\ d \in Draft /\ d.marks = draft[r].marks /\ d.fines = draft[r].fines
    BY <2>4 DEF WriteRound, Draft
  <2>6. draft' = [draft EXCEPT ![r] = d]
    BY <2>1
  <2> HIDE DEF d
  <2>7. /\ d.marks \subseteq draft[r].marks \cup {} /\ d.fines \subseteq draft[r].fines \cup {}
        /\ IsFiniteSet({})
    BY <2>5, FS_EmptySet
  <2>8. draft' \in [Actors -> Draft] /\ FiniteRows'
    BY <1>2, <2>5, <2>6, <2>7, DraftTyped DEF TInv
  <2> QED BY <1>2, <2>2, <2>3, <2>8, AdvanceTyped
<1>4. CASE status # "IN_PROGRESS"
  <2>1. UNCHANGED <<queued, draft, loaded>>
    BY <1>1, <1>4 DEF Complete
  <2>2. /\ queued' \subseteq Jobs
        /\ loaded' \in [Requests -> {"NONE", "PENDING", "IN_PROGRESS", "COMPLETED"}]
    BY <2>1 DEF TInv, TypeOK, RecTypeOK
  <2> QED BY <1>2, <2>1, <2>2, NothingDrafted, AdvanceTyped
<1> QED BY <1>3, <1>4

\* A transaction that ends keeps nothing.
LEMMA LeaveTyped ==
  ASSUME TInv, NEW r \in Requests, Leave(r), UNCHANGED <<linked, queueVars>>,
         draft' = [draft EXCEPT ![r] = NoDraft],
         marks' \subseteq marks \cup draft[r].marks, fines' \subseteq fines \cup draft[r].fines,
         round' \in {"PENDING", "IN_PROGRESS", "COMPLETED"}, queued' \subseteq Jobs,
         failed' \in BOOLEAN
  PROVE  TInv'
<1>1. r \in Actors
  BY HandFacts
<1>2. /\ pc' = [pc EXCEPT ![r] = "done"] /\ kind' = [kind EXCEPT ![r] = "NONE"]
      /\ todo' = [todo EXCEPT ![r] = <<>>] /\ loaded' = [loaded EXCEPT ![r] = "NONE"]
      /\ found' = [found EXCEPT ![r] = NULL]
  BY DEF Leave
<1>3. NoDraft \in Draft /\ NoDraft.marks = {} /\ NoDraft.fines = {}
  BY DEF NoDraft, Draft
<1>4. /\ draft' \in [Actors -> Draft] /\ FiniteRows'
      /\ marks' \subseteq Mark /\ fines' \subseteq Fine
  <2>1. /\ NoDraft.marks \subseteq draft[r].marks \cup {}
        /\ NoDraft.fines \subseteq draft[r].fines \cup {} /\ IsFiniteSet({})
    BY <1>3, FS_EmptySet
  <2> QED BY <1>1, <1>3, <2>1, DraftTyped DEF TInv
<1>5. RecTypeOK'
  BY <1>2, <1>4, EmptySeq DEF TInv, TypeOK, RecTypeOK, Draft
<1>6. Ordered("done", <<>>, NULL)
  BY DEF Ordered, Reporting
<1> QED BY <1>2, <1>4, <1>5, <1>6, RequestTurn

LEMMA TypesCommit ==
  ASSUME TInv, NEW r \in Requests, Commit(r), UNCHANGED queueVars
  PROVE  TInv'
<1>1. /\ Merge(r) /\ Leave(r) /\ UNCHANGED <<queued, failed>> /\ r \in Actors
  BY HandFacts DEF Commit
<1>2. /\ UNCHANGED linked /\ draft' = [draft EXCEPT ![r] = NoDraft]
      /\ marks' \subseteq marks \cup draft[r].marks /\ fines' \subseteq fines \cup draft[r].fines
      /\ round' = Status(r)
  BY <1>1, OverlayFacts DEF Merge
<1>3. /\ Status(r) \in {"PENDING", "IN_PROGRESS", "COMPLETED"} /\ queued \subseteq Jobs
      /\ failed \in BOOLEAN
  BY <1>1 DEF Status, TInv, TypeOK, RecTypeOK
<1>4. queued' \subseteq Jobs /\ failed' \in BOOLEAN /\ round' \in {"PENDING", "IN_PROGRESS", "COMPLETED"}
  <2>1. queued' \subseteq Jobs /\ round' \in {"PENDING", "IN_PROGRESS", "COMPLETED"}
    BY <1>1, <1>2, <1>3
  <2>2. failed' \in BOOLEAN
    BY <1>1, <1>3, Zenon
  <2> QED BY <2>1, <2>2
<1> QED BY <1>1, <1>2, <1>4, LeaveTyped

LEMMA TypesFail ==
  ASSUME TInv, NEW r \in Requests, Fail(r), UNCHANGED queueVars
  PROVE  TInv'
<1>1. /\ Leave(r) /\ draft' = [draft EXCEPT ![r] = NoDraft] /\ failed' = TRUE
      /\ UNCHANGED <<linked, round, marks, fines, queued>>
  BY DEF Fail, tables
<1>2. queued' \subseteq Jobs /\ round' \in {"PENDING", "IN_PROGRESS", "COMPLETED"}
  BY <1>1 DEF TInv, TypeOK, RecTypeOK
<1>3. failed' \in BOOLEAN
  BY <1>1
<1> QED BY <1>1, <1>2, <1>3, LeaveTyped

\* What happens beside the transactions.
LEMMA BesideTyped ==
  ASSUME TInv, UNCHANGED <<linked, marks, failed, pc, memory, found, draft, queueVars>>,
         round' \in {"PENDING", "IN_PROGRESS", "COMPLETED"}, queued' \subseteq Jobs,
         fines' \subseteq Fine, NEW F, IsFiniteSet(F), fines' \subseteq fines \cup F
  PROVE  TInv'
<1>1. UNCHANGED <<kind, todo, loaded>>
  BY DEF memory
<1>2. FiniteRows'
  <2>1. AllMarks' = AllMarks
    BY DEF AllMarks
  <2>2. AllFines' \in SUBSET (AllFines \cup F)
    BY DEF AllFines
  <2>3. IsFiniteSet(AllFines')
    BY <2>2, FS_Union, FS_Subset DEF TInv, FiniteRows
  <2> QED BY <2>1, <2>3 DEF TInv, FiniteRows
<1>3. RecTypeOK'
  BY <1>1 DEF TInv, TypeOK, RecTypeOK
<1>4. TypeOK' /\ (left = [j \in Jobs |-> left[j]])'
  BY <1>3 DEF TInv, TypeOK, queueVars
<1>5. \A r \in Requests : Ordered(pc[r], todo[r], found[r])'
  BY <1>1 DEF TInv, Ordered
<1>6. \A j \in Jobs : Paced(pc[j], attempts[j], stalls[j], mode[j], left[j], found[j])'
  BY DEF TInv, Paced, queueVars
<1> QED BY <1>2, <1>4, <1>5, <1>6 DEF TInv

LEMMA TypesPress ==
  ASSUME TInv, Press, UNCHANGED queueVars
  PROVE  TInv'
<1>1. /\ UNCHANGED <<linked, marks, fines, failed, pc, memory, found, draft>>
      /\ round' \in {"PENDING", "IN_PROGRESS", "COMPLETED"}
  BY DEF Press
<1>2. queued' \subseteq Jobs /\ fines' \subseteq Fine
  BY DEF Press, Publish, TInv, TypeOK, RecTypeOK
<1>3. IsFiniteSet({}) /\ fines' \subseteq fines \cup {}
  BY <1>1, FS_EmptySet
<1> QED BY <1>1, <1>2, <1>3, BesideTyped

LEMMA TypesAnnul ==
  ASSUME TInv, AnnulTentative, UNCHANGED queueVars
  PROVE  TInv'
<1>1. PICK T \in SUBSET {f \in fines : f.status = "TENTATIVE"} :
        fines' = Overlay(fines, {[f EXCEPT !.status = "ANNULLED"] : f \in T})
  BY DEF AnnulTentative
<1> DEFINE F == {[f EXCEPT !.status = "ANNULLED"] : f \in T}
<1>2. UNCHANGED <<linked, round, marks, queued, failed, pc, memory, found, draft>>
  BY DEF AnnulTentative
<1>3. IsFiniteSet(F)
  <2>1. T \in SUBSET AllFines
    BY DEF AllFines
  <2>2. IsFiniteSet(T)
    BY <2>1, FS_Subset DEF TInv, FiniteRows
  <2>3. [f \in T |-> [f EXCEPT !.status = "ANNULLED"]] \in Surjection(T, F)
    BY DEF Surjection
  <2> QED BY <2>2, <2>3, FS_Surjection
<1>4. F \subseteq Fine
  <2>1. T \subseteq Fine
    BY DEF TInv, TypeOK, RecTypeOK
  <2> QED BY <2>1 DEF Fine
<1> HIDE DEF F
<1>5. fines' \subseteq fines \cup F /\ fines' \subseteq Fine
  <2>1. fines' = Overlay(fines, F) /\ fines \subseteq Fine
    BY <1>1 DEF F, TInv, TypeOK, RecTypeOK
  <2> QED BY <1>4, <2>1, OverlayFacts
<1>6. round' \in {"PENDING", "IN_PROGRESS", "COMPLETED"} /\ queued' \subseteq Jobs
  BY <1>2 DEF TInv, TypeOK, RecTypeOK
<1> QED BY <1>2, <1>3, <1>5, <1>6, BesideTyped

\* A job in hand.
LEMMA JobFacts ==
  ASSUME TInv, NEW j \in Jobs
  PROVE  /\ j \in Actors
         /\ MaxAttempts \in Nat /\ attempts[j] \in 0 .. MaxAttempts /\ stalls[j] \in 0 .. 2
         /\ Paced(pc[j], attempts[j], stalls[j], mode[j], left[j], found[j])
         /\ found[j] \in Mark \cup Fine \cup {NULL} /\ draft[j] \in Draft
<1>1. j \in Actors /\ MaxAttempts \in Nat
  BY AuditAssumptions DEF Actors
<1>2. found[j] \in Mark \cup Fine \cup {NULL} /\ draft[j] \in Draft
  BY <1>1 DEF TInv, TypeOK, RecTypeOK, Draft
<1> QED BY <1>1, <1>2 DEF TInv, TypeOK

\* A job's step, given how each of its variables changes.
LEMMA JobStep ==
  ASSUME TInv, NEW j \in Jobs, RecTypeOK', FiniteRows', UNCHANGED todo,
         NEW l, pc' = [pc EXCEPT ![j] = l],
         NEW a \in 0 .. MaxAttempts, attempts' = [attempts EXCEPT ![j] = a],
         NEW s \in 0 .. 2, stalls' = [stalls EXCEPT ![j] = s],
         NEW m \in {"none", "complete", "blind", "incomplete"} \cup Checkpoints,
         mode' = [mode EXCEPT ![j] = m],
         NEW w, left' = [left EXCEPT ![j] = w],
         NEW f, found' = [found EXCEPT ![j] = f],
         audited' \in {"no", "complete", "incomplete"},
         Paced(l, a, s, m, w, f)
  PROVE  TInv'
<1>0. left = [i \in Jobs |-> left[i]]
  BY DEF TInv
<1>1. /\ attempts \in [Jobs -> 0 .. MaxAttempts] /\ stalls \in [Jobs -> 0 .. 2]
      /\ mode \in [Jobs -> {"none", "complete", "blind", "incomplete"} \cup Checkpoints]
      /\ DOMAIN found = Actors /\ j \in Actors
  BY JobFacts DEF TInv, TypeOK, RecTypeOK
<1>2. /\ attempts' \in [Jobs -> 0 .. MaxAttempts] /\ stalls' \in [Jobs -> 0 .. 2]
      /\ mode' \in [Jobs -> {"none", "complete", "blind", "incomplete"} \cup Checkpoints]
  BY <1>1
<1>3. \A i \in Jobs \ {j} : /\ attempts'[i] = attempts[i] /\ stalls'[i] = stalls[i]
                            /\ mode'[i] = mode[i] /\ left'[i] = left[i]
  BY <1>1, <1>0
<1>4. \A b \in Actors \ {j} : found'[b] = found[b]
  BY <1>1
<1>5. Paced(l, attempts'[j], stalls'[j], mode'[j], left'[j], found'[j])
  BY <1>1, <1>0
<1>6. left' = [i \in Jobs |-> left'[i]]
  BY <1>0
<1> QED BY <1>2, <1>3, <1>4, <1>5, <1>6, JobTurn

\* Leaving a variable alone is a way of writing it.
LEMMA SameInJob ==
  ASSUME TInv, NEW j \in Jobs
  PROVE  /\ attempts = [attempts EXCEPT ![j] = attempts[j]]
         /\ stalls = [stalls EXCEPT ![j] = stalls[j]]
         /\ mode = [mode EXCEPT ![j] = mode[j]]
         /\ found = [found EXCEPT ![j] = found[j]]
         /\ left = [left EXCEPT ![j] = left[j]]
         /\ mode[j] \in {"none", "complete", "blind", "incomplete"} \cup Checkpoints
         /\ audited \in {"no", "complete", "incomplete"}
BY DEF TInv, TypeOK, RecTypeOK

\* The tables of a step that reads them.
LEMMA TablesTyped ==
  ASSUME TInv, UNCHANGED <<tables, queued, failed, memory>>,
         found' \in [Actors -> Mark \cup Fine \cup {NULL}], draft' \in [Actors -> Draft]
  PROVE  RecTypeOK' /\ UNCHANGED todo
BY DEF TInv, TypeOK, RecTypeOK, Draft, tables, memory

LEMMA TypesTake ==
  ASSUME TInv, NEW j \in Jobs, Take(j)
  PROVE  TInv'
<1>1. /\ pc[j] = "idle" /\ pc' = [pc EXCEPT ![j] = "inspect"]
      /\ UNCHANGED <<tables, queued, failed, memory, found, draft, queueVars>>
  BY DEF Take
<1>2. RecTypeOK' /\ FiniteRows' /\ UNCHANGED todo
  BY <1>1, TablesTyped, SameRows DEF TInv, TypeOK, RecTypeOK, Draft, tables
<1>3. Paced("inspect", attempts[j], stalls[j], mode[j], left[j], found[j])
  BY <1>1, JobFacts DEF Paced, Running
<1>4. UNCHANGED <<attempts, stalls, mode, left, audited>>
  BY <1>1 DEF queueVars
<1> QED BY <1>1, <1>2, <1>3, <1>4, JobFacts, SameInJob, JobStep

\* Thrown back, a job has an attempt less, and none left when it has failed.
LEMMA ThrownFacts ==
  ASSUME TInv, NEW j \in Jobs, pc[j] \in Running, ThrownBack(j)
  PROVE  \E l \in {"idle", "failed"} :
           /\ pc' = [pc EXCEPT ![j] = l]
           /\ attempts[j] + 1 \in 0 .. MaxAttempts
           /\ l = "idle" => attempts[j] + 1 < MaxAttempts
           /\ attempts' = [attempts EXCEPT ![j] = attempts[j] + 1]
           /\ stalls[j] <= 1
<1>1. attempts[j] < MaxAttempts /\ attempts[j] \in Nat /\ MaxAttempts \in Nat /\ stalls[j] <= 1
  BY JobFacts DEF Paced
<1>2. attempts[j] + 1 \in 0 .. MaxAttempts
  BY <1>1
<1> QED BY <1>1, <1>2 DEF ThrownBack

LEMMA TypesInspect ==
  ASSUME TInv, NEW j \in Jobs, Inspect(j)
  PROVE  TInv'
<1>1. /\ pc[j] = "inspect" /\ UNCHANGED <<tables, queued, failed, memory, found, draft>>
      /\ UNCHANGED <<stalls, left, audited>>
  BY DEF Inspect
<1>2. RecTypeOK' /\ FiniteRows' /\ UNCHANGED todo
  BY <1>1, TablesTyped, SameRows DEF TInv, TypeOK, RecTypeOK, Draft, tables
<1>3. CASE /\ \E m \in {"incomplete", "complete"} : mode' = [mode EXCEPT ![j] = m]
           /\ pc' = [pc EXCEPT ![j] = "audit"] /\ UNCHANGED attempts
  <2>1. PICK m \in {"incomplete", "complete"} : mode' = [mode EXCEPT ![j] = m]
    BY <1>3
  <2>2. Paced("audit", attempts[j], stalls[j], m, left[j], found[j])
    BY <1>1, JobFacts DEF Paced, Running
  <2> QED BY <1>1, <1>2, <1>3, <2>1, <2>2, JobFacts, SameInJob, JobStep
<1>4. CASE ThrownBack(j) /\ UNCHANGED mode
  <2>1. PICK l \in {"idle", "failed"} :
           /\ pc' = [pc EXCEPT ![j] = l]
           /\ attempts[j] + 1 \in 0 .. MaxAttempts
           /\ l = "idle" => attempts[j] + 1 < MaxAttempts
           /\ attempts' = [attempts EXCEPT ![j] = attempts[j] + 1]
           /\ stalls[j] <= 1
    BY <1>1, <1>4, ThrownFacts DEF Running
  <2>2. Paced(l, attempts[j] + 1, stalls[j], mode[j], left[j], found[j])
    BY <1>1, <2>1, JobFacts DEF Paced, Running
  <2> QED BY <1>1, <1>2, <1>4, <2>1, <2>2, JobFacts, SameInJob, JobStep
<1> QED BY <1>3, <1>4 DEF Inspect

LEMMA TypesBeginAudit ==
  ASSUME TInv, NEW j \in Jobs, BeginAudit(j)
  PROVE  TInv'
<1>1. /\ pc[j] = "audit" /\ UNCHANGED <<tables, queued, failed, memory, found, draft>>
      /\ UNCHANGED <<attempts, stalls, audited>>
  BY DEF BeginAudit
<1>2. RecTypeOK' /\ FiniteRows' /\ UNCHANGED todo
  BY <1>1, TablesTyped, SameRows DEF TInv, TypeOK, RecTypeOK, Draft, tables
<1>3. left[j] \subseteq Stops /\ Tentative(j) \subseteq Fine
  BY <1>1, JobFacts, RowsSeen DEF Paced, Tentative
<1>4. CASE pc' = [pc EXCEPT ![j] = "ack"] /\ UNCHANGED <<mode, left>>
  <2>1. Paced("ack", attempts[j], stalls[j], mode[j], left[j], found[j])
    BY <1>1, <1>3, JobFacts DEF Paced, Running
  <2> QED BY <1>1, <1>2, <1>4, <2>1, JobFacts, SameInJob, JobStep
<1>5. CASE /\ pc' = [pc EXCEPT ![j] = "confirm"]
           /\ left' = [left EXCEPT ![j] = Tentative(j)] /\ UNCHANGED mode
  <2>1. Paced("confirm", attempts[j], stalls[j], mode[j], Tentative(j), found[j])
    BY <1>1, <1>3, <1>5, JobFacts DEF Paced, Running
  <2> QED BY <1>1, <1>2, <1>5, <2>1, JobFacts, SameInJob, JobStep
<1>6. CASE /\ pc' = [pc EXCEPT ![j] = "stops"]
           /\ left' = [left EXCEPT ![j] = OnWay] /\ UNCHANGED mode
  <2>1. Paced("stops", attempts[j], stalls[j], mode[j], OnWay, found[j])
    BY <1>1, <1>3, <1>6, CheckpointAssumptions, JobFacts DEF Paced, Running
  <2> QED BY <1>1, <1>2, <1>6, <2>1, JobFacts, SameInJob, JobStep
<1>7. CASE /\ pc' = [pc EXCEPT ![j] = "stops"]
           /\ UNCHANGED left /\ mode' = [mode EXCEPT ![j] = "blind"]
  <2>1. Paced("stops", attempts[j], stalls[j], "blind", left[j], found[j])
    BY <1>1, <1>3, JobFacts DEF Paced, Running
  <2> QED BY <1>1, <1>2, <1>7, <2>1, JobFacts, SameInJob, JobStep
<1> QED BY <1>4, <1>5, <1>6, <1>7 DEF BeginAudit

LEMMA TypesConfirm ==
  ASSUME TInv, NEW j \in Jobs, Confirm(j)
  PROVE  TInv'
<1>1. PICK f \in left[j] :
        /\ draft' = [draft EXCEPT ![j] = Saving(j, WriteFine(@, [f EXCEPT !.status = "PENDING"]), f)]
        /\ left' = [left EXCEPT ![j] = @ \ {f}]
  BY DEF Confirm
<1>2. /\ pc[j] = "confirm" /\ UNCHANGED <<marks, fines>>
      /\ UNCHANGED <<tables, queued, failed, pc, memory, found, attempts, stalls, mode, audited>>
  BY DEF Confirm, tables
<1>3. left[j] \subseteq Fine /\ pc' = [pc EXCEPT ![j] = "confirm"]
  BY <1>2, JobFacts DEF Paced, TInv, TypeOK
<1>4. [f EXCEPT !.status = "PENDING"] \in Fine
  BY <1>3 DEF Fine
<1>5. draft' \in [Actors -> Draft] /\ FiniteRows'
  BY <1>1, <1>2, <1>4, JobFacts, FineDrafted
<1>6. RecTypeOK' /\ UNCHANGED todo
  BY <1>2, <1>5, TablesTyped DEF TInv, TypeOK, RecTypeOK
<1>7. Paced("confirm", attempts[j], stalls[j], mode[j], left[j] \ {f}, found[j])
  BY <1>2, <1>3, JobFacts DEF Paced, Running
<1> QED BY <1>1, <1>2, <1>3, <1>5, <1>6, <1>7, JobFacts, SameInJob, JobStep

LEMMA TypesRecover ==
  ASSUME TInv, NEW j \in Jobs, RecoverStop(j)
  PROVE  TInv'
<1>1. PICK s \in left[j] :
        /\ left' = [left EXCEPT ![j] = @ \ {s}]
        /\ \/ UNCHANGED draft
           \/ \E t \in PassesBy(s) :
                LET recovered == WriteMark(draft[j], NewMark(s, "enter", t, "TRACCAR_AUDIT", 0))
                IN  IF AuditedLate(j, s, t)
                    THEN draft' = [draft EXCEPT ![j] = WriteFine(recovered, NewFine(s, "PENDING"))]
                    ELSE draft' = [draft EXCEPT ![j] = recovered]
  BY DEF RecoverStop
<1>2. /\ pc[j] = "stops" /\ UNCHANGED <<marks, fines>>
      /\ UNCHANGED <<tables, queued, failed, pc, memory, found, attempts, stalls, mode, audited>>
  BY DEF RecoverStop, tables
<1>3. left[j] \subseteq Stops /\ j \in Actors /\ pc' = [pc EXCEPT ![j] = "stops"]
  BY <1>2, JobFacts DEF Paced, TInv, TypeOK
<1>4. draft' \in [Actors -> Draft] /\ FiniteRows'
  <2>1. CASE UNCHANGED draft
    BY <1>2, <2>1, NothingDrafted
  <2>2. ASSUME NEW t \in PassesBy(s),
               LET recovered == WriteMark(draft[j], NewMark(s, "enter", t, "TRACCAR_AUDIT", 0))
               IN  IF AuditedLate(j, s, t)
                   THEN draft' = [draft EXCEPT ![j] = WriteFine(recovered, NewFine(s, "PENDING"))]
                   ELSE draft' = [draft EXCEPT ![j] = recovered]
        PROVE  draft' \in [Actors -> Draft] /\ FiniteRows'
    <3> DEFINE m == NewMark(s, "enter", t, "TRACCAR_AUDIT", 0)
               f == NewFine(s, "PENDING")
               recovered == WriteMark(draft[j], m)
               both == WriteFine(recovered, f)
    <3>1. t \in Times /\ s \in Stops
      BY <1>3, AuditAssumptions DEF PassesBy
    <3>2. m \in Mark
      BY <3>1, NewMarkFacts DEF TInv, Sources
    <3>3. CASE draft' = [draft EXCEPT ![j] = recovered]
      BY <1>2, <1>3, <3>2, <3>3, MarkDrafted
    <3>4. CASE AuditedLate(j, s, t) /\ draft' = [draft EXCEPT ![j] = both]
      <4>1. f \in Fine
        BY <3>4, NewFineFacts DEF TInv, AuditedLate
      <4>2. draft[j] \in Draft
        BY JobFacts
      <4>3. /\ recovered \in Draft /\ recovered.marks \subseteq draft[j].marks \cup {m}
            /\ recovered.fines = draft[j].fines
        <5> HIDE DEF m
        <5>1. recovered.marks = Overlay(draft[j].marks, {m}) /\ recovered.fines = draft[j].fines
          BY <4>2 DEF WriteMark, Draft
        <5>2. Overlay(draft[j].marks, {m}) \subseteq draft[j].marks \cup {m}
          BY OverlayFacts
        <5> QED BY <3>2, <4>2, <5>1, <5>2 DEF WriteMark, Draft
      <4>4. /\ both \in Draft /\ both.marks = recovered.marks
            /\ both.fines \subseteq draft[j].fines \cup {f}
        <5> HIDE DEF recovered, f
        <5>1. both.fines = Overlay(recovered.fines, {f}) /\ both.marks = recovered.marks
          BY <4>3 DEF WriteFine, Draft
        <5>2. Overlay(recovered.fines, {f}) \subseteq recovered.fines \cup {f}
          BY OverlayFacts
        <5> QED BY <4>1, <4>3, <5>1, <5>2 DEF WriteFine, Draft
      <4>5. IsFiniteSet({m}) /\ IsFiniteSet({f})
        BY FS_Singleton
      <4> HIDE DEF both, recovered, m, f
      <4>6. both.marks \subseteq draft[j].marks \cup {m}
        BY <4>3, <4>4
      <4>7. TypeOK /\ FiniteRows /\ draft' = [draft EXCEPT ![j] = both]
        BY <3>4 DEF TInv
      <4>8. marks' \subseteq marks \cup draft[j].marks /\ fines' \subseteq fines \cup draft[j].fines
        BY <1>2
      <4> QED BY <1>3, <4>4, <4>5, <4>6, <4>7, <4>8, DraftTyped
    <3> QED BY <2>2, <3>3, <3>4
  <2> QED BY <1>1, <2>1, <2>2
<1>5. RecTypeOK' /\ UNCHANGED todo
  BY <1>2, <1>4, TablesTyped DEF TInv, TypeOK, RecTypeOK
<1>6. Paced("stops", attempts[j], stalls[j], mode[j], left[j] \ {s}, found[j])
  BY <1>2, <1>3, JobFacts DEF Paced, Running
<1> QED BY <1>1, <1>2, <1>3, <1>4, <1>5, <1>6, JobFacts, SameInJob, JobStep

LEMMA TypesJudgeStop ==
  ASSUME TInv, NEW j \in Jobs, JudgeStop(j)
  PROVE  TInv'
<1>1. /\ pc[j] = "stops" /\ UNCHANGED <<tables, queued, failed, memory, draft>>
      /\ UNCHANGED <<attempts, stalls, audited>>
  BY DEF JudgeStop
<1>2. PICK s \in left[j] :
        /\ left' = [left EXCEPT ![j] = @ \ {s}]
        /\ \/ /\ s \in Checkpoints
              /\ \E f \in IF Tentative(j) = {} THEN {NULL} ELSE Tentative(j) :
                    found' = [found EXCEPT ![j] = f]
              /\ \E l \in {"lateStop", "onTimeStop"} : pc' = [pc EXCEPT ![j] = l]
              /\ mode' = [mode EXCEPT ![j] = s]
           \/ UNCHANGED <<pc, found, mode>>
  BY DEF JudgeStop
<1>3. left[j] \subseteq Stops /\ Tentative(j) \subseteq Fine
  BY <1>1, JobFacts, RowsSeen DEF Paced, Tentative
<1>4. FiniteRows' /\ draft' \in [Actors -> Draft]
  BY <1>1, NothingDrafted DEF tables
<1>5. CASE /\ s \in Checkpoints
           /\ \E f \in IF Tentative(j) = {} THEN {NULL} ELSE Tentative(j) :
                 found' = [found EXCEPT ![j] = f]
           /\ \E l \in {"lateStop", "onTimeStop"} : pc' = [pc EXCEPT ![j] = l]
           /\ mode' = [mode EXCEPT ![j] = s]
  <2>1. PICK f \in Fine \cup {NULL} : found' = [found EXCEPT ![j] = f]
    BY <1>3, <1>5
  <2>2. PICK l \in {"lateStop", "onTimeStop"} : pc' = [pc EXCEPT ![j] = l]
    BY <1>5
  <2>3. found' \in [Actors -> Mark \cup Fine \cup {NULL}]
    BY <2>1 DEF TInv, TypeOK, RecTypeOK
  <2>4. RecTypeOK' /\ UNCHANGED todo
    BY <1>1, <1>4, <2>3, TablesTyped
  <2>5. Paced(l, attempts[j], stalls[j], s, left[j] \ {s}, f)
    BY <1>1, <1>3, <1>5, JobFacts DEF Paced, Running
  <2> QED BY <1>1, <1>2, <1>4, <1>5, <2>1, <2>2, <2>4, <2>5, JobFacts, SameInJob, JobStep
<1>6. CASE UNCHANGED <<pc, found, mode>>
  <2>1. RecTypeOK' /\ UNCHANGED todo
    BY <1>1, <1>4, <1>6, TablesTyped DEF TInv, TypeOK, RecTypeOK
  <2>2. pc' = [pc EXCEPT ![j] = "stops"]
    BY <1>1, <1>6 DEF TInv, TypeOK
  <2>3. Paced("stops", attempts[j], stalls[j], mode[j], left[j] \ {s}, found[j])
    BY <1>1, <1>3, JobFacts DEF Paced, Running
  <2> QED BY <1>1, <1>2, <1>4, <1>6, <2>1, <2>2, <2>3, JobFacts, SameInJob, JobStep
<1> QED BY <1>2, <1>5, <1>6

LEMMA TypesSettleStop ==
  ASSUME TInv, NEW j \in Jobs, SettleStop(j)
  PROVE  TInv'
<1>1. /\ pc[j] \in {"lateStop", "onTimeStop"} /\ pc' = [pc EXCEPT ![j] = "stops"]
      /\ draft' = [draft EXCEPT ![j] =
                      Saving(j, Settled(@, found[j], mode[j], pc[j] = "lateStop"), found[j])]
      /\ mode' = [mode EXCEPT ![j] = "complete"] /\ found' = [found EXCEPT ![j] = NULL]
      /\ UNCHANGED <<tables, queued, failed, memory, attempts, stalls, left, audited>>
      /\ UNCHANGED <<marks, fines>>
  BY DEF SettleStop, tables
<1>2. mode[j] \in Checkpoints /\ found[j] \in Fine \cup {NULL} /\ j \in Actors /\ left[j] \subseteq Stops
  BY <1>1, JobFacts DEF Paced
<1>3. draft' \in [Actors -> Draft] /\ FiniteRows'
  <2>1. PICK f \in Fine \cup {NULL}, stop \in Checkpoints, late \in BOOLEAN :
               f = found[j] /\ stop = mode[j] /\ late = (pc[j] = "lateStop")
    BY <1>2, Zenon
  <2>2. draft' = [draft EXCEPT ![j] = Saving(j, Settled(@, f, stop, late), f)]
    BY <1>1, <2>1, Zenon
  <2>3. UNCHANGED <<marks, fines>>
    BY <1>1
  <2> QED BY <1>2, <2>2, <2>3, SettledTyped
<1>4. found' \in [Actors -> Mark \cup Fine \cup {NULL}]
  BY <1>1 DEF TInv, TypeOK, RecTypeOK
<1>5. RecTypeOK' /\ UNCHANGED todo
  BY <1>1, <1>3, <1>4, TablesTyped
<1>6. Paced("stops", attempts[j], stalls[j], "complete", left[j], NULL)
  BY <1>1, <1>2, JobFacts DEF Paced, Running
<1> QED BY <1>1, <1>3, <1>5, <1>6, JobFacts, SameInJob, JobStep

LEMMA TypesCommitAudit ==
  ASSUME TInv, NEW j \in Jobs, CommitAudit(j)
  PROVE  TInv'
<1>1. /\ pc[j] \in {"confirm", "stops"} /\ left[j] = {} /\ round' = "COMPLETED"
      /\ marks' = Overlay(marks, draft[j].marks) /\ fines' = Overlay(fines, draft[j].fines)
      /\ draft' = [draft EXCEPT ![j] = NoDraft] /\ pc' = [pc EXCEPT ![j] = "ack"]
      /\ audited' \in {"no", "complete", "incomplete"}
      /\ UNCHANGED <<linked, queued, failed, memory, found, attempts, stalls, mode, left>>
  BY DEF CommitAudit
<1>2. j \in Actors
  BY JobFacts
<1>3. NoDraft \in Draft /\ NoDraft.marks = {} /\ NoDraft.fines = {}
  BY DEF NoDraft, Draft
<1>4. /\ draft' \in [Actors -> Draft] /\ FiniteRows'
      /\ marks' \subseteq Mark /\ fines' \subseteq Fine
  <2>1. /\ NoDraft.marks \subseteq draft[j].marks \cup {}
        /\ NoDraft.fines \subseteq draft[j].fines \cup {} /\ IsFiniteSet({})
    BY <1>3, FS_EmptySet
  <2>2. marks' \subseteq marks \cup draft[j].marks /\ fines' \subseteq fines \cup draft[j].fines
    BY <1>1, OverlayFacts
  <2> QED BY <1>1, <1>2, <1>3, <2>1, <2>2, DraftTyped DEF TInv
<1>5. RecTypeOK' /\ UNCHANGED todo
  BY <1>1, <1>4 DEF TInv, TypeOK, RecTypeOK, memory, Draft
<1>6. Paced("ack", attempts[j], stalls[j], mode[j], left[j], found[j])
  BY <1>1, JobFacts DEF Paced, Running
<1> QED BY <1>1, <1>4, <1>5, <1>6, JobFacts, SameInJob, JobStep

LEMMA TypesAcknowledge ==
  ASSUME TInv, NEW j \in Jobs, Acknowledge(j)
  PROVE  TInv'
<1>1. /\ pc[j] = "ack" /\ pc' = [pc EXCEPT ![j] = "done"]
      /\ mode' = [mode EXCEPT ![j] = "none"]
      /\ UNCHANGED <<tables, queued, failed, memory, found, draft, attempts, stalls, left, audited>>
  BY DEF Acknowledge
<1>2. RecTypeOK' /\ FiniteRows' /\ UNCHANGED todo
  BY <1>1, TablesTyped, SameRows DEF TInv, TypeOK, RecTypeOK, Draft, tables
<1>3. Paced("done", attempts[j], stalls[j], "none", left[j], found[j])
  BY <1>1, JobFacts DEF Paced, Running
<1> QED BY <1>1, <1>2, <1>3, JobFacts, SameInJob, JobStep

\* A job that is given up, for now or for good, forgets what it was doing.
LEMMA ForgetTyped ==
  ASSUME TInv, NEW j \in Jobs, Forget(j), UNCHANGED <<tables, queued, memory, audited>>,
         NEW l \in {"idle", "failed"}, pc' = [pc EXCEPT ![j] = l],
         NEW a \in 0 .. MaxAttempts, attempts' = [attempts EXCEPT ![j] = a],
         NEW s \in 0 .. 2, stalls' = [stalls EXCEPT ![j] = s],
         l = "idle" => a < MaxAttempts /\ s <= 1
  PROVE  TInv'
<1>1. /\ failed' = TRUE /\ draft' = [draft EXCEPT ![j] = NoDraft]
      /\ found' = [found EXCEPT ![j] = NULL] /\ mode' = [mode EXCEPT ![j] = "none"]
      /\ left' = [left EXCEPT ![j] = {}] /\ j \in Actors
      /\ UNCHANGED <<linked, round, marks, fines, kind, todo, loaded>>
  BY JobFacts DEF Forget, tables, memory
<1>2. NoDraft \in Draft /\ NoDraft.marks = {} /\ NoDraft.fines = {}
  BY DEF NoDraft, Draft
<1>3. draft' \in [Actors -> Draft] /\ FiniteRows'
  <2>1. /\ NoDraft.marks \subseteq draft[j].marks \cup {}
        /\ NoDraft.fines \subseteq draft[j].fines \cup {} /\ IsFiniteSet({})
    BY <1>2, FS_EmptySet
  <2>2. marks' \subseteq marks \cup draft[j].marks /\ fines' \subseteq fines \cup draft[j].fines
    BY <1>1
  <2> QED BY <1>1, <1>2, <2>1, <2>2, DraftTyped DEF TInv
<1>4. RecTypeOK'
  BY <1>1, <1>3 DEF TInv, TypeOK, RecTypeOK, Draft
<1>5. Paced(l, a, s, "none", {}, NULL)
  BY DEF Paced, Running
<1> QED BY <1>1, <1>3, <1>4, <1>5, SameInJob, JobStep

LEMMA TypesFailJob ==
  ASSUME TInv, NEW j \in Jobs, FailJob(j)
  PROVE  TInv'
<1>1. /\ pc[j] \in Running /\ ThrownBack(j) /\ Forget(j)
      /\ UNCHANGED <<tables, queued, memory, stalls, audited>>
  BY DEF FailJob
<1>2. PICK l \in {"idle", "failed"} :
         /\ pc' = [pc EXCEPT ![j] = l]
         /\ attempts[j] + 1 \in 0 .. MaxAttempts
         /\ l = "idle" => attempts[j] + 1 < MaxAttempts
         /\ attempts' = [attempts EXCEPT ![j] = attempts[j] + 1]
         /\ stalls[j] <= 1
  BY <1>1, ThrownFacts
<1>3. stalls' = [stalls EXCEPT ![j] = stalls[j]] /\ stalls[j] \in 0 .. 2
  BY <1>1, JobFacts, SameInJob
<1> QED BY <1>1, <1>2, <1>3, ForgetTyped

LEMMA TypesStall ==
  ASSUME TInv, NEW j \in Jobs, Stall(j)
  PROVE  TInv'
<1>1. /\ pc[j] \in Running \cup {"ack"} /\ Forget(j)
      /\ stalls' = [stalls EXCEPT ![j] = stalls[j] + 1]
      /\ UNCHANGED <<tables, queued, memory, attempts, audited>>
  BY DEF Stall
<1>2. /\ stalls[j] \in 0 .. 1 /\ attempts[j] \in 0 .. MaxAttempts
      /\ attempts' = [attempts EXCEPT ![j] = attempts[j]]
  BY <1>1, JobFacts, SameInJob DEF Paced
<1>3. stalls[j] + 1 \in 0 .. 2
  BY <1>2
<1>4. CASE pc[j] \in Running
  <2>1. PICK l \in {"idle", "failed"} :
          pc' = [pc EXCEPT ![j] = l] /\ (l = "idle" => stalls[j] = 0)
    BY DEF Stall
  <2>2. attempts[j] < MaxAttempts
    BY <1>4, JobFacts DEF Paced
  <2>3. l = "idle" => attempts[j] < MaxAttempts /\ stalls[j] + 1 <= 1
    BY <2>1, <2>2
  <2> QED BY <1>1, <1>2, <1>3, <2>1, <2>3, ForgetTyped
<1>5. CASE pc[j] = "ack"
  <2>1. PICK l \in {"idle", "failed"} :
          pc' = [pc EXCEPT ![j] = l] /\ (l = "idle" => stalls[j] = 0)
    BY DEF Stall
  <2>2. attempts[j] < MaxAttempts
    BY <1>5, JobFacts DEF Paced
  <2>3. l = "idle" => attempts[j] < MaxAttempts /\ stalls[j] + 1 <= 1
    BY <2>1, <2>2
  <2> QED BY <1>1, <1>2, <1>3, <2>1, <2>3, ForgetTyped
<1> QED BY <1>1, <1>4, <1>5

LEMMA TypesAnswer ==
  ASSUME TInv, NEW r \in Requests, Answer(r), UNCHANGED queueVars
  PROVE  TInv'
<1>1. CASE Find(r)
  BY <1>1, TypesFind
<1>2. CASE Skip(r)
  BY <1>2, TypesSkip
<1>3. CASE RecordEntry(r)
  BY <1>3, TypesEntry
<1>4. CASE RecordExit(r)
  BY <1>4, TypesExit
<1>5. CASE Rectify(r)
  BY <1>5, TypesRectify
<1>6. CASE IssueOfficial(r) \/ IssueTentative(r)
  BY <1>6, TypesIssue
<1>7. CASE Judge(r)
  BY <1>7, TypesJudge
<1>8. CASE Settle(r)
  BY <1>8, TypesSettle
<1>9. CASE CompleteMatched(r) \/ CompleteNamed(r)
  BY <1>9, TypesComplete
<1>10. CASE Commit(r)
  BY <1>10, TypesCommit
<1> QED BY <1>1, <1>2, <1>3, <1>4, <1>5, <1>6, <1>7, <1>8, <1>9, <1>10 DEF Answer

LEMMA TypesWork ==
  ASSUME TInv, NEW j \in Jobs, Work(j)
  PROVE  TInv'
<1>1. CASE Take(j)
  BY <1>1, TypesTake
<1>2. CASE Inspect(j)
  BY <1>2, TypesInspect
<1>3. CASE BeginAudit(j)
  BY <1>3, TypesBeginAudit
<1>4. CASE Confirm(j)
  BY <1>4, TypesConfirm
<1>5. CASE RecoverStop(j)
  BY <1>5, TypesRecover
<1>6. CASE JudgeStop(j)
  BY <1>6, TypesJudgeStop
<1>7. CASE SettleStop(j)
  BY <1>7, TypesSettleStop
<1>8. CASE CommitAudit(j)
  BY <1>8, TypesCommitAudit
<1>9. CASE Acknowledge(j)
  BY <1>9, TypesAcknowledge
<1> QED BY <1>1, <1>2, <1>3, <1>4, <1>5, <1>6, <1>7, <1>8, <1>9 DEF Work

LEMMA TypesNext == TInv /\ [Next]_vars => TInv'
<1> SUFFICES ASSUME TInv, [Next]_vars PROVE TInv'
  OBVIOUS
<1>1. CASE \E r \in Requests : (Begin(r) \/ Answer(r) \/ Fail(r)) /\ UNCHANGED queueVars
  BY <1>1, TypesBegin, TypesAnswer, TypesFail
<1>2. CASE (Press \/ AnnulTentative) /\ UNCHANGED queueVars
  BY <1>2, TypesPress, TypesAnnul
<1>3. CASE \E j \in Jobs : Work(j) \/ FailJob(j) \/ Stall(j)
  BY <1>3, TypesWork, TypesFailJob, TypesStall
<1>4. CASE UNCHANGED vars
  BY <1>4 DEF vars, recVars, tables, memory, queueVars, TInv, TypeOK, RecTypeOK, FiniteRows,
              AllMarks, AllFines, Ordered, Paced
<1> QED BY <1>1, <1>2, <1>3, <1>4 DEF Next

\* What the code assumes of the rows it reads holds: a report that is judged is a
\* checkpoint's, a fine that is settled is a fine, the number of a new row is always
\* found, and a job is never tried, nor given again, more often than BullMQ allows.
THEOREM Typing == Spec => []TypeOK
<1>1. TInv => TypeOK
  BY DEF TInv
<1> QED BY <1>1, TypesInit, TypesNext, PTL DEF Spec

-----------------------------------------------------------------------------
(* How a transaction's step changes what others rely on: the marks, their    *)
(* numbers, and the rows it has in hand.                                     *)
Events == {"enter", "exit"}

Distinct(S) == \A x, y \in S : SameRow(x, y) => x = y

\* The marks of a stop, by the number that tells them apart.
Numbers(S, s, e) == {m.copy : m \in {x \in S : x.stop = s /\ x.event = e}}

\* The marks of a stop that a commits if it ends now.
New(a, s, e) == Numbers(draft[a].marks, s, e) \ Numbers(marks, s, e)

\* a has looked for a mark, has found none and has not written its own yet.
Expects(a, s, e) ==
  /\ a \in Requests /\ pc[a] = "record" /\ found[a] = NULL
  /\ Head(todo[a]).stop = s /\ Head(todo[a]).event = e

\* Those who may still add a mark of the stop.
Claims(s, e) == {a \in Actors : New(a, s, e) # {} \/ Expects(a, s, e)}

Begun == {a \in Actors : pc[a] \in InFlight}

\* The rest of the transactions do not move.
Others(a) ==
  \A b \in Actors \ {a} :
    /\ pc'[b] = pc[b] /\ draft'[b] = draft[b] /\ found'[b] = found[b]
    /\ b \in Requests => todo'[b] = todo[b]
    /\ b \in Jobs => left'[b] = left[b]

\* It looks for a mark.
Looks(a) ==
  /\ a \in Requests /\ pc[a] = "find" /\ pc'[a] = "record"
  /\ marks' = marks /\ draft'[a] = draft[a] /\ todo'[a] = todo[a]
  /\ \/ Existing(a, Head(todo[a]).stop, Head(todo[a]).event) = {} /\ found'[a] = NULL
     \/ found'[a] \in Existing(a, Head(todo[a]).stop, Head(todo[a]).event)

\* It writes no mark.
Keeps(a) ==
  /\ pc'[a] # "record" /\ marks' = marks /\ draft'[a].marks = draft[a].marks
  /\ \/ pc[a] \in InFlight /\ pc'[a] \in InFlight
     \/ pc[a] \notin InFlight /\ (pc'[a] \in InFlight => Room) /\ draft'[a] = draft[a]

\* It writes a mark where it has seen none.
Adds(a) ==
  /\ pc'[a] # "record" /\ marks' = marks /\ pc[a] \in InFlight /\ pc'[a] \in InFlight
  /\ \E s \in Stops, e \in Events, m \in Mark :
       /\ m.stop = s /\ m.event = e
       /\ Expects(a, s, e) \/ Existing(a, s, e) = {}
       /\ draft'[a].marks = Overlay(draft[a].marks, {m})

\* It writes the mark it has found.
Corrects(a) ==
  /\ pc'[a] # "record" /\ marks' = marks /\ pc[a] \in InFlight /\ pc'[a] \in InFlight
  /\ \E m \in Mark :
       /\ m.copy \in Numbers(marks, m.stop, m.event) \cup Numbers(draft[a].marks, m.stop, m.event)
       /\ draft'[a].marks = Overlay(draft[a].marks, {m})

Commits(a) ==
  /\ pc[a] \in InFlight /\ pc'[a] \notin InFlight /\ pc'[a] # "record"
  /\ marks' = Overlay(marks, draft[a].marks) /\ draft'[a] = NoDraft

Forgets(a) ==
  /\ pc'[a] \notin InFlight /\ pc'[a] # "record" /\ marks' = marks /\ draft'[a] = NoDraft

MarkStep(a) ==
  Looks(a) \/ Keeps(a) \/ Adds(a) \/ Corrects(a) \/ Commits(a) \/ Forgets(a)

\* What a holds.
MarkHand(a) ==
  /\ pc[a] \notin InFlight => draft[a] = NoDraft
  /\ Distinct(draft[a].marks)
  /\ \A s \in Stops, e \in Events :
       /\ \A c, d \in New(a, s, e) : c = d
       /\ Expects(a, s, e) => Numbers(draft[a].marks, s, e) = {}
  /\ a \in Requests /\ pc[a] = "record" /\ found[a] # NULL =>
       found[a].copy \in Numbers(marks, found[a].stop, found[a].event)
                           \cup Numbers(draft[a].marks, found[a].stop, found[a].event)

\* Once a stop has a mark, the marks and the claims to one are as few as those who
\* overlapped the first.
Few(s, e) ==
  Numbers(marks, s, e) # {} =>
    Cardinality(Numbers(marks, s, e)) + Cardinality(Claims(s, e)) <= MaxInFlight

MarkInv ==
  /\ Distinct(marks)
  /\ Cardinality(Begun) <= MaxInFlight
  /\ \A a \in Actors : MarkHand(a)
  /\ \A s \in Stops, e \in Events : Few(s, e)

LEMMA NumbersFacts ==
  ASSUME NEW S, NEW W, S \subseteq Mark, W \subseteq Mark, NEW s, NEW e
  PROVE  Numbers(Overlay(S, W), s, e) = Numbers(S, s, e) \cup Numbers(W, s, e)
<1>1. ASSUME NEW x \in S \cup W, NEW y \in S \cup W
      PROVE  SameRow(x, y) <=> x.stop = y.stop /\ x.event = y.event /\ x.copy = y.copy
  <2>1. x \in Mark /\ y \in Mark
    OBVIOUS
  <2> QED BY <2>1 DEF SameRow, Mark
<1>2. Numbers(Overlay(S, W), s, e) \subseteq Numbers(S, s, e) \cup Numbers(W, s, e)
  BY DEF Numbers, Overlay
<1>3. Numbers(W, s, e) \subseteq Numbers(Overlay(S, W), s, e)
  BY DEF Numbers, Overlay
<1>4. ASSUME NEW c \in Numbers(S, s, e) PROVE c \in Numbers(Overlay(S, W), s, e)
  <2>1. PICK x \in S : x.stop = s /\ x.event = e /\ x.copy = c
    BY DEF Numbers
  <2>2. CASE \A y \in W : ~SameRow(x, y)
    <3>1. x \in Overlay(S, W)
      BY <2>2 DEF Overlay
    <3> QED BY <2>1, <3>1 DEF Numbers
  <2>3. CASE \E y \in W : SameRow(x, y)
    <3>1. PICK y \in W : SameRow(x, y)
      BY <2>3
    <3>2. y.stop = s /\ y.event = e /\ y.copy = c /\ y \in Overlay(S, W)
      BY <1>1, <2>1, <3>1 DEF Overlay
    <3> QED BY <3>2 DEF Numbers
  <2> QED BY <2>2, <2>3
<1> QED BY <1>2, <1>3, <1>4

\* Rows that are told apart are told apart when others are written over them.
LEMMA StayDistinct ==
  ASSUME NEW S, NEW W, S \subseteq Mark \/ S \subseteq Fine, W \subseteq Mark \/ W \subseteq Fine,
         Distinct(S), Distinct(W)
  PROVE  Distinct(Overlay(S, W))
<1>1. ASSUME NEW x \in S \cup W, NEW y \in S \cup W, SameRow(x, y) PROVE SameRow(y, x)
  <2>1. x \in Mark \cup Fine /\ y \in Mark \cup Fine
    OBVIOUS
  <2> QED BY <1>1, <2>1 DEF SameRow, Mark, Fine
<1> QED BY <1>1 DEF Distinct, Overlay

LEMMA RowsTyped ==
  ASSUME TInv, NEW a \in Actors
  PROVE  marks \subseteq Mark /\ draft[a].marks \subseteq Mark
         /\ fines \subseteq Fine /\ draft[a].fines \subseteq Fine
BY DEF TInv, TypeOK, RecTypeOK

LEMMA SetsFinite ==
  ASSUME TInv, NEW s, NEW e
  PROVE  /\ IsFiniteSet(Numbers(marks, s, e)) /\ Cardinality(Numbers(marks, s, e)) \in Nat
         /\ IsFiniteSet(Claims(s, e)) /\ Cardinality(Claims(s, e)) \in Nat
         /\ IsFiniteSet(Begun) /\ Cardinality(Begun) \in Nat
         /\ MaxInFlight \in Nat \ {0}
<1> DEFINE rows == {x \in marks : x.stop = s /\ x.event = e}
<1>1. IsFiniteSet(rows)
  <2>1. rows \in SUBSET AllMarks
    BY DEF AllMarks
  <2> QED BY <2>1, FS_Subset DEF TInv, FiniteRows
<1>2. IsFiniteSet(Numbers(marks, s, e))
  <2> HIDE DEF rows
  <2>1. IsFiniteSet({m.copy : m \in rows})
    BY <1>1, FieldsFinite
  <2> QED BY <2>1 DEF Numbers, rows
<1>3. Claims(s, e) \in SUBSET Actors /\ Begun \in SUBSET Actors
  BY DEF Claims, Begun
<1>4. IsFiniteSet(Claims(s, e)) /\ IsFiniteSet(Begun)
  BY <1>3, CheckpointAssumptions, FS_Subset
<1> QED BY <1>2, <1>4, FS_CardinalityType, CheckpointAssumptions

\* Those who do not move keep what they hold, and claim no more than before.
LEMMA OthersHold ==
  ASSUME TInv, MarkInv, NEW a \in Actors, Others(a),
         \A s, e : Numbers(marks, s, e) \subseteq Numbers(marks', s, e),
         NEW b \in Actors \ {a}
  PROVE  /\ MarkHand(b)'
         /\ \A s \in Stops, e \in Events : b \in Claims(s, e)' => b \in Claims(s, e)
<1>1. /\ pc'[b] = pc[b] /\ draft'[b] = draft[b] /\ found'[b] = found[b]
      /\ b \in Requests => todo'[b] = todo[b]
  BY DEF Others
<1>2. MarkHand(b)
  BY DEF MarkInv
<1>3. \A s, e : New(b, s, e)' \subseteq New(b, s, e) /\ (Expects(b, s, e)' <=> Expects(b, s, e))
  BY <1>1 DEF New, Expects
<1>4. MarkHand(b)'
  BY <1>1, <1>2, <1>3 DEF MarkHand
<1>5. ASSUME NEW s \in Stops, NEW e \in Events, b \in Claims(s, e)' PROVE b \in Claims(s, e)
  BY <1>3, <1>5 DEF Claims
<1> QED BY <1>4, <1>5

\* Where no mark is added to the tables, few stays few unless a new claim is made
\* while there is a mark.
LEMMA FewStays ==
  ASSUME TInv, MarkInv, NEW a \in Actors, Others(a), marks' = marks,
         NEW s \in Stops, NEW e \in Events,
         a \in Claims(s, e)' => a \in Claims(s, e) \/ Numbers(marks, s, e) = {}
  PROVE  Few(s, e)'
<1>1. CASE Numbers(marks, s, e) = {}
  BY <1>1 DEF Few
<1>2. CASE Numbers(marks, s, e) # {}
  <2>1. Claims(s, e)' \in SUBSET Claims(s, e)
    <3>1. \A b \in Actors \ {a} : b \in Claims(s, e)' => b \in Claims(s, e)
      BY OthersHold
    <3>2. Claims(s, e)' \subseteq Actors
      BY DEF Claims
    <3> QED BY <1>2, <3>1, <3>2
  <2>2. Cardinality(Claims(s, e)') <= Cardinality(Claims(s, e)) /\ Cardinality(Claims(s, e)') \in Nat
    BY <2>1, SetsFinite, FS_Subset, FS_CardinalityType
  <2>3. Few(s, e)
    BY DEF MarkInv
  <2> QED BY <1>2, <2>2, <2>3, SetsFinite DEF Few
<1> QED BY <1>1, <1>2

\* And those in flight are as many as the server takes.
LEMMA BegunStays ==
  ASSUME TInv, MarkInv, NEW a \in Actors, Others(a),
         pc'[a] \in InFlight => pc[a] \in InFlight \/ Room
  PROVE  Cardinality(Begun') <= MaxInFlight
<1>1. Begun' \subseteq Begun \cup {a}
  BY DEF Begun, Others
<1>2. CASE pc'[a] \in InFlight => pc[a] \in InFlight
  <2>1. Begun' \in SUBSET Begun
    BY <1>1, <1>2 DEF Begun
  <2>2. Cardinality(Begun') <= Cardinality(Begun) /\ Cardinality(Begun') \in Nat
    BY <2>1, SetsFinite, FS_Subset, FS_CardinalityType
  <2> QED BY <2>2, SetsFinite DEF MarkInv
<1>3. CASE Room
  <2>1. Cardinality(Begun) < MaxInFlight
    BY <1>3 DEF Room, Begun
  <2>2. Begun' \in SUBSET (Begun \cup {a})
    BY <1>1
  <2>3. IsFiniteSet(Begun \cup {a}) /\ Cardinality(Begun \cup {a}) <= Cardinality(Begun) + 1
    BY SetsFinite, FS_AddElement
  <2>4. Cardinality(Begun') <= Cardinality(Begun \cup {a})
    BY <2>2, <2>3, FS_Subset
  <2>5. Cardinality(Begun') \in Nat /\ Cardinality(Begun \cup {a}) \in Nat
    BY <2>2, <2>3, FS_Subset, FS_CardinalityType
  <2> QED BY <2>1, <2>3, <2>4, <2>5, SetsFinite
<1> QED BY <1>2, <1>3

\* A step that adds nothing to the tables keeps the invariant if a's hand is good.
LEMMA Quietly ==
  ASSUME TInv, MarkInv, NEW a \in Actors, Others(a), marks' = marks, MarkHand(a)',
         pc'[a] \in InFlight => pc[a] \in InFlight \/ Room,
         \A s \in Stops, e \in Events :
           a \in Claims(s, e)' => a \in Claims(s, e) \/ Numbers(marks, s, e) = {}
  PROVE  MarkInv'
<1>1. \A b \in Actors : MarkHand(b)'
  <2>1. \A b \in Actors \ {a} : MarkHand(b)'
    BY OthersHold
  <2> QED BY <2>1
<1>2. \A s \in Stops, e \in Events : Few(s, e)'
  BY FewStays
<1>3. Cardinality(Begun)' <= MaxInFlight
  BY BegunStays
<1>4. Distinct(marks)'
  BY DEF MarkInv, Distinct
<1> QED BY <1>1, <1>2, <1>3, <1>4 DEF MarkInv

LEMMA SeenMarks ==
  ASSUME TInv, NEW a \in Actors, NEW s, NEW e
  PROVE  /\ Existing(a, s, e) = {} =>
              Numbers(marks, s, e) = {} /\ Numbers(draft[a].marks, s, e) = {}
         /\ \A m \in Existing(a, s, e) : /\ m \in Mark /\ m.stop = s /\ m.event = e
                                         /\ m.copy \in Numbers(marks, s, e)
                                                         \cup Numbers(draft[a].marks, s, e)
<1>1. Numbers(Marks(a), s, e) = Numbers(marks, s, e) \cup Numbers(draft[a].marks, s, e)
  BY RowsTyped, NumbersFacts DEF Marks
<1>2. Numbers(Marks(a), s, e) = {m.copy : m \in Existing(a, s, e)}
  BY DEF Numbers, Existing
<1>3. \A m \in Existing(a, s, e) : m \in Mark /\ m.stop = s /\ m.event = e
  BY RowsSeen DEF Existing
<1> QED BY <1>1, <1>2, <1>3

LEMMA LooksKeeps ==
  ASSUME TInv, MarkInv, NEW a \in Actors, Others(a), Looks(a)
  PROVE  MarkInv'
<1> DEFINE s == Head(todo[a]).stop
           e == Head(todo[a]).event
<1>1. /\ a \in Requests /\ pc[a] = "find" /\ pc'[a] = "record"
      /\ marks' = marks /\ draft'[a] = draft[a] /\ todo'[a] = todo[a]
      /\ \/ Existing(a, s, e) = {} /\ found'[a] = NULL
         \/ found'[a] \in Existing(a, s, e)
  BY DEF Looks
<1>2. MarkHand(a) /\ \A t, v : New(a, t, v)' = New(a, t, v)
  BY <1>1 DEF MarkInv, New
<1>3. \A t, v : Expects(a, t, v)' => t = s /\ v = e /\ found'[a] = NULL
  BY <1>1 DEF Expects
<1>4. found'[a] = NULL => Numbers(marks, s, e) = {} /\ Numbers(draft[a].marks, s, e) = {}
  <2>1. \A m \in Existing(a, s, e) : m \in Mark
    BY SeenMarks
  <2>2. NULL \notin Mark
    BY DEF NULL, Mark
  <2> QED BY <1>1, <2>1, <2>2, SeenMarks
<1>5. found'[a] # NULL =>
        found'[a].copy \in Numbers(marks, found'[a].stop, found'[a].event)
                             \cup Numbers(draft[a].marks, found'[a].stop, found'[a].event)
  BY <1>1, SeenMarks
<1> HIDE DEF s, e
<1>6. MarkHand(a)'
  <2>1. pc'[a] \in InFlight
    BY <1>1 DEF InFlight
  <2>2. ASSUME NEW t \in Stops, NEW v \in Events
        PROVE  /\ \A c, d \in New(a, t, v)' : c = d
               /\ Expects(a, t, v)' => Numbers(draft'[a].marks, t, v) = {}
    BY <1>1, <1>2, <1>3, <1>4 DEF MarkHand
  <2> QED BY <1>1, <1>2, <1>5, <2>1, <2>2 DEF MarkHand
<1>7. \A t \in Stops, v \in Events :
        a \in Claims(t, v)' => a \in Claims(t, v) \/ Numbers(marks, t, v) = {}
  BY <1>2, <1>3, <1>4 DEF Claims
<1>8. pc[a] \in InFlight
  BY <1>1 DEF InFlight
<1> QED BY <1>1, <1>6, <1>7, <1>8, Quietly

LEMMA KeepsKeeps ==
  ASSUME TInv, MarkInv, NEW a \in Actors, Others(a), Keeps(a)
  PROVE  MarkInv'
<1>1. /\ pc'[a] # "record" /\ marks' = marks /\ draft'[a].marks = draft[a].marks
      /\ pc'[a] \notin InFlight => draft'[a] = NoDraft
      /\ pc'[a] \in InFlight => pc[a] \in InFlight \/ Room
  BY DEF Keeps, MarkInv, MarkHand
<1>2. MarkHand(a) /\ \A t, v : New(a, t, v)' = New(a, t, v) /\ ~Expects(a, t, v)'
  BY <1>1 DEF MarkInv, New, Expects
<1>3. MarkHand(a)'
  BY <1>1, <1>2 DEF MarkHand
<1>4. \A t \in Stops, v \in Events : a \in Claims(t, v)' => a \in Claims(t, v)
  BY <1>2 DEF Claims
<1> QED BY <1>1, <1>3, <1>4, Quietly

LEMMA AddsKeeps ==
  ASSUME TInv, MarkInv, NEW a \in Actors, Others(a), Adds(a)
  PROVE  MarkInv'
<1>1. PICK s \in Stops, e \in Events, m \in Mark :
        /\ m.stop = s /\ m.event = e
        /\ Expects(a, s, e) \/ Existing(a, s, e) = {}
        /\ draft'[a].marks = Overlay(draft[a].marks, {m})
  BY DEF Adds
<1>2. /\ pc'[a] # "record" /\ marks' = marks /\ pc[a] \in InFlight /\ pc'[a] \in InFlight
      /\ MarkHand(a)
  BY DEF Adds, MarkInv
<1>3. Numbers(draft[a].marks, s, e) = {} /\ (a \in Claims(s, e) \/ Numbers(marks, s, e) = {})
  BY <1>1, <1>2, SeenMarks DEF MarkHand, Claims
<1>4. \A t, v : Numbers(draft'[a].marks, t, v) =
                  Numbers(draft[a].marks, t, v) \cup Numbers({m}, t, v)
  BY <1>1, RowsTyped, NumbersFacts
<1>5. \A t, v : ~Expects(a, t, v)'
  BY <1>2 DEF Expects
<1>6. \A t, v : IF t = s /\ v = e THEN New(a, t, v)' \subseteq {m.copy}
                                  ELSE New(a, t, v)' = New(a, t, v)
  <2>1. \A t, v : Numbers({m}, t, v) = IF t = s /\ v = e THEN {m.copy} ELSE {}
    BY <1>1 DEF Numbers
  <2>2. \A t, v : New(a, t, v)' = Numbers(draft'[a].marks, t, v) \ Numbers(marks, t, v)
    BY <1>2 DEF New
  <2>3. \A t, v : New(a, t, v)' =
          (Numbers(draft[a].marks, t, v) \cup Numbers({m}, t, v)) \ Numbers(marks, t, v)
    BY <1>4, <2>2
  <2> TAKE t, v
  <2>4. CASE t = s /\ v = e
    <3>1. Numbers({m}, t, v) = {m.copy} /\ Numbers(draft[a].marks, t, v) = {}
      BY <1>3, <2>1, <2>4
    <3>2. New(a, t, v)' \subseteq {m.copy}
      BY <2>3, <3>1
    <3> QED BY <2>4, <3>2
  <2>5. CASE ~(t = s /\ v = e)
    <3>1. Numbers({m}, t, v) = {}
      BY <2>1, <2>5
    <3> QED BY <2>3, <2>5, <3>1 DEF New
  <2> QED BY <2>4, <2>5
<1>7. Distinct(draft'[a].marks)
  <2>1. Distinct({m}) /\ {m} \subseteq Mark
    BY DEF Distinct
  <2>2. Distinct(draft[a].marks)
    BY <1>2 DEF MarkHand
  <2>3. Distinct(Overlay(draft[a].marks, {m}))
    <3>1. draft[a].marks \subseteq Mark
      BY RowsTyped
    <3> QED BY <2>1, <2>2, <3>1, StayDistinct
  <2> QED BY <1>1, <2>3
<1>8. MarkHand(a)'
  BY <1>2, <1>5, <1>6, <1>7 DEF MarkHand
<1>9. \A t \in Stops, v \in Events :
        a \in Claims(t, v)' => a \in Claims(t, v) \/ Numbers(marks, t, v) = {}
  BY <1>3, <1>5, <1>6 DEF Claims
<1> QED BY <1>2, <1>8, <1>9, Quietly

LEMMA CorrectsKeeps ==
  ASSUME TInv, MarkInv, NEW a \in Actors, Others(a), Corrects(a)
  PROVE  MarkInv'
<1>1. PICK m \in Mark :
        /\ m.copy \in Numbers(marks, m.stop, m.event) \cup Numbers(draft[a].marks, m.stop, m.event)
        /\ draft'[a].marks = Overlay(draft[a].marks, {m})
  BY DEF Corrects
<1>2. /\ pc'[a] # "record" /\ marks' = marks /\ pc[a] \in InFlight /\ pc'[a] \in InFlight
      /\ MarkHand(a)
  BY DEF Corrects, MarkInv
<1>3. \A t, v : Numbers(draft'[a].marks, t, v) =
                  Numbers(draft[a].marks, t, v) \cup Numbers({m}, t, v)
  BY <1>1, RowsTyped, NumbersFacts
<1>4. \A t, v : ~Expects(a, t, v)'
  BY <1>2 DEF Expects
<1>5. \A t, v : New(a, t, v)' = New(a, t, v)
  <2>1. \A t, v : Numbers({m}, t, v) = IF t = m.stop /\ v = m.event THEN {m.copy} ELSE {}
    BY DEF Numbers
  <2>2. \A t, v : New(a, t, v)' = Numbers(draft'[a].marks, t, v) \ Numbers(marks, t, v)
    BY <1>2 DEF New
  <2>3. \A t, v : New(a, t, v)' =
          (Numbers(draft[a].marks, t, v) \cup Numbers({m}, t, v)) \ Numbers(marks, t, v)
    BY <1>3, <2>2
  <2> TAKE t, v
  <2>4. CASE t = m.stop /\ v = m.event
    <3>1. Numbers({m}, t, v) = {m.copy}
      BY <2>1, <2>4
    <3>2. m.copy \in Numbers(marks, t, v) \cup Numbers(draft[a].marks, t, v)
      BY <1>1, <2>4
    <3> QED BY <2>3, <3>1, <3>2 DEF New
  <2>5. CASE ~(t = m.stop /\ v = m.event)
    <3>1. Numbers({m}, t, v) = {}
      BY <2>1, <2>5
    <3> QED BY <2>3, <3>1 DEF New
  <2> QED BY <2>4, <2>5
<1>6. Distinct(draft'[a].marks)
  <2>1. Distinct({m}) /\ {m} \subseteq Mark
    BY DEF Distinct
  <2>2. Distinct(draft[a].marks)
    BY <1>2 DEF MarkHand
  <2>3. Distinct(Overlay(draft[a].marks, {m}))
    <3>1. draft[a].marks \subseteq Mark
      BY RowsTyped
    <3> QED BY <2>1, <2>2, <3>1, StayDistinct
  <2> QED BY <1>1, <2>3
<1>7. MarkHand(a)'
  BY <1>2, <1>4, <1>5, <1>6 DEF MarkHand
<1>8. \A t \in Stops, v \in Events : a \in Claims(t, v)' => a \in Claims(t, v)
  BY <1>4, <1>5 DEF Claims
<1> QED BY <1>2, <1>7, <1>8, Quietly

LEMMA ForgetsKeeps ==
  ASSUME TInv, MarkInv, NEW a \in Actors, Others(a), Forgets(a)
  PROVE  MarkInv'
<1>1. pc'[a] \notin InFlight /\ pc'[a] # "record" /\ marks' = marks /\ draft'[a] = NoDraft
  BY DEF Forgets
<1>2. MarkHand(a)' /\ \A t, v : a \notin Claims(t, v)'
  <2>1. draft'[a].marks = {}
    BY <1>1 DEF NoDraft
  <2>2. \A t, v : Numbers(draft'[a].marks, t, v) = {} /\ ~Expects(a, t, v)' /\ New(a, t, v)' = {}
    BY <1>1, <2>1 DEF Numbers, Expects, New
  <2>3. MarkHand(a)'
    BY <1>1, <2>1, <2>2 DEF MarkHand, Distinct
  <2> QED BY <2>2, <2>3 DEF Claims
<1> QED BY <1>1, <1>2, Quietly

LEMMA CommitsKeeps ==
  ASSUME TInv, MarkInv, NEW a \in Actors, Others(a), Commits(a)
  PROVE  MarkInv'
<1>1. /\ pc[a] \in InFlight /\ pc'[a] \notin InFlight /\ pc'[a] # "record"
      /\ marks' = Overlay(marks, draft[a].marks) /\ draft'[a] = NoDraft /\ MarkHand(a)
  BY DEF Commits, MarkInv
<1>2. \A s, e : Numbers(marks', s, e) = Numbers(marks, s, e) \cup Numbers(draft[a].marks, s, e)
  BY <1>1, RowsTyped, NumbersFacts
<1>3. Distinct(marks)'
  <2>1. Distinct(marks) /\ Distinct(draft[a].marks)
    BY <1>1 DEF MarkInv, MarkHand
  <2>2. Distinct(Overlay(marks, draft[a].marks))
    BY <2>1, RowsTyped, StayDistinct
  <2>3. Distinct(marks') = Distinct(Overlay(marks, draft[a].marks))
    BY <1>1, Zenon
  <2>4. Distinct(marks')
    BY <2>2, <2>3
  <2> QED BY <2>4 DEF Distinct
<1>4. MarkHand(a)' /\ \A s, e : a \notin Claims(s, e)'
  <2>1. draft'[a].marks = {}
    BY <1>1 DEF NoDraft
  <2>2. \A s, e : Numbers(draft'[a].marks, s, e) = {} /\ ~Expects(a, s, e)' /\ New(a, s, e)' = {}
    BY <1>1, <2>1 DEF Numbers, Expects, New
  <2>3. MarkHand(a)'
    BY <1>1, <2>1, <2>2 DEF MarkHand, Distinct
  <2> QED BY <2>2, <2>3 DEF Claims
<1>5. ASSUME NEW b \in Actors \ {a}
      PROVE  /\ MarkHand(b)'
             /\ \A s \in Stops, e \in Events : b \in Claims(s, e)' => b \in Claims(s, e)
  BY <1>2, OthersHold
<1>6. ASSUME NEW s \in Stops, NEW e \in Events PROVE Few(s, e)'
  <2>1. Claims(s, e)' \subseteq Claims(s, e) \ {a}
    <3>1. Claims(s, e)' \subseteq Actors
      BY DEF Claims
    <3> QED BY <1>4, <1>5, <3>1
  <2>2. CASE New(a, s, e) = {}
    <3>1. Numbers(marks', s, e) = Numbers(marks, s, e)
      BY <1>2, <2>2 DEF New
    <3>2. Claims(s, e)' \in SUBSET Claims(s, e)
      BY <2>1
    <3>3. Cardinality(Claims(s, e)') <= Cardinality(Claims(s, e)) /\ Cardinality(Claims(s, e)') \in Nat
      BY <3>2, SetsFinite, FS_Subset, FS_CardinalityType
    <3>4. Few(s, e)
      BY DEF MarkInv
    <3> QED BY <3>1, <3>3, <3>4, SetsFinite DEF Few
  <2>3. CASE New(a, s, e) # {}
    <3>1. PICK c : New(a, s, e) = {c}
      <4>1. \A c, d \in New(a, s, e) : c = d
        BY <1>1 DEF MarkHand
      <4>2. PICK c : c \in New(a, s, e)
        BY <2>3
      <4>3. New(a, s, e) = {c}
        BY <4>1, <4>2
      <4> QED BY <4>3
    <3>2. Numbers(marks', s, e) = Numbers(marks, s, e) \cup {c} /\ c \notin Numbers(marks, s, e)
      <4>1. Numbers(draft[a].marks, s, e) \ Numbers(marks, s, e) = {c}
        BY <3>1 DEF New
      <4>2. Numbers(marks', s, e) = Numbers(marks, s, e) \cup Numbers(draft[a].marks, s, e)
        BY <1>2
      <4> QED BY <4>1, <4>2
    <3>3. Cardinality(Numbers(marks', s, e)) = Cardinality(Numbers(marks, s, e)) + 1
      BY <3>2, SetsFinite, FS_AddElement
    <3>4. a \in Claims(s, e)
      BY <2>3 DEF Claims
    <3>5. /\ IsFiniteSet(Claims(s, e) \ {a})
          /\ Cardinality(Claims(s, e) \ {a}) = Cardinality(Claims(s, e)) - 1
      BY <3>4, SetsFinite, FS_RemoveElement
    <3>6. /\ Cardinality(Claims(s, e)') <= Cardinality(Claims(s, e)) - 1
          /\ Cardinality(Claims(s, e)') \in Nat
      <4>1. Claims(s, e)' \in SUBSET (Claims(s, e) \ {a})
        BY <2>1
      <4> QED BY <3>5, <4>1, FS_Subset, FS_CardinalityType
    <3>7. Cardinality(Numbers(marks, s, e)) + Cardinality(Claims(s, e)) <= MaxInFlight
      <4>1. CASE Numbers(marks, s, e) # {}
        BY <4>1 DEF MarkInv, Few
      <4>2. CASE Numbers(marks, s, e) = {}
        <5>1. Claims(s, e) \in SUBSET Begun
          <6> SUFFICES ASSUME NEW b \in Claims(s, e), b \notin Begun PROVE FALSE
            OBVIOUS
          <6>1. b \in Actors /\ pc[b] \notin InFlight /\ pc[b] # "record"
            BY DEF Claims, Begun, InFlight
          <6>2. draft[b] = NoDraft
            BY <6>1 DEF MarkInv, MarkHand
          <6>3. New(b, s, e) = {} /\ ~Expects(b, s, e)
            BY <6>1, <6>2 DEF New, Numbers, NoDraft, Expects
          <6> QED BY <6>3 DEF Claims
        <5>2. Cardinality(Claims(s, e)) <= Cardinality(Begun)
          BY <5>1, SetsFinite, FS_Subset
        <5>3. Cardinality(Numbers(marks, s, e)) = 0
          BY <4>2, FS_EmptySet
        <5> QED BY <5>2, <5>3, SetsFinite DEF MarkInv
      <4> QED BY <4>1, <4>2
    <3> QED BY <3>3, <3>6, <3>7, SetsFinite DEF Few
  <2> QED BY <2>2, <2>3
<1>7. Cardinality(Begun)' <= MaxInFlight
  BY <1>1, BegunStays
<1>8. \A b \in Actors : MarkHand(b)'
  BY <1>4, <1>5
<1> QED BY <1>3, <1>6, <1>7, <1>8 DEF MarkInv

LEMMA MarkStepKeeps ==
  ASSUME TInv, MarkInv, NEW a \in Actors, Others(a), MarkStep(a)
  PROVE  MarkInv'
BY LooksKeeps, KeepsKeeps, AddsKeeps, CorrectsKeeps, CommitsKeeps, ForgetsKeeps DEF MarkStep

\* No more marks than numbers, and so no more than transactions.
LEMMA MarksCounted == TInv /\ MarkInv => MarksPerStop
<1> SUFFICES ASSUME TInv, MarkInv, NEW s \in Stops, NEW e \in Events
             PROVE  Cardinality({m \in marks : m.stop = s /\ m.event = e}) <= MaxInFlight
  BY DEF MarksPerStop, Events
<1> DEFINE rows == {m \in marks : m.stop = s /\ m.event = e}
           f == [m \in rows |-> m.copy]
<1>1. f \in Injection(rows, Numbers(marks, s, e))
  <2>1. \A m, n \in rows : m.copy = n.copy => SameRow(m, n)
    BY DEF SameRow, Mark, TInv, TypeOK, RecTypeOK
  <2>2. \A m, n \in rows : f[m] = f[n] => m = n
    BY <2>1 DEF MarkInv, Distinct
  <2>3. f \in [rows -> Numbers(marks, s, e)]
    BY DEF Numbers
  <2> HIDE DEF f, rows
  <2> QED BY <2>2, <2>3 DEF Injection, IsInjective
<1>2. Cardinality(rows) <= Cardinality(Numbers(marks, s, e)) /\ Cardinality(rows) \in Nat
  <2> HIDE DEF rows, f
  <2>1. IsFiniteSet(rows) /\ Cardinality(rows) <= Cardinality(Numbers(marks, s, e))
    BY <1>1, SetsFinite, FS_Injection
  <2> QED BY <2>1, FS_CardinalityType
<1>3. Cardinality(Numbers(marks, s, e)) <= MaxInFlight
  <2>1. CASE Numbers(marks, s, e) = {}
    BY <2>1, FS_EmptySet, SetsFinite
  <2>2. CASE Numbers(marks, s, e) # {}
    BY <2>2, SetsFinite DEF MarkInv, Few
  <2> QED BY <2>1, <2>2
<1> QED BY <1>2, <1>3, SetsFinite

-----------------------------------------------------------------------------
(* Fines: who writes one that is settled has read it before it was.          *)
Saver == {"late", "onTime", "lateStop", "onTimeStop"}

\* What a has found, or goes through, to settle it.
ToSettle(a) ==
  /\ pc[a] \in Saver /\ found[a] # NULL => found[a] \in Fine /\ found[a].status = "TENTATIVE"
  /\ pc[a] = "confirm" => \A f \in left[a] : f \in Fine /\ f.status = "TENTATIVE"

\* The fines of S do not settle anew one of T.
Fresh(S, T) == \A g \in S, f \in T : SameRow(f, g) => f.status = "TENTATIVE"

FineHand(a) ==
  /\ Distinct(draft[a].fines)
  /\ ~draft[a].stale => Fresh(draft[a].fines, fines)
  /\ ToSettle(a)

\* A row is in the hands of one.
Apart(S, T) == \A x \in S, y \in T : ~SameRow(x, y)

FineInv ==
  /\ Distinct(fines)
  /\ \A a \in Actors : FineHand(a)
  /\ \A a, b \in Actors : a # b => Apart(draft[a].fines, draft[b].fines)

\* It writes no fine.
KeepsFines(a) ==
  fines' = fines /\ draft'[a].fines = draft[a].fines /\ draft'[a].stale = draft[a].stale

\* It writes a fine of its own.
AddsFine(a) ==
  /\ fines' = fines /\ draft'[a].stale = draft[a].stale
  /\ \E f \in Fine : /\ \A g \in AllFines : g.no # f.no
                     /\ draft'[a].fines = Overlay(draft[a].fines, {f})

\* It writes over the TENTATIVE fine it has in hand.
SavesFine(a) ==
  /\ fines' = fines
  /\ \E f, g \in Fine :
       /\ f.status = "TENTATIVE" /\ g.no = f.no /\ Unlocked(a, f)
       /\ draft'[a].fines = Overlay(draft[a].fines, {g})
       /\ ~draft'[a].stale => ~draft[a].stale /\ f \in Fines(a)

CommitsFines(a) == fines' = Overlay(fines, draft[a].fines) /\ draft'[a] = NoDraft

ForgetsFines(a) == fines' = fines /\ draft'[a] = NoDraft

FineStep(a) ==
  \/ KeepsFines(a) \/ AddsFine(a) \/ SavesFine(a) \/ CommitsFines(a) \/ ForgetsFines(a)

\* A request of the office, or the midnight reset.
Annuls(T) ==
  /\ T \subseteq fines /\ \A f \in T : f.status = "TENTATIVE"
  /\ \A a \in Actors, f \in T : ~LockedBy(a, f)
  /\ fines' = Overlay(fines, {[f EXCEPT !.status = "ANNULLED"] : f \in T})

LEMMA SameFine ==
  ASSUME NEW f \in Fine, NEW g \in Fine
  PROVE  SameRow(f, g) <=> f.no = g.no
BY DEF SameRow, Fine

\* Those who do not move keep their fines apart from those of the one who does.
LEMMA FinesApart ==
  ASSUME TInv, FineInv, NEW a \in Actors, Others(a),
         \A b \in Actors \ {a} : Apart(draft'[a].fines, draft[b].fines),
         draft'[a].fines \subseteq Fine
  PROVE  \A c, b \in Actors : c # b => Apart(draft'[c].fines, draft'[b].fines)
<1> SUFFICES ASSUME NEW c \in Actors, NEW b \in Actors, c # b
             PROVE  Apart(draft'[c].fines, draft'[b].fines)
  OBVIOUS
<1>1. \A d \in Actors \ {a} : draft'[d] = draft[d]
  BY DEF Others
<1>2. CASE c # a /\ b # a
  BY <1>1, <1>2 DEF FineInv
<1>3. CASE c = a
  BY <1>1, <1>3
<1>4. CASE b = a
  <2>1. Apart(draft'[b].fines, draft[c].fines) /\ draft'[c] = draft[c]
    BY <1>1, <1>4
  <2>2. draft[c].fines \subseteq Fine /\ draft'[b].fines \subseteq Fine
    BY <1>4, RowsTyped
  <2> QED BY <2>1, <2>2, SameFine DEF Apart
<1> QED BY <1>2, <1>3, <1>4

\* A step that does not touch the table keeps the invariant if a's draft is good.
LEMMA FinesStay ==
  ASSUME TInv, FineInv, NEW a \in Actors, Others(a), fines' = fines, ToSettle(a)',
         Distinct(draft'[a].fines), ~draft'[a].stale => Fresh(draft'[a].fines, fines),
         draft'[a].fines \subseteq Fine,
         \A b \in Actors \ {a} : Apart(draft'[a].fines, draft[b].fines)
  PROVE  FineInv'
<1>1. \A c, b \in Actors : c # b => Apart(draft'[c].fines, draft'[b].fines)
  BY FinesApart
<1>2. ASSUME NEW b \in Actors \ {a} PROVE FineHand(b)'
  <2>1. FineHand(b) /\ pc'[b] = pc[b] /\ draft'[b] = draft[b] /\ found'[b] = found[b]
    BY DEF FineInv, Others
  <2>2. pc[b] = "confirm" => left'[b] = left[b]
    <3>1. b \in Jobs => left'[b] = left[b]
      BY DEF Others
    <3>2. b \in Requests => pc[b] # "confirm"
      BY DEF TInv, Ordered, Reporting
    <3> QED BY <3>1, <3>2 DEF Actors
  <2>3. ToSettle(b)'
    BY <2>1, <2>2 DEF FineHand, ToSettle
  <2> QED BY <2>1, <2>3 DEF FineHand, Fresh, Distinct
<1>3. FineHand(a)'
  BY DEF FineHand, Fresh, Distinct
<1>4. Distinct(fines)'
  BY DEF FineInv, Distinct
<1> QED BY <1>1, <1>2, <1>3, <1>4 DEF FineInv, Apart

LEMMA KeepsFinesKeeps ==
  ASSUME TInv, FineInv, NEW a \in Actors, Others(a), KeepsFines(a), ToSettle(a)'
  PROVE  FineInv'
<1>1. fines' = fines /\ draft'[a].fines = draft[a].fines /\ draft'[a].stale = draft[a].stale
  BY DEF KeepsFines
<1>2. FineHand(a) /\ draft[a].fines \subseteq Fine
  BY RowsTyped DEF FineInv
<1>3. \A b \in Actors \ {a} : Apart(draft'[a].fines, draft[b].fines)
  BY <1>1 DEF FineInv
<1>4. Distinct(draft'[a].fines) /\ (~draft'[a].stale => Fresh(draft'[a].fines, fines))
  BY <1>1, <1>2 DEF FineHand
<1> QED BY <1>1, <1>2, <1>3, <1>4, FinesStay

LEMMA AddsFineKeeps ==
  ASSUME TInv, FineInv, NEW a \in Actors, Others(a), AddsFine(a), ToSettle(a)'
  PROVE  FineInv'
<1>1. PICK f \in Fine : /\ \A g \in AllFines : g.no # f.no
                        /\ draft'[a].fines = Overlay(draft[a].fines, {f})
  BY DEF AddsFine
<1>2. fines' = fines /\ draft'[a].stale = draft[a].stale
  BY DEF AddsFine
<1>3. FineHand(a) /\ draft[a].fines \subseteq Fine /\ fines \subseteq Fine
  BY RowsTyped DEF FineInv
<1>4. draft'[a].fines \subseteq draft[a].fines \cup {f}
  BY <1>1 DEF Overlay
<1>5. Distinct(draft'[a].fines)
  <2>1. Distinct({f}) /\ {f} \subseteq Fine /\ Distinct(draft[a].fines)
    BY <1>3 DEF Distinct, FineHand
  <2>2. Distinct(Overlay(draft[a].fines, {f}))
    BY <1>3, <2>1, StayDistinct
  <2> QED BY <1>1, <2>2
<1>6. \A g \in fines : ~SameRow(g, f)
  BY <1>1, <1>3, SameFine DEF AllFines
<1>7. ~draft'[a].stale => Fresh(draft'[a].fines, fines)
  BY <1>2, <1>3, <1>4, <1>6 DEF FineHand, Fresh
<1>8. ASSUME NEW b \in Actors \ {a} PROVE Apart(draft'[a].fines, draft[b].fines)
  <2>1. draft[b].fines \subseteq AllFines /\ draft[b].fines \subseteq Fine
    BY RowsTyped DEF AllFines
  <2>2. \A g \in draft[b].fines : ~SameRow(f, g)
    BY <1>1, <2>1, SameFine
  <2>3. Apart(draft[a].fines, draft[b].fines)
    BY DEF FineInv
  <2> QED BY <1>4, <2>2, <2>3 DEF Apart
<1>9. draft'[a].fines \subseteq Fine
  BY <1>3, <1>4
<1> QED BY <1>2, <1>5, <1>7, <1>8, <1>9, FinesStay

LEMMA SavesFineKeeps ==
  ASSUME TInv, FineInv, NEW a \in Actors, Others(a), SavesFine(a), ToSettle(a)'
  PROVE  FineInv'
<1>1. PICK f \in Fine, g \in Fine :
        /\ f.status = "TENTATIVE" /\ g.no = f.no /\ Unlocked(a, f)
        /\ draft'[a].fines = Overlay(draft[a].fines, {g})
        /\ ~draft'[a].stale => ~draft[a].stale /\ f \in Fines(a)
  BY DEF SavesFine
<1>2. fines' = fines
  BY DEF SavesFine
<1>3. FineHand(a) /\ draft[a].fines \subseteq Fine /\ fines \subseteq Fine /\ Distinct(fines)
  BY RowsTyped DEF FineInv
<1>4. draft'[a].fines \subseteq draft[a].fines \cup {g}
  BY <1>1 DEF Overlay
<1>5. Distinct(draft'[a].fines)
  <2>1. Distinct({g}) /\ {g} \subseteq Fine /\ Distinct(draft[a].fines)
    BY <1>3 DEF Distinct, FineHand
  <2>2. Distinct(Overlay(draft[a].fines, {g}))
    BY <1>3, <2>1, StayDistinct
  <2> QED BY <1>1, <2>2
<1>6. ASSUME ~draft'[a].stale PROVE Fresh(draft'[a].fines, fines)
  <2>1. f \in fines \cup draft[a].fines /\ Fresh(draft[a].fines, fines)
    BY <1>1, <1>3, <1>6 DEF Fines, Overlay, FineHand
  <2>2. ASSUME NEW h \in fines, SameRow(h, g) PROVE h.status = "TENTATIVE"
    <3>1. SameRow(h, f)
      BY <1>1, <1>3, <2>2, SameFine
    <3>2. CASE f \in fines
      BY <1>1, <1>3, <3>1, <3>2 DEF Distinct
    <3>3. CASE f \in draft[a].fines
      BY <2>1, <3>1, <3>3 DEF Fresh
    <3> QED BY <2>1, <3>2, <3>3
  <2> QED BY <1>4, <2>1, <2>2 DEF Fresh
<1>7. ASSUME NEW b \in Actors \ {a} PROVE Apart(draft'[a].fines, draft[b].fines)
  <2>1. \A h \in draft[b].fines : ~SameRow(f, h)
    BY <1>1 DEF Unlocked, LockedBy
  <2>2. draft[b].fines \subseteq Fine
    BY RowsTyped
  <2>3. \A h \in draft[b].fines : ~SameRow(g, h)
    BY <1>1, <2>1, <2>2, SameFine
  <2>4. Apart(draft[a].fines, draft[b].fines)
    BY DEF FineInv
  <2> QED BY <1>4, <2>3, <2>4 DEF Apart
<1>8. draft'[a].fines \subseteq Fine
  BY <1>3, <1>4
<1> QED BY <1>2, <1>5, <1>6, <1>7, <1>8, FinesStay

LEMMA ForgetsFinesKeeps ==
  ASSUME TInv, FineInv, NEW a \in Actors, Others(a), ForgetsFines(a), ToSettle(a)'
  PROVE  FineInv'
<1>1. fines' = fines /\ draft'[a].fines = {}
  BY DEF ForgetsFines, NoDraft
<1>2. Distinct({}) /\ Fresh({}, fines) /\ \A S : Apart({}, S)
  BY DEF Distinct, Fresh, Apart
<1>3. /\ Distinct(draft'[a].fines) /\ Fresh(draft'[a].fines, fines)
      /\ \A S : Apart(draft'[a].fines, S)
  BY <1>1, <1>2
<1> QED BY <1>1, <1>3, FinesStay

\* The table changes by the commit of rows that nobody else has in hand.
LEMMA TableTurns ==
  ASSUME TInv, FineInv, NEW W, W \subseteq Fine, Distinct(W), fines' = Overlay(fines, W),
         NEW b \in Actors, Apart(draft[b].fines, W)
  PROVE  ~draft[b].stale => Fresh(draft[b].fines, fines')
<1> SUFFICES ASSUME ~draft[b].stale, NEW g \in draft[b].fines, NEW f \in fines', SameRow(f, g)
             PROVE  f.status = "TENTATIVE"
  BY DEF Fresh
<1>1. f \in fines \cup W
  BY DEF Overlay
<1>2. f \notin W
  <2>1. draft[b].fines \subseteq Fine
    BY RowsTyped
  <2> QED BY <2>1, SameFine DEF Apart
<1>3. Fresh(draft[b].fines, fines)
  BY DEF FineInv, FineHand
<1> QED BY <1>1, <1>2, <1>3 DEF Fresh

LEMMA CommitsFinesKeeps ==
  ASSUME TInv, FineInv, NEW a \in Actors, Others(a), CommitsFines(a), ToSettle(a)'
  PROVE  FineInv'
<1>1. fines' = Overlay(fines, draft[a].fines) /\ draft'[a].fines = {}
  BY DEF CommitsFines, NoDraft
<1>2. /\ Distinct(draft[a].fines) /\ Distinct(fines)
      /\ draft[a].fines \subseteq Fine /\ fines \subseteq Fine
  BY RowsTyped DEF FineInv, FineHand
<1>3. Distinct(fines)'
  <2>1. Distinct(Overlay(fines, draft[a].fines))
    BY <1>2, StayDistinct
  <2>2. Distinct(fines')
    BY <1>1, <2>1
  <2> QED BY <2>2 DEF Distinct
<1>4. \A S : Apart({}, S)
  BY DEF Apart
<1>5. \A c, b \in Actors : c # b => Apart(draft'[c].fines, draft'[b].fines)
  BY <1>1, <1>4, FinesApart
<1>6. FineHand(a)'
  BY <1>1 DEF FineHand, Fresh, Distinct
<1>7. ASSUME NEW b \in Actors \ {a} PROVE FineHand(b)'
  <2>1. FineHand(b) /\ pc'[b] = pc[b] /\ draft'[b] = draft[b] /\ found'[b] = found[b]
    BY DEF FineInv, Others
  <2>2. pc[b] = "confirm" => left'[b] = left[b]
    <3>1. b \in Jobs => left'[b] = left[b]
      BY DEF Others
    <3>2. b \in Requests => pc[b] # "confirm"
      BY DEF TInv, Ordered, Reporting
    <3> QED BY <3>1, <3>2 DEF Actors
  <2>3. ToSettle(b)'
    BY <2>1, <2>2 DEF FineHand, ToSettle
  <2>4. Apart(draft[b].fines, draft[a].fines)
    BY DEF FineInv
  <2>5. ~draft[b].stale => Fresh(draft[b].fines, fines')
    BY <1>1, <1>2, <2>4, TableTurns
  <2> QED BY <2>1, <2>3, <2>5 DEF FineHand, Fresh, Distinct
<1>8. \A b \in Actors : FineHand(b)'
  BY <1>6, <1>7
<1> QED BY <1>3, <1>5, <1>8 DEF FineInv, Apart

LEMMA FineStepKeeps ==
  ASSUME TInv, FineInv, NEW a \in Actors, Others(a), FineStep(a), ToSettle(a)'
  PROVE  FineInv'
BY KeepsFinesKeeps, AddsFineKeeps, SavesFineKeeps, CommitsFinesKeeps, ForgetsFinesKeeps DEF FineStep

LEMMA AnnulKeeps ==
  ASSUME TInv, FineInv, UNCHANGED <<pc, found, draft, left>>, NEW T, Annuls(T)
  PROVE  FineInv'
<1> DEFINE W == {[f EXCEPT !.status = "ANNULLED"] : f \in T}
<1>1. /\ Distinct(fines) /\ fines \subseteq Fine /\ T \subseteq fines
      /\ \A a \in Actors, f \in T : ~LockedBy(a, f)
      /\ fines' = Overlay(fines, W)
  BY RowsTyped DEF FineInv, Annuls, TInv, TypeOK, RecTypeOK
<1>2. W \subseteq Fine
  BY <1>1 DEF Fine
<1>3. Distinct(W)
  <2> SUFFICES ASSUME NEW f \in T, NEW g \in T,
                      SameRow([f EXCEPT !.status = "ANNULLED"], [g EXCEPT !.status = "ANNULLED"])
               PROVE  f = g
    BY DEF Distinct
  <2>1. f \in Fine /\ g \in Fine
    BY <1>1
  <2>2. f.no = g.no
    BY <2>1 DEF SameRow, Fine
  <2> QED BY <1>1, <2>1, <2>2, SameFine DEF Distinct
<1>4. Distinct(fines)'
  <2>1. Distinct(Overlay(fines, W))
    BY <1>1, <1>2, <1>3, StayDistinct
  <2>2. Distinct(fines')
    BY <1>1, <2>1
  <2> QED BY <2>2 DEF Distinct
<1>5. ASSUME NEW b \in Actors PROVE FineHand(b)'
  <2>1. Apart(draft[b].fines, W)
    <3> SUFFICES ASSUME NEW y \in draft[b].fines, NEW f \in T,
                        SameRow(y, [f EXCEPT !.status = "ANNULLED"])
                 PROVE  FALSE
      BY DEF Apart
    <3>1. f \in Fine /\ y \in Fine
      BY <1>1, RowsTyped
    <3>2. SameRow(f, y)
      BY <3>1 DEF SameRow, Fine
    <3> QED BY <1>1, <3>2 DEF LockedBy
  <2> HIDE DEF W
  <2>2. ~draft[b].stale => Fresh(draft[b].fines, fines')
    BY <1>1, <1>2, <1>3, <2>1, TableTurns
  <2>3. FineHand(b)
    BY DEF FineInv
  <2> QED BY <2>2, <2>3 DEF FineHand, ToSettle, Fresh, Distinct
<1> QED BY <1>4, <1>5 DEF FineInv, Apart

-----------------------------------------------------------------------------
(* What a step may not do.                                                   *)
StaleSave(f) ==
  \E a \in Actors : /\ draft[a].stale
                    /\ \E g \in draft[a].fines : SameRow(f, g) /\ g \in fines'

LEMMA CommitIsStale ==
  ASSUME TInv, FineInv, NEW a \in Actors, FineStep(a),
         NEW f \in fines, f.status # "TENTATIVE", f \notin fines'
  PROVE  StaleSave(f)
<1>1. fines' = Overlay(fines, draft[a].fines)
  BY DEF FineStep, KeepsFines, AddsFine, SavesFine, CommitsFines, ForgetsFines
<1>2. PICK g \in draft[a].fines : SameRow(f, g)
  BY <1>1 DEF Overlay
<1>3. g \in fines'
  BY <1>1 DEF Overlay
<1>4. draft[a].stale
  BY <1>2 DEF FineInv, FineHand, Fresh
<1> QED BY <1>2, <1>3, <1>4 DEF StaleSave

LEMMA AnnulIsNot ==
  ASSUME TInv, FineInv, NEW T, Annuls(T), NEW f \in fines, f.status # "TENTATIVE"
  PROVE  f \in fines'
<1>1. /\ Distinct(fines) /\ fines \subseteq Fine /\ T \subseteq fines
      /\ \A g \in T : g.status = "TENTATIVE"
  BY DEF FineInv, Annuls, TInv, TypeOK, RecTypeOK
<1>2. ASSUME NEW g \in T, SameRow(f, [g EXCEPT !.status = "ANNULLED"]) PROVE FALSE
  <2>1. f \in Fine /\ g \in Fine
    BY <1>1
  <2>2. SameRow(f, g)
    BY <1>2, <2>1 DEF SameRow, Fine
  <2> QED BY <1>1, <2>2 DEF Distinct
<1> QED BY <1>2 DEF Annuls, Overlay

-----------------------------------------------------------------------------
(* Every step is one of these.                                               *)
RInv == TInv /\ MarkInv /\ FineInv

Turn(a) == Others(a) /\ MarkStep(a) /\ FineStep(a) /\ ToSettle(a)'

\* A request that moves, and a job, leave the rest alone.
LEMMA RequestAlone ==
  ASSUME TInv, NEW r \in Requests, UNCHANGED queueVars, NEW l, NEW d, NEW f, NEW t,
         pc' = [pc EXCEPT ![r] = l], draft' = [draft EXCEPT ![r] = d],
         found' = [found EXCEPT ![r] = f], todo' = [todo EXCEPT ![r] = t]
  PROVE  /\ Others(r) /\ r \in Actors /\ r \notin Jobs
         /\ pc'[r] = l /\ draft'[r] = d /\ found'[r] = f /\ todo'[r] = t
<1>1. /\ DOMAIN pc = Actors /\ DOMAIN draft = Actors /\ DOMAIN found = Actors
      /\ DOMAIN todo = Requests /\ r \in Actors /\ r \notin Jobs
  BY CheckpointAssumptions DEF TInv, TypeOK, RecTypeOK, Actors
<1>2. left' = left
  BY DEF queueVars
<1> QED BY <1>1, <1>2 DEF Others

LEMMA JobAlone ==
  ASSUME TInv, NEW j \in Jobs, UNCHANGED todo,
         \E l : pc' = [pc EXCEPT ![j] = l], \E d : draft' = [draft EXCEPT ![j] = d],
         \E f : found' = [found EXCEPT ![j] = f], \E w : left' = [left EXCEPT ![j] = w]
  PROVE  /\ Others(j) /\ j \in Actors /\ j \notin Requests
         /\ \A l : pc' = [pc EXCEPT ![j] = l] => pc'[j] = l
         /\ \A d : draft' = [draft EXCEPT ![j] = d] => draft'[j] = d
         /\ \A f : found' = [found EXCEPT ![j] = f] => found'[j] = f
         /\ \A w : left' = [left EXCEPT ![j] = w] => left'[j] = w
<1>1. /\ DOMAIN pc = Actors /\ DOMAIN draft = Actors /\ DOMAIN found = Actors
      /\ DOMAIN left = Jobs /\ j \in Actors /\ j \notin Requests
  BY CheckpointAssumptions DEF TInv, TypeOK, RecTypeOK, Actors
<1>2. Others(j)
  BY <1>1 DEF Others
<1> QED BY <1>1, <1>2

\* What does not change can be said to change to what it is.
LEMMA Itself ==
  ASSUME TInv
  PROVE  /\ \A a \in Actors : /\ pc = [pc EXCEPT ![a] = pc[a]]
                              /\ draft = [draft EXCEPT ![a] = draft[a]]
                              /\ found = [found EXCEPT ![a] = found[a]]
         /\ \A r \in Requests : todo = [todo EXCEPT ![r] = todo[r]]
         /\ \A j \in Jobs : left = [left EXCEPT ![j] = left[j]]
<1>1. /\ pc = [a \in Actors |-> pc[a]] /\ draft = [a \in Actors |-> draft[a]]
      /\ found = [a \in Actors |-> found[a]] /\ todo = [r \in Requests |-> todo[r]]
      /\ left = [j \in Jobs |-> left[j]]
  BY DEF TInv, TypeOK, RecTypeOK
<1> QED BY <1>1

\* A request that writes nothing.
LEMMA QuietRequest ==
  ASSUME RInv, NEW r \in Requests, Others(r), UNCHANGED <<marks, fines>>, draft'[r] = draft[r],
         pc'[r] # "record", pc'[r] \notin Saver \cup {"confirm"},
         \/ pc[r] \in InFlight /\ pc'[r] \in InFlight
         \/ pc[r] \notin InFlight /\ (pc'[r] \in InFlight => Room)
  PROVE  Turn(r)
<1>1. Keeps(r) /\ KeepsFines(r)
  BY DEF Keeps, KeepsFines
<1>2. ToSettle(r)'
  BY DEF ToSettle
<1> QED BY <1>1, <1>2 DEF Turn, MarkStep, FineStep

LEMMA TurnBegin ==
  ASSUME RInv, NEW r \in Requests, Begin(r), UNCHANGED queueVars
  PROVE  Turn(r)
<1>1. PICK k, t : BeginAs(r, k, t)
  BY DEF Begin, BeginWebhook, BeginConciliation, BeginSync
<1>2. /\ pc[r] = "idle" /\ Room /\ todo' = [todo EXCEPT ![r] = t]
      /\ pc' = [pc EXCEPT ![r] = "find"] /\ UNCHANGED <<marks, fines, found, draft>>
  BY <1>1 DEF BeginAs, tables
<1>3. r \in Actors
  BY DEF Actors
<1>4. Others(r) /\ pc'[r] = "find" /\ draft'[r] = draft[r]
  <2>1. draft' = [draft EXCEPT ![r] = draft[r]] /\ found' = [found EXCEPT ![r] = found[r]]
    BY <1>2, <1>3, Itself DEF RInv
  <2> QED BY <1>2, <2>1, RequestAlone DEF RInv
<1> QED BY <1>2, <1>4, QuietRequest DEF InFlight, Saver

LEMMA TurnFind ==
  ASSUME RInv, NEW r \in Requests, Find(r), UNCHANGED queueVars
  PROVE  Turn(r)
<1>1. /\ pc[r] = "find" /\ pc' = [pc EXCEPT ![r] = "record"]
      /\ UNCHANGED <<marks, fines, todo, draft>>
  BY DEF Find, tables
<1> DEFINE rows == Existing(r, Head(todo[r]).stop, Head(todo[r]).event)
<1>2. PICK m \in IF rows = {} THEN {NULL} ELSE rows : found' = [found EXCEPT ![r] = m]
  BY DEF Find
<1>3. r \in Actors
  BY DEF Actors
<1>4. /\ Others(r) /\ pc'[r] = "record" /\ draft'[r] = draft[r] /\ found'[r] = m
      /\ todo'[r] = todo[r]
  <2>1. draft' = [draft EXCEPT ![r] = draft[r]] /\ todo' = [todo EXCEPT ![r] = todo[r]]
    BY <1>1, <1>3, Itself DEF RInv
  <2>2. /\ pc' = [pc EXCEPT ![r] = "record"] /\ found' = [found EXCEPT ![r] = m]
        /\ TInv /\ MarkInv
    BY <1>1, <1>2 DEF RInv
  <2> HIDE DEF rows
  <2> QED BY <2>1, <2>2, RequestAlone
<1>5. Looks(r)
  BY <1>1, <1>2, <1>4 DEF Looks
<1>6. KeepsFines(r) /\ ToSettle(r)'
  BY <1>1, <1>4 DEF KeepsFines, ToSettle, Saver
<1> QED BY <1>4, <1>5, <1>6 DEF Turn, MarkStep, FineStep

\* The steps that end a report: what has become of the draft is said of each.
LEMMA AdvanceAlone ==
  ASSUME TInv, NEW r \in Requests, Advance(r), UNCHANGED queueVars, NEW d,
         draft' = [draft EXCEPT ![r] = d]
  PROVE  Others(r) /\ r \in Actors /\ pc'[r] = "find" /\ draft'[r] = d
<1>1. /\ pc' = [pc EXCEPT ![r] = "find"] /\ todo' = [todo EXCEPT ![r] = Tail(todo[r])]
      /\ found' = [found EXCEPT ![r] = NULL]
  BY HandFacts DEF Advance, TInv, TypeOK, RecTypeOK
<1> QED BY <1>1, RequestAlone

LEMMA GoOnAlone ==
  ASSUME TInv, NEW r \in Requests, NEW step, GoOn(r, step), UNCHANGED queueVars, NEW d,
         draft' = [draft EXCEPT ![r] = d]
  PROVE  Others(r) /\ r \in Actors /\ pc'[r] = step /\ draft'[r] = d
<1>1. r \in Actors
  BY DEF Actors
<1>2. todo' = [todo EXCEPT ![r] = todo[r]] /\ found' = [found EXCEPT ![r] = found[r]]
  BY <1>1, Itself DEF GoOn
<1>3. pc' = [pc EXCEPT ![r] = step]
  BY DEF GoOn
<1> QED BY <1>1, <1>2, <1>3, RequestAlone

LEMMA TurnSkip ==
  ASSUME RInv, NEW r \in Requests, Skip(r), UNCHANGED queueVars
  PROVE  Turn(r)
<1>1. pc[r] = "record" /\ Advance(r) /\ UNCHANGED <<marks, fines, draft>>
  BY DEF Skip, tables
<1>2. draft' = [draft EXCEPT ![r] = draft[r]]
  BY <1>1, Itself DEF RInv, Actors
<1>3. Others(r) /\ pc'[r] = "find" /\ draft'[r] = draft[r]
  BY <1>1, <1>2, AdvanceAlone DEF RInv
<1> QED BY <1>1, <1>3, QuietRequest DEF InFlight, Saver

\* What follows a mark that is written.
LEMMA AfterMark ==
  ASSUME TInv, NEW r \in Requests, UNCHANGED queueVars, NEW x, NEW d,
         draft' = [draft EXCEPT ![r] = d],
         AfterNew(r, x) \/ AfterRectified(r, x) \/ Advance(r)
  PROVE  /\ Others(r) /\ r \in Actors /\ draft'[r] = d
         /\ pc'[r] \in {"find", "issue", "judge", "complete"}
<1>1. Advance(r) \/ \E l \in {"issue", "judge", "complete"} : GoOn(r, l)
  BY DEF AfterNew, AfterRectified
<1>2. CASE Advance(r)
  BY <1>2, AdvanceAlone
<1>3. CASE \E l \in {"issue", "judge", "complete"} : GoOn(r, l)
  BY <1>3, GoOnAlone
<1> QED BY <1>1, <1>2, <1>3

LEMMA TurnMark ==
  ASSUME RInv, NEW r \in Requests, NEW m \in Mark, Others(r), UNCHANGED <<marks, fines>>,
         pc[r] = "record", pc'[r] \in {"find", "issue", "judge", "complete"},
         draft'[r] = WriteMark(draft[r], m),
         \/ Expects(r, m.stop, m.event)
         \/ m.copy \in Numbers(marks, m.stop, m.event) \cup Numbers(draft[r].marks, m.stop, m.event)
  PROVE  Turn(r)
<1>1. draft[r] \in Draft /\ r \in Actors
  BY HandFacts DEF RInv
<1>2. /\ draft'[r].marks = Overlay(draft[r].marks, {m})
      /\ draft'[r].fines = draft[r].fines /\ draft'[r].stale = draft[r].stale
  BY <1>1 DEF WriteMark, Draft
<1>3. m.stop \in Stops /\ m.event \in Events
  BY DEF Mark, Events
<1>4. Adds(r) \/ Corrects(r)
  <2>1. pc[r] \in InFlight /\ pc'[r] \in InFlight /\ pc'[r] # "record"
    BY DEF InFlight
  <2> QED BY <1>2, <1>3, <2>1 DEF Adds, Corrects
<1>5. KeepsFines(r) /\ ToSettle(r)'
  BY <1>2 DEF KeepsFines, ToSettle, Saver
<1> QED BY <1>4, <1>5 DEF Turn, MarkStep, FineStep

LEMMA TurnEntry ==
  ASSUME RInv, NEW r \in Requests, RecordEntry(r), UNCHANGED queueVars
  PROVE  Turn(r)
<1> DEFINE x == Head(todo[r])
           source == IF kind[r] = "SYNC" THEN "PWA" ELSE "TRACCAR"
           m == NewMark(x.stop, "enter", x.time, source, 0)
<1>1. /\ pc[r] = "record" /\ x.event = "enter" /\ found[r] = NULL
      /\ draft' = [draft EXCEPT ![r] = WriteMark(draft[r], m)]
      /\ AfterNew(r, x) /\ UNCHANGED <<marks, fines>>
  <2>1. draft' = [draft EXCEPT ![r] = WriteMark(@, m)]
    BY DEF RecordEntry
  <2> QED BY <2>1 DEF RecordEntry, IsNew, tables
<1>2. m \in Mark
  <2>1. x \in Reports
    BY <1>1, HandFacts DEF RInv
  <2> QED BY <2>1, NewMarkFacts DEF Reports, Sources, RInv, TInv
<1>3. Expects(r, m.stop, m.event)
  BY <1>1 DEF Expects, NewMark
<1> HIDE DEF m, x
<1>4. /\ Others(r) /\ draft'[r] = WriteMark(draft[r], m)
      /\ pc'[r] \in {"find", "issue", "judge", "complete"}
  BY <1>1, AfterMark DEF RInv
<1> QED BY <1>1, <1>2, <1>3, <1>4, TurnMark

LEMMA TurnExit ==
  ASSUME RInv, NEW r \in Requests, RecordExit(r), UNCHANGED queueVars
  PROVE  Turn(r)
<1> DEFINE x == Head(todo[r])
           m == NewMark(x.stop, "exit", x.time, "TRACCAR", Stay(r, x))
<1>1. /\ pc[r] = "record" /\ x.event = "exit" /\ found[r] = NULL
      /\ draft' = [draft EXCEPT ![r] = WriteMark(draft[r], m)]
      /\ Advance(r) /\ UNCHANGED <<marks, fines>>
  <2>1. draft' = [draft EXCEPT ![r] = WriteMark(@, m)]
    BY DEF RecordExit
  <2> QED BY <2>1 DEF RecordExit, tables
<1>2. m \in Mark
  <2>1. x \in Reports
    BY <1>1, HandFacts DEF RInv
  <2>2. Stay(r, x) \in Nat
    BY <2>1, StayTyped DEF RInv
  <2> QED BY <2>1, <2>2, NewMarkFacts DEF Reports, Sources, RInv, TInv
<1>3. Expects(r, m.stop, m.event)
  BY <1>1 DEF Expects, NewMark
<1> HIDE DEF m, x
<1>4. /\ Others(r) /\ draft'[r] = WriteMark(draft[r], m)
      /\ pc'[r] \in {"find", "issue", "judge", "complete"}
  BY <1>1, AfterMark DEF RInv
<1> QED BY <1>1, <1>2, <1>3, <1>4, TurnMark

LEMMA TurnRectify ==
  ASSUME RInv, NEW r \in Requests, Rectify(r), UNCHANGED queueVars
  PROVE  Turn(r)
<1> DEFINE x == Head(todo[r])
           m == Rectified(found[r], x.time)
<1>1. /\ pc[r] = "record" /\ found[r] # NULL /\ UNCHANGED <<marks, fines>>
      /\ draft' = [draft EXCEPT ![r] = WriteMark(draft[r], m)]
      /\ AfterRectified(r, x)
  <2>1. draft' = [draft EXCEPT ![r] = WriteMark(@, m)]
    BY DEF Rectify
  <2> QED BY <2>1 DEF Rectify, tables
<1>2. found[r] \in Mark /\ x \in Reports /\ r \in Actors
  BY <1>1, HandFacts DEF RInv, TInv, Ordered
<1>3. m \in Mark /\ m.stop = found[r].stop /\ m.event = found[r].event /\ m.copy = found[r].copy
  BY <1>2 DEF Rectified, Mark, Reports, Sources
<1>4. m.copy \in Numbers(marks, m.stop, m.event) \cup Numbers(draft[r].marks, m.stop, m.event)
  <2>1. MarkHand(r)
    BY <1>2 DEF RInv, MarkInv
  <2> QED BY <1>1, <1>3, <2>1 DEF MarkHand
<1> HIDE DEF m, x
<1>5. /\ Others(r) /\ draft'[r] = WriteMark(draft[r], m)
      /\ pc'[r] \in {"find", "issue", "judge", "complete"}
  BY <1>1, AfterMark DEF RInv
<1> QED BY <1>1, <1>3, <1>4, <1>5, TurnMark

\* A report that fines, settles, completes or ends, in a round of any status.
LEMMA TurnFine ==
  ASSUME RInv, NEW a \in Actors, Others(a), UNCHANGED <<marks, fines>>,
         pc[a] \in InFlight, pc'[a] \in InFlight \ (Saver \cup {"record", "confirm"}),
         draft'[a].marks = draft[a].marks, KeepsFines(a) \/ AddsFine(a) \/ SavesFine(a)
  PROVE  Turn(a)
<1>1. Keeps(a)
  BY DEF Keeps
<1>2. ToSettle(a)'
  BY DEF ToSettle
<1> QED BY <1>1, <1>2 DEF Turn, MarkStep, FineStep

\* What writing a new fine and saving one that was found do to a draft.
LEMMA FineAdded ==
  ASSUME RInv, NEW a \in Actors, NEW stop \in Checkpoints,
         NEW status \in {"TENTATIVE", "PENDING", "ANNULLED"}, UNCHANGED fines,
         \/ draft'[a] = WriteFine(draft[a], NewFine(stop, status))
         \/ draft'[a] = Saving(a, WriteFine(draft[a], NewFine(stop, status)), NULL)
  PROVE  AddsFine(a) /\ draft'[a].marks = draft[a].marks
<1> DEFINE f == NewFine(stop, status)
           d == WriteFine(draft[a], f)
<1>1. f \in Fine /\ \A g \in AllFines : g.no # f.no
  BY NewFineFacts DEF RInv, TInv
<1>2. draft[a] \in Draft
  BY DEF RInv, TInv, TypeOK, RecTypeOK, Draft
<1>3. /\ d.fines = Overlay(draft[a].fines, {f}) /\ d.marks = draft[a].marks
      /\ d.stale = draft[a].stale /\ d.stale \in BOOLEAN
      /\ d = [d EXCEPT !.stale = d.stale]
  BY <1>2 DEF WriteFine, Draft
<1>4. Saving(a, d, NULL) = d
  <2>1. (d.stale \/ (NULL # NULL /\ NULL \notin Fines(a))) = d.stale
    BY <1>3
  <2> HIDE DEF d
  <2>2. Saving(a, d, NULL) = [d EXCEPT !.stale = d.stale]
    BY <2>1, Zenon DEF Saving
  <2> QED BY <1>3, <2>2
<1>5. draft'[a] = d
  BY <1>4
<1> HIDE DEF d, f
<1> QED BY <1>1, <1>3, <1>5 DEF AddsFine

LEMMA FineSaved ==
  ASSUME RInv, NEW a \in Actors, NEW f \in Fine, NEW g \in Fine, UNCHANGED fines,
         f.status = "TENTATIVE", g.no = f.no, Unlocked(a, f),
         draft'[a] = Saving(a, WriteFine(draft[a], g), f)
  PROVE  SavesFine(a) /\ draft'[a].marks = draft[a].marks
<1> DEFINE d == WriteFine(draft[a], g)
<1>1. draft[a] \in Draft
  BY DEF RInv, TInv, TypeOK, RecTypeOK, Draft
<1>2. /\ d.fines = Overlay(draft[a].fines, {g}) /\ d.marks = draft[a].marks
      /\ d.stale = draft[a].stale /\ DOMAIN d = {"marks", "fines", "round", "stale"}
  BY <1>1 DEF WriteFine, Draft
<1>3. f # NULL
  BY DEF Fine, NULL
<1> HIDE DEF d
<1>4. PICK e : e = (d.stale \/ (f # NULL /\ f \notin Fines(a)))
  OBVIOUS
<1>5. draft'[a] = [d EXCEPT !.stale = e]
  BY <1>4, Zenon DEF Saving, d
<1>6. /\ draft'[a].fines = d.fines /\ draft'[a].marks = d.marks /\ draft'[a].stale = e
  BY <1>2, <1>5
<1>7. ~e => ~d.stale /\ f \in Fines(a)
  BY <1>3, <1>4, Zenon
<1> QED BY <1>2, <1>6, <1>7 DEF SavesFine

LEMMA TurnIssue ==
  ASSUME RInv, NEW r \in Requests, IssueOfficial(r) \/ IssueTentative(r), UNCHANGED queueVars
  PROVE  Turn(r)
<1>1. PICK status \in {"PENDING", "TENTATIVE"} : Issue(r, status)
  BY DEF IssueOfficial, IssueTentative
<1>2. pc[r] = "issue" /\ Advance(r) /\ UNCHANGED <<marks, fines>>
  BY <1>1 DEF Issue, tables
<1>3. r \in Actors /\ Head(todo[r]).stop \in Checkpoints
  BY <1>2, HandFacts DEF RInv
<1>4. PICK d : /\ draft' = [draft EXCEPT ![r] = d]
               /\ d = draft[r] \/ d = WriteFine(draft[r], NewFine(Head(todo[r]).stop, status))
  <2>1. \/ draft' = draft
        \/ draft' = [draft EXCEPT ![r] = WriteFine(@, NewFine(Head(todo[r]).stop, status))]
    BY <1>1 DEF Issue
  <2>2. draft = [draft EXCEPT ![r] = draft[r]]
    BY <1>3, Itself DEF RInv
  <2> QED BY <2>1, <2>2
<1>5. Others(r) /\ pc'[r] = "find" /\ draft'[r] = d
  BY <1>2, <1>4, AdvanceAlone DEF RInv
<1>6. draft'[r].marks = draft[r].marks /\ (KeepsFines(r) \/ AddsFine(r))
  <2>1. CASE d = draft[r]
    BY <1>2, <1>5, <2>1 DEF KeepsFines
  <2>2. CASE d = WriteFine(draft[r], NewFine(Head(todo[r]).stop, status))
    BY <1>2, <1>3, <1>5, <2>2, FineAdded
  <2> QED BY <1>4, <2>1, <2>2
<1> QED BY <1>2, <1>3, <1>5, <1>6, TurnFine DEF InFlight, Saver

LEMMA TentativeFacts ==
  ASSUME TInv, NEW a \in Actors
  PROVE  \A f \in Tentative(a) : f \in Fine /\ f.status = "TENTATIVE"
BY RowsSeen DEF Tentative

LEMMA TurnJudge ==
  ASSUME RInv, NEW r \in Requests, Judge(r), UNCHANGED queueVars
  PROVE  Turn(r)
<1>1. pc[r] = "judge" /\ UNCHANGED <<marks, fines, draft>> /\ r \in Actors
  BY DEF Judge, tables, Actors
<1>2. draft' = [draft EXCEPT ![r] = draft[r]]
  BY <1>1, Itself DEF RInv
<1>3. CASE Advance(r)
  <2>1. Others(r) /\ pc'[r] = "find" /\ draft'[r] = draft[r]
    BY <1>2, <1>3, AdvanceAlone DEF RInv
  <2> QED BY <1>1, <2>1, QuietRequest DEF InFlight, Saver
<1>4. CASE ~Advance(r)
  <2>1. PICK f \in IF Tentative(r) = {} THEN {NULL} ELSE Tentative(r), l \in {"late", "onTime"} :
          /\ found' = [found EXCEPT ![r] = f] /\ pc' = [pc EXCEPT ![r] = l] /\ UNCHANGED todo
    <3>1. PICK f \in IF Tentative(r) = {} THEN {NULL} ELSE Tentative(r) :
            found' = [found EXCEPT ![r] = f]
      BY <1>4 DEF Judge
    <3>2. PICK s \in Starts(r) :
            pc' = [pc EXCEPT ![r] =
                     IF Late(s, Head(todo[r]).stop, Head(todo[r]).time) THEN "late" ELSE "onTime"]
      BY <1>4 DEF Judge
    <3>3. UNCHANGED todo
      BY <1>4 DEF Judge
    <3>4. PICK l \in {"late", "onTime"} : pc' = [pc EXCEPT ![r] = l]
      BY <3>2
    <3> QED BY <3>1, <3>3, <3>4
  <2>2. todo' = [todo EXCEPT ![r] = todo[r]]
    BY <2>1, Itself DEF RInv
  <2>3. Others(r) /\ pc'[r] = l /\ draft'[r] = draft[r] /\ found'[r] = f
    <3>1. TInv /\ pc' = [pc EXCEPT ![r] = l] /\ found' = [found EXCEPT ![r] = f]
      BY <2>1 DEF RInv
    <3> QED BY <1>2, <2>2, <3>1, RequestAlone
  <2>4. Keeps(r) /\ KeepsFines(r)
    BY <1>1, <2>3 DEF Keeps, KeepsFines, InFlight
  <2>5. ToSettle(r)'
    BY <1>1, <2>3, TentativeFacts DEF ToSettle, RInv
  <2> QED BY <2>3, <2>4, <2>5 DEF Turn, MarkStep, FineStep
<1> QED BY <1>3, <1>4

\* A settlement keeps the draft, adds a fine or saves the one that was found.
LEMMA Settlement ==
  ASSUME RInv, NEW a \in Actors, NEW f \in Fine \cup {NULL}, NEW stop \in Checkpoints,
         NEW late \in BOOLEAN, UNCHANGED fines, f # NULL => f.status = "TENTATIVE",
         f = NULL \/ Unlocked(a, f),
         draft'[a] = Saving(a, Settled(draft[a], f, stop, late), f)
  PROVE  /\ draft'[a].marks = draft[a].marks
         /\ KeepsFines(a) \/ AddsFine(a) \/ SavesFine(a)
<1>1. CASE f # NULL
  <2>1. f \in Fine
    BY <1>1
  <2>2. CASE late
    <3> DEFINE g == [f EXCEPT !.status = "PENDING", !.stop = stop]
    <3>1. g \in Fine /\ g.no = f.no
      BY <2>1 DEF Fine
    <3>2. draft'[a] = Saving(a, WriteFine(draft[a], g), f)
      BY <1>1, <2>2 DEF Settled
    <3> HIDE DEF g
    <3> QED BY <1>1, <2>1, <3>1, <3>2, FineSaved
  <2>3. CASE ~late
    <3> DEFINE g == [f EXCEPT !.status = "ANNULLED", !.stop = stop]
    <3>1. g \in Fine /\ g.no = f.no
      BY <2>1 DEF Fine
    <3>2. draft'[a] = Saving(a, WriteFine(draft[a], g), f)
      BY <1>1, <2>3 DEF Settled
    <3> HIDE DEF g
    <3> QED BY <1>1, <2>1, <3>1, <3>2, FineSaved
  <2> QED BY <2>2, <2>3
<1>2. CASE f = NULL /\ late
  <2>1. draft'[a] = Saving(a, WriteFine(draft[a], NewFine(stop, "PENDING")), NULL)
    BY <1>2 DEF Settled
  <2> QED BY <2>1, FineAdded
<1>3. CASE f = NULL /\ ~late
  <2>1. Settled(draft[a], f, stop, late) = draft[a]
    BY <1>3 DEF Settled
  <2>2. draft'[a] = draft[a]
    <3>1. draft[a] \in Draft
      BY DEF RInv, TInv, TypeOK, RecTypeOK, Draft
    <3>2. (draft[a].stale \/ (f # NULL /\ f \notin Fines(a))) = draft[a].stale
      BY <1>3, <3>1 DEF Draft
    <3>3. draft'[a] = [draft[a] EXCEPT !.stale = draft[a].stale]
      BY <2>1, <3>2, Zenon DEF Saving
    <3> QED BY <3>1, <3>3 DEF Draft
  <2> QED BY <2>2 DEF KeepsFines
<1> QED BY <1>1, <1>2, <1>3

LEMMA TurnSettle ==
  ASSUME RInv, NEW r \in Requests, Settle(r), UNCHANGED queueVars
  PROVE  Turn(r)
<1>1. pc[r] \in {"late", "onTime"} /\ Advance(r) /\ UNCHANGED <<marks, fines>>
  BY DEF Settle, tables
<1>2. r \in Actors /\ Head(todo[r]).stop \in Checkpoints /\ found[r] \in Fine \cup {NULL}
  BY <1>1, HandFacts DEF RInv, TInv, Ordered
<1>3. PICK f \in Fine \cup {NULL}, stop \in Checkpoints, late \in BOOLEAN :
        f = found[r] /\ stop = Head(todo[r]).stop /\ late = (pc[r] = "late")
  BY <1>2, Zenon
<1>4. draft' = [draft EXCEPT ![r] = Saving(r, Settled(draft[r], f, stop, late), f)]
  <2>1. draft' = [draft EXCEPT ![r] =
                    Saving(r, Settled(@, found[r], Head(todo[r]).stop, pc[r] = "late"), found[r])]
    BY DEF Settle
  <2>2. draft' = [draft EXCEPT ![r] = Saving(r, Settled(@, f, stop, late), f)]
    BY <1>3, <2>1, Zenon
  <2> QED BY <2>2
<1>5. /\ Others(r) /\ pc'[r] = "find"
      /\ draft'[r] = Saving(r, Settled(draft[r], f, stop, late), f)
  BY <1>1, <1>4, AdvanceAlone DEF RInv
<1>6. f # NULL => f.status = "TENTATIVE"
  BY <1>1, <1>2, <1>3 DEF RInv, FineInv, FineHand, ToSettle, Saver
<1>7. f = NULL \/ Unlocked(r, f)
  BY <1>3 DEF Settle
<1>8. /\ draft'[r].marks = draft[r].marks
      /\ KeepsFines(r) \/ AddsFine(r) \/ SavesFine(r)
  BY <1>1, <1>2, <1>5, <1>6, <1>7, Settlement
<1> QED BY <1>1, <1>2, <1>5, <1>8, TurnFine DEF InFlight, Saver

LEMMA TurnComplete ==
  ASSUME RInv, NEW r \in Requests, CompleteMatched(r) \/ CompleteNamed(r), UNCHANGED queueVars
  PROVE  Turn(r)
<1>1. PICK status : Complete(r, status)
  BY DEF CompleteMatched, CompleteNamed
<1>2. pc[r] = "complete" /\ Advance(r) /\ UNCHANGED <<marks, fines>> /\ r \in Actors
  BY <1>1 DEF Complete, tables, Actors
<1>3. draft' = [draft EXCEPT ![r] = draft[r]] \/ draft' = [draft EXCEPT ![r] = WriteRound(draft[r], "COMPLETED")]
  <2>1. draft' = draft \/ draft' = [draft EXCEPT ![r] = WriteRound(@, "COMPLETED")]
    BY <1>1 DEF Complete
  <2>2. draft = [draft EXCEPT ![r] = draft[r]]
    BY <1>2, Itself DEF RInv
  <2> QED BY <2>1, <2>2
<1>4. PICK d \in {draft[r], WriteRound(draft[r], "COMPLETED")} : draft' = [draft EXCEPT ![r] = d]
  BY <1>3
<1>5. Others(r) /\ pc'[r] = "find" /\ draft'[r] = d
  BY <1>2, <1>4, AdvanceAlone DEF RInv
<1>6. d.marks = draft[r].marks /\ d.fines = draft[r].fines /\ d.stale = draft[r].stale
  <2>1. draft[r] \in Draft
    BY <1>2, HandFacts DEF RInv
  <2> QED BY <1>4, <2>1 DEF WriteRound, Draft
<1>7. draft'[r].marks = draft[r].marks /\ KeepsFines(r)
  BY <1>2, <1>5, <1>6 DEF KeepsFines
<1> QED BY <1>2, <1>5, <1>7, TurnFine DEF InFlight, Saver

\* A transaction that ends: its draft is merged or forgotten.
LEMMA TurnEnd ==
  ASSUME RInv, NEW a \in Actors, Others(a), draft'[a] = NoDraft,
         pc'[a] \notin InFlight,
         \/ UNCHANGED <<marks, fines>>
         \/ /\ pc[a] \in InFlight
            /\ marks' = Overlay(marks, draft[a].marks) /\ fines' = Overlay(fines, draft[a].fines)
  PROVE  Turn(a)
<1>1. pc'[a] \notin Saver \cup {"record", "confirm"}
  BY DEF InFlight, Saver
<1>2. ToSettle(a)'
  BY <1>1 DEF ToSettle
<1>3. MarkStep(a) /\ FineStep(a)
  BY <1>1 DEF MarkStep, FineStep, Commits, Forgets, CommitsFines, ForgetsFines
<1> QED BY <1>2, <1>3 DEF Turn

LEMMA TurnLeave ==
  ASSUME RInv, NEW r \in Requests, Commit(r) \/ Fail(r), UNCHANGED queueVars
  PROVE  Turn(r)
<1>1. /\ pc' = [pc EXCEPT ![r] = "done"] /\ todo' = [todo EXCEPT ![r] = <<>>]
      /\ found' = [found EXCEPT ![r] = NULL] /\ draft' = [draft EXCEPT ![r] = NoDraft]
      /\ pc[r] \in InFlight
  BY DEF Commit, Fail, Leave, Merge, InFlight
<1>2. Others(r) /\ r \in Actors /\ pc'[r] = "done" /\ draft'[r] = NoDraft
  BY <1>1, RequestAlone DEF RInv
<1>3. \/ UNCHANGED <<marks, fines>>
      \/ marks' = Overlay(marks, draft[r].marks) /\ fines' = Overlay(fines, draft[r].fines)
  BY DEF Commit, Fail, Merge, tables
<1> QED BY <1>1, <1>2, <1>3, TurnEnd DEF InFlight

LEMMA TurnRequest ==
  ASSUME RInv, NEW r \in Requests, Begin(r) \/ Answer(r) \/ Fail(r), UNCHANGED queueVars
  PROVE  Turn(r)
BY TurnBegin, TurnFind, TurnSkip, TurnEntry, TurnExit, TurnRectify, TurnIssue, TurnJudge,
   TurnSettle, TurnComplete, TurnLeave DEF Answer

\* A job that writes nothing.
LEMMA QuietJob ==
  ASSUME RInv, NEW j \in Jobs, Others(j), UNCHANGED <<marks, fines>>, draft'[j] = draft[j],
         pc'[j] # "record", ToSettle(j)',
         \/ pc[j] \in InFlight /\ pc'[j] \in InFlight
         \/ pc[j] \notin InFlight /\ (pc'[j] \in InFlight => Room)
  PROVE  Turn(j)
<1>1. Keeps(j) /\ KeepsFines(j)
  BY DEF Keeps, KeepsFines
<1> QED BY <1>1 DEF Turn, MarkStep, FineStep

LEMMA QuietJobAlone ==
  ASSUME RInv, NEW j \in Jobs, UNCHANGED <<todo, draft, found>>, NEW l, NEW w,
         pc' = [pc EXCEPT ![j] = l], left' = [left EXCEPT ![j] = w]
  PROVE  Others(j) /\ pc'[j] = l /\ draft'[j] = draft[j] /\ found'[j] = found[j] /\ left'[j] = w
<1>1. j \in Actors
  BY DEF Actors
<1>2. draft' = [draft EXCEPT ![j] = draft[j]] /\ found' = [found EXCEPT ![j] = found[j]]
  BY <1>1, Itself DEF RInv
<1> QED BY <1>2, JobAlone DEF RInv

LEMMA TurnAround ==
  ASSUME RInv, NEW j \in Jobs, Take(j) \/ Inspect(j) \/ Acknowledge(j)
  PROVE  Turn(j)
<1>1. PICK l \in {"inspect", "audit", "idle", "failed", "done"} : pc' = [pc EXCEPT ![j] = l]
  BY DEF Take, Inspect, Acknowledge, ThrownBack
<1>2. UNCHANGED <<marks, fines, todo, draft, found, left>> /\ pc[j] \notin InFlight
  BY DEF Take, Inspect, Acknowledge, tables, memory, queueVars, InFlight
<1>3. left' = [left EXCEPT ![j] = left[j]]
  BY <1>2, Itself DEF RInv
<1>4. Others(j) /\ pc'[j] = l /\ draft'[j] = draft[j]
  BY <1>1, <1>2, <1>3, QuietJobAlone
<1>5. ToSettle(j)'
  BY <1>4 DEF ToSettle, Saver
<1> QED BY <1>2, <1>4, <1>5, QuietJob DEF InFlight

LEMMA TurnBeginAudit ==
  ASSUME RInv, NEW j \in Jobs, BeginAudit(j)
  PROVE  Turn(j)
<1>1. /\ pc[j] = "audit" /\ Room /\ UNCHANGED <<marks, fines, todo, draft, found>>
      /\ j \in Actors
  BY DEF BeginAudit, tables, memory, Actors
<1>2. PICK l, w : /\ pc' = [pc EXCEPT ![j] = l] /\ left' = [left EXCEPT ![j] = w]
                  /\ l \in {"ack", "stops"} \/ (l = "confirm" /\ w = Tentative(j))
  <2>1. left = [left EXCEPT ![j] = left[j]]
    BY Itself DEF RInv
  <2>2. PICK l : /\ pc' = [pc EXCEPT ![j] = l]
                 /\ \/ l \in {"ack", "stops"}
                       /\ (left' = left \/ left' = [left EXCEPT ![j] = OnWay])
                    \/ l = "confirm" /\ left' = [left EXCEPT ![j] = Tentative(j)]
    BY DEF BeginAudit
  <2> QED BY <2>1, <2>2
<1>3. Others(j) /\ pc'[j] = l /\ draft'[j] = draft[j] /\ left'[j] = w
  BY <1>1, <1>2, QuietJobAlone
<1>4. ToSettle(j)'
  BY <1>1, <1>2, <1>3, TentativeFacts DEF ToSettle, Saver, RInv
<1> QED BY <1>1, <1>2, <1>3, <1>4, QuietJob DEF InFlight

LEMMA TurnConfirm ==
  ASSUME RInv, NEW j \in Jobs, Confirm(j)
  PROVE  Turn(j)
<1>1. /\ pc[j] = "confirm" /\ UNCHANGED <<marks, fines, todo, found, pc>> /\ j \in Actors
  BY DEF Confirm, tables, memory, Actors
<1>2. PICK f \in left[j] :
        /\ Unlocked(j, f) /\ left' = [left EXCEPT ![j] = @ \ {f}]
        /\ draft' = [draft EXCEPT ![j] = Saving(j, WriteFine(@, [f EXCEPT !.status = "PENDING"]), f)]
  BY DEF Confirm
<1> DEFINE g == [f EXCEPT !.status = "PENDING"]
           d == Saving(j, WriteFine(draft[j], g), f)
           w == left[j] \ {f}
<1>3. \A h \in left[j] : h \in Fine /\ h.status = "TENTATIVE"
  BY <1>1 DEF RInv, FineInv, FineHand, ToSettle
<1>4. f \in Fine /\ f.status = "TENTATIVE" /\ g \in Fine /\ g.no = f.no
  BY <1>3 DEF Fine
<1>5. /\ pc' = [pc EXCEPT ![j] = "confirm"] /\ found' = [found EXCEPT ![j] = found[j]]
      /\ left' = [left EXCEPT ![j] = w] /\ draft' = [draft EXCEPT ![j] = d]
  <2>1. pc' = [pc EXCEPT ![j] = pc[j]] /\ found' = [found EXCEPT ![j] = found[j]]
    BY <1>1, Itself DEF RInv
  <2> QED BY <1>1, <1>2, <2>1
<1> HIDE DEF d, w
<1>6. /\ Others(j) /\ pc'[j] = "confirm" /\ draft'[j] = d /\ left'[j] = w
      /\ found'[j] = found[j]
  BY <1>1, <1>5, JobAlone DEF RInv
<1>7. SavesFine(j) /\ draft'[j].marks = draft[j].marks
  <2>1. draft'[j] = Saving(j, WriteFine(draft[j], g), f)
    BY <1>6 DEF d
  <2> HIDE DEF g
  <2> QED BY <1>1, <1>2, <1>4, <2>1, FineSaved
<1>8. ToSettle(j)'
  BY <1>3, <1>6 DEF ToSettle, Saver, w
<1>9. Keeps(j)
  BY <1>1, <1>6, <1>7 DEF Keeps, InFlight
<1> QED BY <1>6, <1>7, <1>8, <1>9 DEF Turn, MarkStep, FineStep

LEMMA TurnRecover ==
  ASSUME RInv, NEW j \in Jobs, RecoverStop(j)
  PROVE  Turn(j)
<1>1. /\ pc[j] = "stops" /\ UNCHANGED <<marks, fines, todo, found, pc>> /\ j \in Actors
  BY DEF RecoverStop, tables, memory, Actors
<1>2. PICK s \in left[j] :
        /\ Existing(j, s, "enter") = {} /\ left' = [left EXCEPT ![j] = @ \ {s}]
        /\ \/ UNCHANGED draft
           \/ \E t \in PassesBy(s) :
                LET recovered == WriteMark(draft[j], NewMark(s, "enter", t, "TRACCAR_AUDIT", 0))
                IN  IF AuditedLate(j, s, t)
                    THEN draft' = [draft EXCEPT ![j] = WriteFine(recovered, NewFine(s, "PENDING"))]
                    ELSE draft' = [draft EXCEPT ![j] = recovered]
  BY DEF RecoverStop
<1>3. s \in Stops
  BY <1>1, JobFacts DEF Paced, RInv
<1>4. draft[j] \in Draft
  BY JobFacts DEF RInv
<1>5. PICK d : /\ draft' = [draft EXCEPT ![j] = d] /\ d.stale = draft[j].stale
               /\ \/ d.marks = draft[j].marks
                  \/ \E m \in Mark : /\ m.stop = s /\ m.event = "enter"
                                     /\ d.marks = Overlay(draft[j].marks, {m})
               /\ \/ d.fines = draft[j].fines
                  \/ \E f \in Fine : /\ \A g \in AllFines : g.no # f.no
                                     /\ d.fines = Overlay(draft[j].fines, {f})
  <2>1. CASE UNCHANGED draft
    <3>1. draft' = [draft EXCEPT ![j] = draft[j]]
      BY <1>1, <2>1, Itself DEF RInv
    <3> QED BY <3>1
  <2>2. CASE ~UNCHANGED draft
    <3>1. PICK t \in PassesBy(s) :
            LET recovered == WriteMark(draft[j], NewMark(s, "enter", t, "TRACCAR_AUDIT", 0))
            IN  IF AuditedLate(j, s, t)
                THEN draft' = [draft EXCEPT ![j] = WriteFine(recovered, NewFine(s, "PENDING"))]
                ELSE draft' = [draft EXCEPT ![j] = recovered]
      BY <1>2, <2>2
    <3> DEFINE m == NewMark(s, "enter", t, "TRACCAR_AUDIT", 0)
               e == WriteMark(draft[j], m)
               f == NewFine(s, "PENDING")
               h == WriteFine(e, f)
    <3>2. t \in Times
      BY <1>3, AuditAssumptions DEF PassesBy
    <3>3. m \in Mark /\ m.stop = s /\ m.event = "enter"
      <4>1. m.stop = s /\ m.event = "enter"
        BY DEF NewMark
      <4>2. m \in Mark
        BY <1>3, <3>2, NewMarkFacts DEF RInv, TInv, Sources
      <4> QED BY <4>1, <4>2
    <3> HIDE DEF m
    <3>4. /\ e.marks = Overlay(draft[j].marks, {m}) /\ e.fines = draft[j].fines
          /\ e.stale = draft[j].stale /\ DOMAIN e = {"marks", "fines", "round", "stale"}
      BY <1>4 DEF WriteMark, Draft
    <3> HIDE DEF e
    <3>5. CASE AuditedLate(j, s, t)
      <4>1. s \in Checkpoints
        BY <3>5 DEF AuditedLate
      <4>2. f \in Fine /\ \A g \in AllFines : g.no # f.no
        BY <4>1, NewFineFacts DEF RInv, TInv
      <4>3. draft' = [draft EXCEPT ![j] = h]
        BY <3>1, <3>5 DEF e, m
      <4> HIDE DEF f
      <4>4. /\ h.marks = e.marks /\ h.fines = Overlay(e.fines, {f}) /\ h.stale = e.stale
        BY <3>4 DEF WriteFine
      <4> HIDE DEF h
      <4> QED BY <3>3, <3>4, <4>2, <4>3, <4>4
    <3>6. CASE ~AuditedLate(j, s, t)
      <4>1. draft' = [draft EXCEPT ![j] = e]
        BY <3>1, <3>6 DEF e, m
      <4> QED BY <3>3, <3>4, <4>1
    <3> QED BY <3>5, <3>6
  <2> QED BY <2>1, <2>2
<1>6. /\ pc' = [pc EXCEPT ![j] = "stops"] /\ found' = [found EXCEPT ![j] = found[j]]
      /\ left' = [left EXCEPT ![j] = left[j] \ {s}]
  <2>1. pc' = [pc EXCEPT ![j] = pc[j]] /\ found' = [found EXCEPT ![j] = found[j]]
    BY <1>1, Itself DEF RInv
  <2> QED BY <1>1, <1>2, <2>1
<1>7. Others(j) /\ pc'[j] = "stops" /\ draft'[j] = d
  BY <1>1, <1>5, <1>6, JobAlone DEF RInv
<1>8. Keeps(j) \/ Adds(j)
  <2>1. pc[j] \in InFlight /\ pc'[j] \in InFlight /\ pc'[j] # "record" /\ marks' = marks
    BY <1>1, <1>7 DEF InFlight
  <2>2. CASE d.marks = draft[j].marks
    BY <1>7, <2>1, <2>2 DEF Keeps
  <2>3. CASE \E m \in Mark : /\ m.stop = s /\ m.event = "enter"
                             /\ d.marks = Overlay(draft[j].marks, {m})
    BY <1>2, <1>3, <1>7, <2>1, <2>3 DEF Adds, Events
  <2> QED BY <1>5, <2>2, <2>3
<1>9. KeepsFines(j) \/ AddsFine(j)
  BY <1>1, <1>5, <1>7 DEF KeepsFines, AddsFine
<1>10. ToSettle(j)'
  BY <1>7 DEF ToSettle, Saver
<1> QED BY <1>7, <1>8, <1>9, <1>10 DEF Turn, MarkStep, FineStep

LEMMA TurnJudgeStop ==
  ASSUME RInv, NEW j \in Jobs, JudgeStop(j)
  PROVE  Turn(j)
<1>1. /\ pc[j] = "stops" /\ UNCHANGED <<marks, fines, todo, draft>> /\ j \in Actors
  BY DEF JudgeStop, tables, memory, Actors
<1>2. PICK s, m :
        IF JudgesMark(j, m) /\ Starts(j) # {} /\ s \in Checkpoints
        THEN /\ \E f \in IF Tentative(j) = {} THEN {NULL} ELSE Tentative(j) :
                  found' = [found EXCEPT ![j] = f]
             /\ \E b \in Starts(j) :
                  pc' = [pc EXCEPT ![j] = IF Late(b, s, m.time) THEN "lateStop" ELSE "onTimeStop"]
             /\ mode' = [mode EXCEPT ![j] = s]
             /\ left' = [left EXCEPT ![j] = @ \ {s}]
        ELSE /\ left' = [left EXCEPT ![j] = @ \ {s}]
             /\ UNCHANGED <<pc, found, mode>>
  BY DEF JudgeStop
<1>3. left' = [left EXCEPT ![j] = left[j] \ {s}]
  BY <1>2
<1>4. PICK f, l : /\ found' = [found EXCEPT ![j] = f] /\ pc' = [pc EXCEPT ![j] = l]
                  /\ \/ l = "stops"
                     \/ l \in {"lateStop", "onTimeStop"} /\ (f = NULL \/ f \in Tentative(j))
  <2>1. CASE JudgesMark(j, m) /\ Starts(j) # {} /\ s \in Checkpoints
    <3>1. PICK f \in IF Tentative(j) = {} THEN {NULL} ELSE Tentative(j) :
            found' = [found EXCEPT ![j] = f]
      BY <1>2, <2>1
    <3>2. PICK b \in Starts(j) :
            pc' = [pc EXCEPT ![j] = IF Late(b, s, m.time) THEN "lateStop" ELSE "onTimeStop"]
      BY <1>2, <2>1
    <3>3. PICK l \in {"lateStop", "onTimeStop"} : pc' = [pc EXCEPT ![j] = l]
      BY <3>2
    <3>4. f = NULL \/ f \in Tentative(j)
      BY <3>1
    <3> QED BY <3>1, <3>3, <3>4
  <2>2. CASE ~(JudgesMark(j, m) /\ Starts(j) # {} /\ s \in Checkpoints)
    <3>1. UNCHANGED <<pc, found>>
      BY <1>2, <2>2
    <3>2. pc' = [pc EXCEPT ![j] = pc[j]] /\ found' = [found EXCEPT ![j] = found[j]]
      BY <1>1, <3>1, Itself DEF RInv
    <3> QED BY <1>1, <3>2
  <2> QED BY <2>1, <2>2
<1>5. draft' = [draft EXCEPT ![j] = draft[j]]
  BY <1>1, Itself DEF RInv
<1>6. Others(j) /\ pc'[j] = l /\ draft'[j] = draft[j] /\ found'[j] = f
  BY <1>1, <1>3, <1>4, <1>5, JobAlone DEF RInv
<1>7. ToSettle(j)'
  <2>1. \A h \in Tentative(j) : h \in Fine /\ h.status = "TENTATIVE"
    BY <1>1, TentativeFacts DEF RInv
  <2>2. l # "confirm" /\ (l \in Saver => f = NULL \/ f \in Tentative(j))
    BY <1>4 DEF Saver
  <2> QED BY <1>6, <2>1, <2>2 DEF ToSettle
<1> QED BY <1>1, <1>4, <1>6, <1>7, QuietJob DEF InFlight

LEMMA TurnSettleStop ==
  ASSUME RInv, NEW j \in Jobs, SettleStop(j)
  PROVE  Turn(j)
<1>1. /\ pc[j] \in {"lateStop", "onTimeStop"} /\ UNCHANGED <<marks, fines, todo, left>>
      /\ pc' = [pc EXCEPT ![j] = "stops"] /\ found' = [found EXCEPT ![j] = NULL]
  BY DEF SettleStop, tables, memory
<1>2. j \in Actors /\ mode[j] \in Checkpoints /\ found[j] \in Fine \cup {NULL}
  BY <1>1, JobFacts DEF RInv, Paced
<1>3. PICK f \in Fine \cup {NULL}, stop \in Checkpoints, late \in BOOLEAN :
        f = found[j] /\ stop = mode[j] /\ late = (pc[j] = "lateStop")
  BY <1>2, Zenon
<1>4. draft' = [draft EXCEPT ![j] = Saving(j, Settled(draft[j], f, stop, late), f)]
  <2>1. draft' = [draft EXCEPT ![j] =
                    Saving(j, Settled(@, found[j], mode[j], pc[j] = "lateStop"), found[j])]
    BY DEF SettleStop
  <2>2. draft' = [draft EXCEPT ![j] = Saving(j, Settled(@, f, stop, late), f)]
    BY <1>3, <2>1, Zenon
  <2> QED BY <2>2
<1>5. left' = [left EXCEPT ![j] = left[j]]
  BY <1>1, Itself DEF RInv
<1>6. /\ Others(j) /\ pc'[j] = "stops"
      /\ draft'[j] = Saving(j, Settled(draft[j], f, stop, late), f)
  BY <1>1, <1>4, <1>5, JobAlone DEF RInv
<1>7. f # NULL => f.status = "TENTATIVE"
  BY <1>1, <1>2, <1>3 DEF RInv, FineInv, FineHand, ToSettle, Saver
<1>8. f = NULL \/ Unlocked(j, f)
  BY <1>3 DEF SettleStop
<1>9. /\ draft'[j].marks = draft[j].marks
      /\ KeepsFines(j) \/ AddsFine(j) \/ SavesFine(j)
  BY <1>1, <1>2, <1>6, <1>7, <1>8, Settlement
<1> QED BY <1>1, <1>2, <1>6, <1>9, TurnFine DEF InFlight, Saver

LEMMA TurnOver ==
  ASSUME RInv, NEW j \in Jobs, CommitAudit(j) \/ FailJob(j) \/ Stall(j)
  PROVE  Turn(j)
<1>0. PICK l \in {"ack", "idle", "failed"} : \E f, w :
        /\ pc' = [pc EXCEPT ![j] = l] /\ found' = [found EXCEPT ![j] = f]
        /\ left' = [left EXCEPT ![j] = w]
  <2>1. CASE CommitAudit(j)
    <3>1. found' = [found EXCEPT ![j] = found[j]] /\ left' = [left EXCEPT ![j] = left[j]]
      BY <2>1, Itself DEF CommitAudit, RInv, Actors
    <3> QED BY <2>1, <3>1 DEF CommitAudit
  <2>2. CASE FailJob(j) \/ Stall(j)
    <3>1. found' = [found EXCEPT ![j] = NULL] /\ left' = [left EXCEPT ![j] = {}]
      BY <2>2 DEF FailJob, Stall, Forget
    <3>2. PICK l \in {"idle", "failed"} : pc' = [pc EXCEPT ![j] = l]
      BY <2>2 DEF FailJob, Stall, ThrownBack
    <3> QED BY <3>1, <3>2
  <2> QED BY <2>1, <2>2
<1>1. PICK f, w : /\ pc' = [pc EXCEPT ![j] = l] /\ found' = [found EXCEPT ![j] = f]
                  /\ left' = [left EXCEPT ![j] = w]
  BY <1>0
<1>2. draft' = [draft EXCEPT ![j] = NoDraft] /\ UNCHANGED todo
  BY DEF CommitAudit, FailJob, Stall, Forget, memory
<1>3. Others(j) /\ j \in Actors /\ pc'[j] = l /\ draft'[j] = NoDraft
  BY <1>1, <1>2, JobAlone DEF RInv
<1>4. \/ UNCHANGED <<marks, fines>>
      \/ /\ pc[j] \in InFlight
         /\ marks' = Overlay(marks, draft[j].marks) /\ fines' = Overlay(fines, draft[j].fines)
  BY DEF CommitAudit, FailJob, Stall, tables, InFlight
<1> QED BY <1>3, <1>4, TurnEnd DEF InFlight

LEMMA TurnJob ==
  ASSUME RInv, NEW j \in Jobs, Work(j) \/ FailJob(j) \/ Stall(j)
  PROVE  Turn(j)
BY TurnAround, TurnBeginAudit, TurnConfirm, TurnRecover, TurnJudgeStop, TurnSettleStop, TurnOver
   DEF Work

\* And what the buttons and the annulments do, or nothing.
LEMMA Beside ==
  ASSUME RInv, \/ (Press \/ AnnulTentative) /\ UNCHANGED queueVars
               \/ UNCHANGED vars
  PROVE  /\ UNCHANGED <<marks, pc, todo, found, draft, left>>
         /\ fines' = fines \/ \E T : Annuls(T)
<1>1. CASE Press /\ UNCHANGED queueVars
  BY <1>1 DEF Press, memory, queueVars
<1>2. CASE AnnulTentative /\ UNCHANGED queueVars
  <2>1. PICK T \in SUBSET {f \in fines : f.status = "TENTATIVE"} :
          /\ \A a \in Actors, f \in T : ~LockedBy(a, f)
          /\ fines' = Overlay(fines, {[f EXCEPT !.status = "ANNULLED"] : f \in T})
    BY <1>2 DEF AnnulTentative
  <2>2. Annuls(T)
    BY <2>1 DEF Annuls
  <2> QED BY <1>2, <2>2 DEF AnnulTentative, memory, queueVars
<1>3. CASE UNCHANGED vars
  BY <1>3 DEF vars, recVars, tables, memory, queueVars
<1> QED BY <1>1, <1>2, <1>3

LEMMA Steps ==
  ASSUME RInv, [Next]_vars
  PROVE  \/ \E a \in Actors : Turn(a)
         \/ /\ UNCHANGED <<marks, pc, todo, found, draft, left>>
            /\ \/ fines' = fines
               \/ \E T : Annuls(T)
<1>1. CASE \E r \in Requests : (Begin(r) \/ Answer(r) \/ Fail(r)) /\ UNCHANGED queueVars
  BY <1>1, TurnRequest DEF Actors
<1>2. CASE \E j \in Jobs : Work(j) \/ FailJob(j) \/ Stall(j)
  BY <1>2, TurnJob DEF Actors
<1>3. CASE ((Press \/ AnnulTentative) /\ UNCHANGED queueVars) \/ UNCHANGED vars
  BY <1>3, Beside
<1> QED BY <1>1, <1>2, <1>3 DEF Next

LEMMA MarksRest ==
  ASSUME MarkInv, UNCHANGED <<marks, pc, todo, found, draft>>
  PROVE  MarkInv'
<1>1. \A s, e : Numbers(marks, s, e)' = Numbers(marks, s, e)
  BY DEF Numbers
<1>2. \A s, e : \A a \in Actors :
        New(a, s, e)' = New(a, s, e) /\ (Expects(a, s, e)' <=> Expects(a, s, e))
  BY DEF New, Expects
<1>3. \A s, e : Claims(s, e)' = Claims(s, e)
  BY <1>2 DEF Claims
<1>4. Begun' = Begun
  BY DEF Begun
<1>5. \A a \in Actors : MarkHand(a)'
  BY <1>2 DEF MarkHand, MarkInv, Distinct
<1>6. \A s \in Stops, e \in Events : Few(s, e)'
  BY <1>1, <1>3 DEF Few, MarkInv
<1> QED BY <1>4, <1>5, <1>6 DEF MarkInv, Distinct

LEMMA FinesRest ==
  ASSUME FineInv, UNCHANGED <<fines, pc, found, draft, left>>
  PROVE  FineInv'
BY DEF FineInv, Distinct, FineHand, ToSettle, Fresh, Apart

LEMMA RInit == Init => RInv
<1> SUFFICES ASSUME Init PROVE RInv
  OBVIOUS
<1>1. TInv
  BY TypesInit
<1>2. /\ marks = {} /\ fines = {}
      /\ \A a \in Actors : pc[a] = "idle" /\ draft[a] = NoDraft /\ found[a] = NULL
  BY DEF Init, RecInit
<1>3. Begun = {} /\ \A s, e : Numbers(marks, s, e) = {}
  BY <1>2 DEF Begun, InFlight, Numbers
<1>4. Cardinality(Begun) <= MaxInFlight
  <2>1. Cardinality({}) = 0 /\ MaxInFlight \in Nat
    BY FS_EmptySet, CheckpointAssumptions
  <2> QED BY <1>3, <2>1
<1>5. MarkInv
  BY <1>2, <1>3, <1>4 DEF MarkInv, Distinct, MarkHand, New, Expects, Few, Numbers, NoDraft, InFlight
<1>6. FineInv
  BY <1>2 DEF FineInv, Distinct, FineHand, ToSettle, Fresh, Apart, NoDraft, Saver
<1> QED BY <1>1, <1>5, <1>6 DEF RInv

LEMMA RNext == RInv /\ [Next]_vars => RInv'
<1> SUFFICES ASSUME RInv, [Next]_vars PROVE RInv'
  OBVIOUS
<1>1. TInv'
  BY TypesNext DEF RInv
<1>2. CASE \E a \in Actors : Turn(a)
  <2>1. PICK a \in Actors : Turn(a)
    BY <1>2
  <2>2. MarkInv'
    BY <2>1, MarkStepKeeps DEF Turn, RInv
  <2>3. FineInv'
    BY <2>1, FineStepKeeps DEF Turn, RInv
  <2> QED BY <1>1, <2>2, <2>3 DEF RInv
<1>3. CASE /\ UNCHANGED <<marks, pc, todo, found, draft, left>>
           /\ fines' = fines \/ \E T : Annuls(T)
  <2>1. MarkInv'
    BY <1>3, MarksRest DEF RInv
  <2>2. FineInv'
    BY <1>3, FinesRest, AnnulKeeps DEF RInv
  <2> QED BY <1>1, <2>1, <2>2 DEF RInv
<1> QED BY <1>2, <1>3, Steps

\* However many reporters overlap, whichever of them fail, and however often a job of
\* the audit is delivered, a stop has no more marks than transactions fit in the pool.
THEOREM FewMarks == Spec => []MarksPerStop
<1>1. RInv => MarksPerStop
  BY MarksCounted DEF RInv
<1> QED BY <1>1, RInit, RNext, PTL DEF Spec

LEMMA SettledStep ==
  ASSUME RInv, [Next]_vars, NEW f \in fines, f.status # "TENTATIVE", f \notin fines'
  PROVE  StaleSave(f)
<1>1. CASE \E a \in Actors : Turn(a)
  BY <1>1, CommitIsStale DEF Turn, RInv
<1>2. CASE /\ UNCHANGED <<marks, pc, todo, found, draft, left>>
           /\ fines' = fines \/ \E T : Annuls(T)
  BY <1>2, AnnulIsNot DEF RInv
<1> QED BY <1>1, <1>2, Steps

\* A fine that was annulled or made official stays so, unless a transaction that read
\* it before saves it afterwards.
THEOREM SettledStands == Spec => SettledForGood
<1> DEFINE Good == \A f \in fines : f.status # "TENTATIVE" /\ f \notin fines' =>
                     \E a \in Actors : /\ draft[a].stale
                                       /\ \E g \in draft[a].fines : SameRow(f, g) /\ g \in fines'
<1>1. RInv /\ [Next]_vars => [Good]_recVars
  BY SettledStep DEF StaleSave
<1> HIDE DEF Good
<1>2. Spec => [][Good]_recVars
  BY <1>1, RInit, RNext, PTL DEF Spec
<1> USE DEF Good
<1> QED BY <1>2 DEF SettledForGood
=============================================================================

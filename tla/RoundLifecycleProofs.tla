------------------------ MODULE RoundLifecycleProofs ------------------------
(***************************************************************************)
(* What RoundLifecycle guarantees for any number of requests, whatever     *)
(* they interleave.                                                        *)
(***************************************************************************)
EXTENDS RoundLifecycle, SequenceTheorems, FiniteSetTheorems, TLAPS

\* What a request has found when it is at a given step.
Control(r) ==
  /\ pc[r] \in {"count", "insertNext", "event"} \cup Arriving => round[r] # 0
  /\ pc[r] \in {"read", "save"} /\ kind[r] # "CLOSE" => round[r] # 0
  /\ pc[r] = "round" /\ kind[r] = "SYNC" => round[r] # 0
  /\ pc[r] = "ticket" => kind[r] # "SYNC"
  /\ pc[r] = "saveRound" => ticket = "CLOSED" /\ Len(loaded[r]) <= Len(rounds)

TInv ==
  /\ TypeOK
  /\ Len(rounds) > 0
  /\ \A r \in Requests : Control(r)

-----------------------------------------------------------------------------
(* How the list of rounds changes: a round keeps its number and direction,  *)
(* and what is added is the return of a round of the list.                  *)

SameChain(rs) ==
  /\ rs \in Seq(Round)
  /\ Len(rs) = Len(rounds)
  /\ \A j \in 1..Len(rounds) : /\ rs[j].number = rounds[j].number
                               /\ rs[j].direction = rounds[j].direction

Scheduled == \E rs \in Seq(Round), k \in 1..Len(rounds) :
               SameChain(rs) /\ rounds' = Append(rs, NextRound(k))

Grows ==
  /\ rounds' \in Seq(Round)
  /\ Len(rounds') \in {Len(rounds), Len(rounds) + 1}
  /\ \A j \in 1..Len(rounds) : /\ rounds'[j].number = rounds[j].number
                               /\ rounds'[j].direction = rounds[j].direction
  /\ Len(rounds') = Len(rounds) + 1 =>
       /\ rounds'[Len(rounds')].status = "PENDING"
       /\ \E k \in 1..Len(rounds) :
            /\ rounds'[Len(rounds')].number = rounds[k].number + 1
            /\ rounds'[Len(rounds')].direction = Opposite(rounds[k].direction)

\* The table of rounds as a sequence.
LEMMA DomainFacts ==
  TypeOK => /\ Len(rounds) \in Nat
            /\ DOMAIN rounds = 1..Len(rounds)
            /\ \A k \in 1..Len(rounds) : rounds[k] \in Round
            /\ 0 \notin DOMAIN rounds
<1> SUFFICES ASSUME TypeOK
             PROVE  /\ Len(rounds) \in Nat
                    /\ DOMAIN rounds = 1..Len(rounds)
                    /\ \A k \in 1..Len(rounds) : rounds[k] \in Round
                    /\ 0 \notin DOMAIN rounds
  OBVIOUS
<1>1. rounds \in Seq(Round)
  BY DEF TypeOK
<1> QED BY <1>1, LenProperties, ElementOfSeq

\* Replacing the status and the marks of one round keeps the chain.
LEMMA Replace ==
  ASSUME TypeOK, NEW k \in 1..Len(rounds), NEW new \in Round,
         new.number = rounds[k].number, new.direction = rounds[k].direction
  PROVE  /\ SameChain([rounds EXCEPT ![k] = new])
         /\ \A j \in 1..Len(rounds) :
              [rounds EXCEPT ![k] = new][j] = IF j = k THEN new ELSE rounds[j]
<1> DEFINE rs == [rounds EXCEPT ![k] = new]
<1>1. rounds \in Seq(Round)
  BY DEF TypeOK
<1>2. /\ rs \in Seq(Round)
      /\ Len(rs) = Len(rounds)
      /\ \A j \in 1..Len(rounds) : rs[j] = IF j = k THEN new ELSE rounds[j]
  BY <1>1, ExceptSeq
<1> HIDE DEF rs
<1>3. SameChain(rs)
  BY <1>2 DEF SameChain
<1> QED BY <1>2, <1>3 DEF rs

\* Steps that add no round.
LEMMA SameGrows == TypeOK /\ SameChain(rounds') => Grows
<1> SUFFICES ASSUME TypeOK, SameChain(rounds') PROVE Grows
  OBVIOUS
<1>1. Len(rounds) \in Nat
  BY DomainFacts
<1> QED BY <1>1 DEF SameChain, Grows

\* A table that stays as it is keeps its chain.
LEMMA UnchangedSame == TypeOK => SameChain(rounds)
BY DEF TypeOK, SameChain

\* Steps that add the next round of one in the table.
LEMMA ScheduledGrows == TypeOK /\ Scheduled => Grows
<1> SUFFICES ASSUME TypeOK, Scheduled PROVE Grows
  OBVIOUS
<1>1. PICK rs \in Seq(Round), k \in 1..Len(rounds) :
        SameChain(rs) /\ rounds' = Append(rs, NextRound(k))
  BY DEF Scheduled
<1>2. NextRound(k) \in Round
  BY DomainFacts DEF NextRound, Round, Opposite, Directions, RoundsStatus
<1>3. Len(rounds) \in Nat
  BY DomainFacts
<1> DEFINE next == NextRound(k)
<1>4. /\ next.number = rounds[k].number + 1
      /\ next.direction = Opposite(rounds[k].direction)
      /\ next.status = "PENDING"
  BY DEF NextRound
<1> HIDE DEF next
<1>5. /\ rounds' \in Seq(Round)
      /\ Len(rounds') = Len(rs) + 1
      /\ \A j \in 1..Len(rs) : rounds'[j] = rs[j]
      /\ rounds'[Len(rs) + 1] = next
  BY <1>1, <1>2, AppendProperties DEF next
<1> QED BY <1>1, <1>3, <1>4, <1>5 DEF SameChain, Grows

\* A write of a status, with or without marks, replaces one round.
LEMMA StatusWritten ==
  ASSUME TypeOK, NEW k \in 1..Len(rounds), NEW s \in RoundsStatus,
         rounds' = [rounds EXCEPT ![k].status = s]
  PROVE  /\ SameChain(rounds')
         /\ \A j \in 1..Len(rounds) :
              rounds'[j].status = IF j = k THEN s ELSE rounds[j].status
<1> DEFINE new == [rounds[k] EXCEPT !.status = s]
<1>1. rounds[k] \in Round
  BY DomainFacts
<1>2. /\ new \in Round /\ new.status = s
      /\ new.number = rounds[k].number /\ new.direction = rounds[k].direction
  BY <1>1 DEF Round
<1> DEFINE rs == [rounds EXCEPT ![k] = new]
<1>3. rounds' = rs
  OBVIOUS
<1> HIDE DEF new
<1>4. /\ SameChain(rs)
      /\ \A j \in 1..Len(rounds) : rs[j] = IF j = k THEN new ELSE rounds[j]
  BY <1>2, Replace
<1> HIDE DEF rs
<1> QED BY <1>2, <1>3, <1>4

\* An audit writes the status and perhaps a mark.
LEMMA AuditWritten ==
  ASSUME TypeOK, NEW k \in 1..Len(rounds), AuditRound(k)
  PROVE  SameChain(rounds')
<1>1. CASE UNCHANGED rounds
  BY <1>1, UnchangedSame
<1>2. CASE ~UNCHANGED rounds
  <2>1. PICK marks \in {rounds[k].endMarks, {"TRACCAR_AUDIT"}} :
          rounds' = [rounds EXCEPT ![k].status = "COMPLETED", ![k].endMarks = marks]
    BY <1>2 DEF AuditRound
  <2> DEFINE new == [rounds[k] EXCEPT !.status = "COMPLETED", !.endMarks = marks]
  <2>2. rounds[k] \in Round
    BY DomainFacts
  <2>3. /\ new \in Round
        /\ new.number = rounds[k].number /\ new.direction = rounds[k].direction
    BY <2>2 DEF Round, RoundsStatus
  <2>4. rounds' = [rounds EXCEPT ![k] = new]
    BY <2>1
  <2> HIDE DEF new
  <2> QED BY <2>3, <2>4, Replace
<1> QED BY <1>1, <1>2

\* An arrival marks its round, and schedules the next one if it completes it.
LEMMA ArrivalWritten ==
  ASSUME TInv, NEW r \in Requests, CommitArrival(r)
  PROVE  /\ round[r] \in 1..Len(rounds)
         /\ \/ Completes(r) /\ Scheduled /\ Publish(round[r])
            \/ /\ ~Completes(r) /\ SameChain(rounds') /\ UNCHANGED audits
               /\ \A j \in 1..Len(rounds) : rounds'[j].status = rounds[j].status
<1> DEFINE k == round[r]
           marks == MarksAfter(r)
           marked == [rounds EXCEPT ![k].endMarks = marks]
<1>1. TypeOK /\ k \in 1..Len(rounds)
  BY DomainFacts DEF TInv, TypeOK, Control, CommitArrival
<1>2. rounds[k] \in Round
  BY <1>1, DomainFacts
<1>3. marks \in SUBSET {"PWA", "TRACCAR", "TRACCAR_AUDIT"}
  BY <1>2 DEF MarksAfter, Round
<1>4. CASE Completes(r)
  <2> DEFINE new == [rounds[k] EXCEPT !.endMarks = marks, !.status = "COMPLETED"]
             rs == [rounds EXCEPT ![k] = new]
  <2>1. /\ rounds' = Append([marked EXCEPT ![k].status = "COMPLETED"], NextRound(k))
        /\ Publish(k)
    BY <1>4 DEF CommitArrival
  <2> HIDE DEF marks
  <2>2. /\ new \in Round
        /\ new.number = rounds[k].number /\ new.direction = rounds[k].direction
    BY <1>2, <1>3 DEF Round, RoundsStatus
  <2>3. [marked EXCEPT ![k].status = "COMPLETED"] = rs
    BY <1>1, DomainFacts
  <2> HIDE DEF new
  <2>4. SameChain(rs)
    BY <1>1, <2>2, Replace
  <2> HIDE DEF rs, marked
  <2>5. Scheduled
    BY <1>1, <2>1, <2>3, <2>4 DEF Scheduled, SameChain
  <2> QED BY <1>1, <1>4, <2>1, <2>5
<1>5. CASE ~Completes(r)
  <2> DEFINE new == [rounds[k] EXCEPT !.endMarks = marks]
  <2>1. rounds' = marked /\ UNCHANGED audits
    BY <1>5 DEF CommitArrival
  <2> HIDE DEF marks
  <2>2. /\ new \in Round /\ new.status = rounds[k].status
        /\ new.number = rounds[k].number /\ new.direction = rounds[k].direction
    BY <1>2, <1>3 DEF Round
  <2>3. rounds' = [rounds EXCEPT ![k] = new]
    BY <2>1
  <2> HIDE DEF new, marked
  <2>4. /\ SameChain(rounds')
        /\ \A j \in 1..Len(rounds) : rounds'[j] = IF j = k THEN new ELSE rounds[j]
    BY <1>1, <2>2, <2>3, Replace
  <2> QED BY <1>1, <1>5, <2>1, <2>2, <2>4
<1> QED BY <1>4, <1>5

\* Every step keeps the rounds of the chain and adds at most one return.
LEMMA GrowsNext == TInv /\ [Next]_vars => Grows
<1> SUFFICES ASSUME TInv, [Next]_vars PROVE Grows
  OBVIOUS
<1>0. TypeOK
  BY DEF TInv
<1>1. CASE UNCHANGED rounds
  BY <1>0, <1>1, UnchangedSame, SameGrows
<1>2. ASSUME NEW r \in Requests, SaveStart(r) \/ SaveComplete(r) PROVE Grows
  <2>1. round[r] \in 1..Len(rounds)
    BY <1>0, <1>2, DomainFacts DEF TInv, TypeOK, Control, SaveStart, SaveComplete
  <2>2. PICK s \in RoundsStatus : rounds' = [rounds EXCEPT ![round[r]].status = s]
    BY <1>2 DEF SaveStart, SaveComplete, RoundsStatus
  <2> QED BY <1>0, <2>1, <2>2, StatusWritten, SameGrows
<1>3. ASSUME NEW r \in Requests, InsertNext(r) PROVE Grows
  <2>1. round[r] \in 1..Len(rounds)
    BY <1>0, <1>3, DomainFacts DEF TInv, TypeOK, Control, InsertNext
  <2>2. Scheduled
    BY <1>0, <1>3, <2>1, UnchangedSame DEF InsertNext, Scheduled, TypeOK
  <2> QED BY <1>0, <2>2, ScheduledGrows
<1>4. ASSUME NEW r \in Requests, SaveClosedRound(r) PROVE Grows
  <2>1. PICK k \in DOMAIN loaded[r] : rounds' = [rounds EXCEPT ![k].status = "COMPLETED"]
    BY <1>4 DEF SaveClosedRound
  <2>2. k \in 1..Len(rounds)
    <3>1. loaded[r] \in Seq(RoundsStatus) /\ Len(loaded[r]) <= Len(rounds)
      BY <1>0, <1>4 DEF TypeOK, TInv, Control, SaveClosedRound
    <3> QED BY <1>0, <3>1, DomainFacts, LenProperties
  <2> QED BY <1>0, <2>1, <2>2, StatusWritten, SameGrows DEF RoundsStatus
<1>5. ASSUME NEW r \in Requests, CommitArrival(r) PROVE Grows
  BY <1>0, <1>5, ArrivalWritten, ScheduledGrows, SameGrows
<1>6. ASSUME NEW k \in audits, AuditRound(k) PROVE Grows
  <2>1. k \in 1..Len(rounds)
    BY <1>0, DomainFacts DEF TypeOK
  <2> QED BY <1>0, <1>6, <2>1, AuditWritten, SameGrows
<1>7. ASSUME NEW r \in Requests,
             \/ Begin(r) \/ Read(r) \/ CountFines(r) \/ SaveTicket(r) \/ ReadTicket(r)
             \/ MatchRound(r) \/ ReadEvent(r) \/ ReadSyncedRound(r) \/ Fail(r)
      PROVE UNCHANGED rounds
  BY <1>7 DEF Begin, Read, CountFines, SaveTicket, ReadTicket, MatchRound, ReadEvent,
              ReadSyncedRound, Fail, tables
<1>8. CASE FinesChange \/ UNCHANGED vars
  BY <1>1, <1>8 DEF FinesChange, vars, tables
<1> QED BY <1>1, <1>2, <1>3, <1>4, <1>5, <1>6, <1>7, <1>8 DEF Next, Step

-----------------------------------------------------------------------------
\* The typing invariant holds when the ticket has been issued.
LEMMA TypeInit == Init => TInv
<1> SUFFICES ASSUME Init PROVE TInv
  OBVIOUS
<1> DEFINE first == [number |-> 1, direction |-> "IDA", status |-> "PENDING", endMarks |-> {}]
<1>1. first \in Round
  BY DEF Round, Directions, RoundsStatus
<1>2. rounds = <<first>>
  BY DEF Init
<1> HIDE DEF first
<1>3. rounds \in Seq(Round) /\ Len(rounds) = 1
  BY <1>1, <1>2
<1>4. TypeOK
  BY <1>3, EmptySeq DEF Init, TypeOK
<1>5. ASSUME NEW r \in Requests PROVE Control(r)
  BY DEF Init, Control, Arriving
<1> QED BY <1>3, <1>4, <1>5 DEF TInv

\* The domain of the rounds only grows.
LEMMA DomainGrows ==
  ASSUME TypeOK, Grows
  PROVE  /\ DOMAIN rounds' = 1..Len(rounds')
         /\ Len(rounds') \in Nat /\ Len(rounds) <= Len(rounds')
         /\ DOMAIN rounds \subseteq DOMAIN rounds'
<1>1. Len(rounds) \in Nat /\ DOMAIN rounds = 1..Len(rounds)
  BY DomainFacts
<1>2. /\ rounds' \in Seq(Round) /\ Len(rounds') \in {Len(rounds), Len(rounds) + 1}
  BY DEF Grows
<1> QED BY <1>1, <1>2, LenProperties

\* What a request loads is one status per round.
LEMMA SnapshotTyped ==
  TypeOK => Snapshot \in Seq(RoundsStatus) /\ Len(Snapshot) = Len(rounds)
<1> SUFFICES ASSUME TypeOK
             PROVE  Snapshot \in Seq(RoundsStatus) /\ Len(Snapshot) = Len(rounds)
  OBVIOUS
<1>1. /\ Len(rounds) \in Nat /\ DOMAIN rounds = 1..Len(rounds)
      /\ \A k \in 1..Len(rounds) : rounds[k].status \in RoundsStatus
  BY DomainFacts DEF Round
<1>2. Snapshot \in [1..Len(rounds) -> RoundsStatus]
  BY <1>1 DEF Snapshot
<1> QED BY <1>1, <1>2, SeqDef

\* The types of what belongs to the requests.
MemoryTyped ==
  /\ pc \in [Requests -> {"idle"} \cup InFlight \cup Final]
  /\ kind \in [Requests -> Kinds \cup {"NONE"}]
  /\ round \in [Requests -> DOMAIN rounds \cup {0}]
  /\ loaded \in [Requests -> Seq(RoundsStatus)]

\* A request that ends needs nothing any more; the others keep what they have.
LEMMA FinishTyped ==
  ASSUME TInv, Grows, ticket' \in {ticket, "CLOSED"}, NEW r \in Requests,
         NEW outcome \in Final, Finish(r, outcome)
  PROVE  MemoryTyped' /\ \A q \in Requests : Control(q)'
<1>1. /\ pc' = [pc EXCEPT ![r] = outcome] /\ kind' = [kind EXCEPT ![r] = "NONE"]
      /\ round' = [round EXCEPT ![r] = 0] /\ loaded' = [loaded EXCEPT ![r] = <<>>]
  BY DEF Finish
<1>2. TypeOK /\ DOMAIN rounds \subseteq DOMAIN rounds'
  BY DomainGrows DEF TInv
<1>3. <<>> \in Seq(RoundsStatus)
  BY EmptySeq
<1>4. MemoryTyped'
  BY <1>1, <1>2, <1>3 DEF TypeOK, MemoryTyped
<1>5. Control(r)'
  BY <1>1, <1>2 DEF TypeOK, Control, Final, Arriving
<1>6. ASSUME NEW q \in Requests, q # r PROVE Control(q)'
  <2>1. /\ pc'[q] = pc[q] /\ kind'[q] = kind[q] /\ round'[q] = round[q]
        /\ loaded'[q] = loaded[q]
    BY <1>1, <1>2, <1>6 DEF TypeOK
  <2>2. /\ Len(rounds) \in Nat /\ Len(rounds') \in Nat /\ Len(rounds) <= Len(rounds')
        /\ Len(loaded[q]) \in Nat
    BY <1>2, DomainFacts, DomainGrows, LenProperties DEF TypeOK
  <2> QED BY <2>1, <2>2 DEF TInv, Control
<1> QED BY <1>4, <1>5, <1>6

\* A step of one request that leaves it in flight, at l with command c, round k
\* and the statuses it has loaded.
Moves(r, l, c, k, statuses) ==
  /\ pc' = [pc EXCEPT ![r] = l]
  /\ kind' = [kind EXCEPT ![r] = c]
  /\ round' = [round EXCEPT ![r] = k]
  /\ loaded' = [loaded EXCEPT ![r] = statuses]

Fits(l, c, k, statuses) ==
  /\ l \in InFlight /\ c \in Kinds \cup {"NONE"}
  /\ k \in DOMAIN rounds \cup {0} /\ statuses \in Seq(RoundsStatus)
  /\ l \in {"count", "insertNext", "event"} \cup Arriving => k # 0
  /\ l \in {"read", "save"} /\ c # "CLOSE" => k # 0
  /\ l = "round" /\ c = "SYNC" => k # 0
  /\ l = "ticket" => c # "SYNC"
  /\ l = "saveRound" => ticket' = "CLOSED" /\ Len(statuses) <= Len(rounds)

\* A step that moves one request to where it fits keeps all of them typed.
LEMMA MoveTyped ==
  ASSUME TInv, Grows, ticket' \in {ticket, "CLOSED"}, NEW r \in Requests,
         NEW l, NEW c, NEW k, NEW statuses,
         Moves(r, l, c, k, statuses), Fits(l, c, k, statuses)
  PROVE  MemoryTyped' /\ \A q \in Requests : Control(q)'
<1>1. TypeOK /\ DOMAIN rounds \subseteq DOMAIN rounds'
  BY DomainGrows DEF TInv
<1>2. MemoryTyped'
  BY <1>1 DEF TypeOK, MemoryTyped, Moves, Fits
<1>3. Len(rounds) \in Nat /\ Len(rounds') \in Nat /\ Len(rounds) <= Len(rounds')
  BY <1>1, DomainFacts, DomainGrows
<1>4. Control(r)'
  <2>1. pc'[r] = l /\ kind'[r] = c /\ round'[r] = k /\ loaded'[r] = statuses
    BY <1>1 DEF TypeOK, Moves
  <2>2. Len(statuses) \in Nat
    BY LenProperties DEF Fits
  <2> QED BY <1>3, <2>1, <2>2 DEF Control, Fits
<1>5. ASSUME NEW q \in Requests, q # r PROVE Control(q)'
  <2>1. /\ pc'[q] = pc[q] /\ kind'[q] = kind[q] /\ round'[q] = round[q]
        /\ loaded'[q] = loaded[q]
    BY <1>1, <1>5 DEF TypeOK, Moves
  <2>2. Len(loaded[q]) \in Nat
    BY <1>1, LenProperties DEF TypeOK
  <2> QED BY <1>3, <2>1, <2>2 DEF TInv, Control
<1> QED BY <1>2, <1>4, <1>5

\* Steps that touch no request keep them typed.
LEMMA QuietTyped ==
  ASSUME TInv, Grows, ticket' \in {ticket, "CLOSED"}, UNCHANGED <<pc, memory>>
  PROVE  MemoryTyped' /\ \A q \in Requests : Control(q)'
<1>1. TypeOK /\ DOMAIN rounds \subseteq DOMAIN rounds'
  BY DomainGrows DEF TInv
<1>2. /\ Len(rounds) \in Nat /\ Len(rounds') \in Nat /\ Len(rounds) <= Len(rounds')
      /\ \A q \in Requests : Len(loaded[q]) \in Nat
  BY <1>1, DomainFacts, DomainGrows, LenProperties DEF TypeOK
<1>3. MemoryTyped'
  BY <1>1 DEF TypeOK, MemoryTyped, memory
<1>4. ASSUME NEW q \in Requests PROVE Control(q)'
  BY <1>2 DEF TInv, Control, memory
<1> QED BY <1>3, <1>4

\* Every step keeps the requests typed: one step per action.
LEMMA MemoryNext ==
  TInv /\ Grows /\ Next => MemoryTyped' /\ \A q \in Requests : Control(q)'
<1> SUFFICES ASSUME TInv, Grows, Next
             PROVE  MemoryTyped' /\ \A q \in Requests : Control(q)'
  OBVIOUS
<1>0. /\ TypeOK
      /\ \A q \in Requests : /\ kind[q] \in Kinds \cup {"NONE"}
                             /\ round[q] \in DOMAIN rounds \cup {0}
                             /\ loaded[q] \in Seq(RoundsStatus)
  BY DEF TInv, TypeOK
<1>1. ticket' \in {ticket, "CLOSED"}
  BY DEF Next, Step, Begin, Read, CountFines, SaveStart, SaveComplete, InsertNext, SaveTicket,
         SaveClosedRound, ReadTicket, MatchRound, ReadEvent, ReadSyncedRound, CommitArrival,
         Fail, AuditRound, FinesChange, tables
<1>2. ASSUME NEW r \in Requests, NEW outcome \in Final, Finish(r, outcome)
      PROVE  MemoryTyped' /\ \A q \in Requests : Control(q)'
  BY <1>1, <1>2, FinishTyped
<1>3. ASSUME NEW r \in Requests, Begin(r)
      PROVE  MemoryTyped' /\ \A q \in Requests : Control(q)'
  <2>1. PICK c \in Kinds, n \in DOMAIN rounds :
          /\ kind' = [kind EXCEPT ![r] = c]
          /\ round' = [round EXCEPT ![r] = IF c \in {"START", "COMPLETE", "SYNC"} THEN n ELSE 0]
          /\ pc' = [pc EXCEPT ![r] = IF c \in {"START", "COMPLETE", "CLOSE"} THEN "read"
                                     ELSE IF c = "SYNC" THEN "event" ELSE "ticket"]
    BY <1>3 DEF Begin
  <2> DEFINE l == IF c \in {"START", "COMPLETE", "CLOSE"} THEN "read"
                  ELSE IF c = "SYNC" THEN "event" ELSE "ticket"
             k == IF c \in {"START", "COMPLETE", "SYNC"} THEN n ELSE 0
  <2>2. Moves(r, l, c, k, loaded[r])
    BY <1>0, <1>3, <2>1 DEF Begin, TypeOK, Moves
  <2>3. n # 0
    BY <1>0, DomainFacts
  <2>4. Fits(l, c, k, loaded[r])
    BY <1>0, <2>3 DEF Fits, InFlight, Arriving
  <2> HIDE DEF l, k
  <2> QED BY <1>1, <2>2, <2>4, MoveTyped
<1>4. ASSUME NEW r \in Requests, Read(r) \/ CountFines(r)
      PROVE  MemoryTyped' /\ \A q \in Requests : Control(q)'
  <2>1. CASE Finish(r, "rejected")
    BY <1>2, <2>1 DEF Final
  <2>2. CASE Read(r) /\ ~Finish(r, "rejected")
    <3> DEFINE l == IF kind[r] = "START" THEN "count" ELSE "save"
    <3>1. Moves(r, l, kind[r], round[r], Snapshot)
      BY <1>0, <2>2 DEF Read, Moves, TypeOK
    <3>2. pc[r] = "read"
      BY <2>2 DEF Read
    <3>3. kind[r] # "CLOSE" => round[r] # 0
      BY <3>2 DEF TInv, Control
    <3>4. Snapshot \in Seq(RoundsStatus)
      BY <1>0, SnapshotTyped
    <3>5. Fits(l, kind[r], round[r], Snapshot)
      BY <1>0, <3>3, <3>4 DEF Fits, InFlight, Arriving
    <3> HIDE DEF l
    <3> QED BY <1>1, <3>1, <3>5, MoveTyped
  <2>3. CASE CountFines(r) /\ ~Finish(r, "rejected")
    <3>1. pc[r] = "count" /\ Moves(r, "save", kind[r], round[r], loaded[r])
      BY <1>0, <2>3 DEF CountFines, Moves, TypeOK, memory
    <3>2. round[r] # 0
      BY <3>1 DEF TInv, Control
    <3>3. Fits("save", kind[r], round[r], loaded[r])
      BY <1>0, <3>2 DEF Fits, InFlight, Arriving
    <3> QED BY <1>1, <3>1, <3>3, MoveTyped
  <2> QED BY <1>4, <2>1, <2>2, <2>3
<1>5. ASSUME NEW r \in Requests, SaveStart(r) \/ InsertNext(r) \/ SaveClosedRound(r)
             \/ CommitArrival(r) \/ Fail(r)
      PROVE  MemoryTyped' /\ \A q \in Requests : Control(q)'
  BY <1>2, <1>5 DEF SaveStart, InsertNext, SaveClosedRound, CommitArrival, Fail, Final
<1>6. ASSUME NEW r \in Requests, SaveComplete(r)
      PROVE  MemoryTyped' /\ \A q \in Requests : Control(q)'
  <2>1. /\ pc[r] = "save" /\ kind[r] = "COMPLETE"
        /\ Moves(r, "insertNext", kind[r], round[r], loaded[r])
    BY <1>0, <1>6 DEF SaveComplete, Moves, TypeOK, memory
  <2>2. round[r] # 0
    BY <2>1 DEF TInv, Control
  <2>3. Fits("insertNext", kind[r], round[r], loaded[r])
    BY <1>0, <2>2 DEF Fits, InFlight
  <2> QED BY <1>1, <2>1, <2>3, MoveTyped
<1>7. ASSUME NEW r \in Requests, SaveTicket(r)
      PROVE  MemoryTyped' /\ \A q \in Requests : Control(q)'
  <2>1. CASE Finish(r, "error") \/ Finish(r, "ok")
    BY <1>2, <2>1 DEF Final
  <2>2. CASE ~(Finish(r, "error") \/ Finish(r, "ok"))
    <3>1. /\ Len(rounds) = Len(loaded[r]) /\ ticket' = "CLOSED"
          /\ Moves(r, "saveRound", kind[r], round[r], loaded[r])
      BY <1>0, <1>7, <2>2 DEF SaveTicket, Moves, TypeOK, memory
    <3>2. Len(loaded[r]) <= Len(rounds)
      BY <1>0, <3>1, DomainFacts
    <3>3. Fits("saveRound", kind[r], round[r], loaded[r])
      BY <1>0, <3>1, <3>2 DEF Fits, InFlight, Arriving
    <3> QED BY <1>1, <3>1, <3>3, MoveTyped
  <2> QED BY <2>1, <2>2
<1>8. ASSUME NEW r \in Requests, ReadTicket(r) \/ ReadEvent(r)
      PROVE  MemoryTyped' /\ \A q \in Requests : Control(q)'
  <2>1. CASE Finish(r, "ignored") \/ Finish(r, "duplicate")
    BY <1>2, <2>1 DEF Final
  <2>2. CASE ReadTicket(r) /\ ~Finish(r, "ignored")
    <3>1. pc[r] = "ticket" /\ Moves(r, "round", kind[r], round[r], loaded[r])
      BY <1>0, <2>2 DEF ReadTicket, Moves, TypeOK, memory
    <3>2. kind[r] # "SYNC"
      BY <3>1 DEF TInv, Control
    <3>3. Fits("round", kind[r], round[r], loaded[r])
      BY <1>0, <3>2 DEF Fits, InFlight, Arriving
    <3> QED BY <1>1, <3>1, <3>3, MoveTyped
  <2>3. CASE ReadEvent(r) /\ ~Finish(r, "duplicate")
    <3>1. PICK l \in {"round"} \cup Arriving : Moves(r, l, kind[r], round[r], loaded[r])
      BY <1>0, <2>3 DEF ReadEvent, Arriving, Moves, TypeOK, memory
    <3>2. pc[r] = "event"
      BY <2>3 DEF ReadEvent
    <3>3. round[r] # 0
      BY <3>2 DEF TInv, Control
    <3>4. Fits(l, kind[r], round[r], loaded[r])
      BY <1>0, <3>3 DEF Fits, InFlight, Arriving
    <3> QED BY <1>1, <3>1, <3>4, MoveTyped
  <2> QED BY <1>8, <2>1, <2>2, <2>3
<1>9. ASSUME NEW r \in Requests, MatchRound(r) \/ ReadSyncedRound(r)
      PROVE  MemoryTyped' /\ \A q \in Requests : Control(q)'
  <2>0. Snapshot \in Seq(RoundsStatus)
    BY <1>0, SnapshotTyped
  <2>1. CASE Finish(r, "ignored")
    BY <1>2, <2>1 DEF Final
  <2>2. CASE MatchRound(r) /\ ~Finish(r, "ignored")
    <3>1. PICK k \in DOMAIN rounds : round' = [round EXCEPT ![r] = k]
      BY <2>2 DEF MatchRound, LatestOpen, OpenRounds, WindowMatches
    <3>2. Moves(r, "event", kind[r], k, Snapshot)
      BY <1>0, <2>2, <3>1 DEF MatchRound, Moves, TypeOK
    <3>3. k # 0
      BY <1>0, DomainFacts
    <3>4. Fits("event", kind[r], k, Snapshot)
      BY <1>0, <2>0, <3>3 DEF Fits, InFlight
    <3> QED BY <1>1, <3>2, <3>4, MoveTyped
  <2>3. CASE ReadSyncedRound(r)
    <3>1. /\ pc[r] = "round" /\ kind[r] = "SYNC"
          /\ Moves(r, "commitNew", kind[r], round[r], Snapshot)
      BY <1>0, <2>3 DEF ReadSyncedRound, Moves, TypeOK
    <3>2. round[r] # 0
      BY <3>1 DEF TInv, Control
    <3>3. Fits("commitNew", kind[r], round[r], Snapshot)
      BY <1>0, <2>0, <3>2 DEF Fits, InFlight, Arriving
    <3> QED BY <1>1, <3>1, <3>3, MoveTyped
  <2> QED BY <1>9, <2>1, <2>2, <2>3
<1>10. CASE (\E k \in audits : AuditRound(k)) \/ FinesChange
  BY <1>1, <1>10, QuietTyped DEF AuditRound, FinesChange
<1> QED BY <1>3, <1>4, <1>5, <1>6, <1>7, <1>8, <1>9, <1>10 DEF Next, Step

\* The typing invariant is inductive.
LEMMA TypeNext == TInv /\ [Next]_vars => TInv'
<1> SUFFICES ASSUME TInv, [Next]_vars PROVE TInv'
  OBVIOUS
<1>0. TypeOK /\ Grows
  BY GrowsNext DEF TInv
<1>1. /\ rounds' \in Seq(Round) /\ DOMAIN rounds \subseteq DOMAIN rounds'
      /\ Len(rounds') > 0
  BY <1>0, DomainFacts, DomainGrows DEF TInv, Grows
<1>2. CASE UNCHANGED vars
  <2>1. TypeOK'
    BY <1>0, <1>2 DEF vars, tables, memory, TypeOK
  <2>2. ASSUME NEW r \in Requests PROVE Control(r)'
    BY <1>2 DEF vars, tables, memory, TInv, Control
  <2> QED BY <1>1, <2>1, <2>2 DEF TInv
<1>3. CASE Next
  <2>1. MemoryTyped' /\ \A q \in Requests : Control(q)'
    BY <1>0, <1>3, MemoryNext
  <2>2. ticket' \in {"ACTIVE", "CLOSED"} /\ fines' \in BOOLEAN
    BY <1>0, <1>3
       DEF TypeOK, Next, Step, Begin, Read, CountFines, SaveStart, SaveComplete, InsertNext,
           SaveTicket, SaveClosedRound, ReadTicket, MatchRound, ReadEvent, ReadSyncedRound,
           CommitArrival, Fail, AuditRound, FinesChange, tables
  <2>3. audits' \subseteq DOMAIN rounds
    <3>1. ASSUME NEW k \in DOMAIN rounds, Publish(k) PROVE audits' \subseteq DOMAIN rounds
      BY <1>0, <3>1 DEF Publish, TypeOK
    <3>2. ASSUME NEW r \in Requests, SaveComplete(r) PROVE audits' \subseteq DOMAIN rounds
      BY <1>0, <3>1, <3>2 DEF SaveComplete, TInv, TypeOK, Control
    <3>3. ASSUME NEW r \in Requests, SaveClosedRound(r) PROVE audits' \subseteq DOMAIN rounds
      <4>1. PICK k \in DOMAIN loaded[r] : Publish(k)
        BY <3>3 DEF SaveClosedRound
      <4>2. loaded[r] \in Seq(RoundsStatus) /\ Len(loaded[r]) <= Len(rounds)
        BY <1>0, <3>3 DEF TypeOK, TInv, Control, SaveClosedRound
      <4>3. k \in DOMAIN rounds
        BY <1>0, <4>2, DomainFacts, LenProperties
      <4> QED BY <3>1, <4>1, <4>3
    <3>4. ASSUME NEW r \in Requests, CommitArrival(r) PROVE audits' \subseteq DOMAIN rounds
      BY <1>0, <3>1, <3>4, ArrivalWritten, DomainFacts DEF TypeOK
    <3>5. ASSUME NEW r \in Requests, Fail(r) PROVE audits' \subseteq DOMAIN rounds
      BY <1>0, <3>5 DEF Fail, TInv, TypeOK, Control
    <3>6. ASSUME NEW r \in Requests,
                 \/ Begin(r) \/ Read(r) \/ CountFines(r) \/ SaveStart(r) \/ InsertNext(r)
                 \/ SaveTicket(r) \/ ReadTicket(r) \/ MatchRound(r) \/ ReadEvent(r)
                 \/ ReadSyncedRound(r)
          PROVE UNCHANGED audits
      BY <3>6 DEF Begin, Read, CountFines, SaveStart, InsertNext, SaveTicket, ReadTicket,
                  MatchRound, ReadEvent, ReadSyncedRound, tables
    <3>7. CASE (\E k \in audits : AuditRound(k)) \/ FinesChange
      BY <1>0, <3>7 DEF AuditRound, FinesChange, TypeOK
    <3> QED BY <1>0, <1>3, <3>2, <3>3, <3>4, <3>5, <3>6, <3>7 DEF Next, Step, TypeOK
  <2>4. stale' \subseteq Requests
    BY <1>0, <1>3
       DEF TypeOK, Next, Step, Begin, Read, CountFines, SaveStart, SaveComplete, InsertNext,
           SaveTicket, SaveClosedRound, ReadTicket, MatchRound, ReadEvent, ReadSyncedRound,
           CommitArrival, Fail, AuditRound, FinesChange, Overwrites, tables
  <2> QED BY <1>1, <2>1, <2>2, <2>3, <2>4 DEF TInv, TypeOK, MemoryTyped
<1> QED BY <1>2, <1>3

\* Type correctness, for any number of requests.
THEOREM Typing == Spec => []TypeOK
<1>1. TInv => TypeOK
  BY DEF TInv
<1> QED BY <1>1, TypeInit, TypeNext, PTL DEF Spec

-----------------------------------------------------------------------------
(* A vehicle is never stranded.  The last round of the list is open, and no *)
(* audit is queued that would complete it, or a request is about to insert  *)
(* the next one, or has failed to.  Quiet states need not say so by themselves: a completion  *)
(* passes through states without an open round.                             *)

Waiting == rounds[Len(rounds)].status \in Open /\ Len(rounds) \notin audits

Served == ticket = "ACTIVE" =>
            Waiting \/ \E r \in Requests : pc[r] \in {"insertNext", "halfDone"}

\* A new last round waits: nobody has queued it.
LEMMA NewLastWaits ==
  ASSUME TInv, Scheduled, audits' \subseteq DOMAIN rounds
  PROVE  Waiting'
<1>1. PICK rs \in Seq(Round), k \in 1..Len(rounds) :
        SameChain(rs) /\ rounds' = Append(rs, NextRound(k))
  BY DEF Scheduled
<1>2. NextRound(k) \in Round /\ NextRound(k).status = "PENDING"
  BY DomainFacts DEF TInv, NextRound, Round, Opposite, Directions, RoundsStatus
<1>3. Len(rs) = Len(rounds) /\ Len(rounds) \in Nat /\ DOMAIN rounds = 1..Len(rounds)
  BY <1>1, DomainFacts DEF SameChain, TInv
<1>4. /\ Len(rounds') = Len(rounds) + 1
      /\ rounds'[Len(rounds) + 1] = NextRound(k)
  BY <1>1, <1>2, <1>3, AppendProperties
<1>5. Len(rounds) + 1 \notin audits'
  BY <1>3
<1>6. rounds'[Len(rounds')].status = "PENDING" /\ Len(rounds') \notin audits'
  BY <1>2, <1>4, <1>5
<1> QED BY <1>6 DEF Waiting, Open

\* A round that waits goes on waiting while it is not completed or queued.
LEMMA LastWaits ==
  ASSUME Waiting, Len(rounds') = Len(rounds), audits' \subseteq audits,
         rounds'[Len(rounds)].status \in Open
  PROVE  Waiting'
BY DEF Waiting

\* Served is inductive.
LEMMA ServedNext == TInv /\ Served /\ [Next]_vars => Served'
<1> SUFFICES ASSUME TInv, Served, [Next]_vars, ticket' = "ACTIVE",
                    \A r \in Requests : pc'[r] \notin {"insertNext", "halfDone"}
             PROVE  Waiting'
  BY DEF Served
<1>0. TypeOK /\ Len(rounds) \in 1..Len(rounds) /\ DOMAIN rounds = 1..Len(rounds)
  BY DomainFacts DEF TInv
<1>1. ticket = "ACTIVE"
  <2>1. ticket' \in {ticket, "CLOSED"}
    BY DEF Next, Step, Begin, Read, CountFines, SaveStart, SaveComplete, InsertNext, SaveTicket,
           SaveClosedRound, ReadTicket, MatchRound, ReadEvent, ReadSyncedRound, CommitArrival,
           Fail, AuditRound, FinesChange, tables, vars
  <2> QED BY <2>1
<1>2. Waiting \/ \E r \in Requests : InsertNext(r)
  <2> DEFINE Ends(q) == pc[q] \in {"insertNext", "halfDone"}
  <2>1. CASE UNCHANGED pc
    BY <1>1, <2>1 DEF Served
  <2>2. ASSUME NEW r \in Requests, Begin(r) \/ Step(r) \/ Fail(r), ~InsertNext(r)
        PROVE  \A q \in Requests : Ends(q) => Ends(q)'
    BY <1>0, <2>2
       DEF TypeOK, Step, Begin, Read, CountFines, SaveStart, SaveComplete, SaveTicket,
           SaveClosedRound, ReadTicket, MatchRound, ReadEvent, ReadSyncedRound, CommitArrival,
           Fail, Finish, Arriving, InFlight
  <2>3. CASE (\E k \in audits : AuditRound(k)) \/ FinesChange \/ UNCHANGED vars
    BY <2>1, <2>3 DEF AuditRound, FinesChange, vars
  <2> QED BY <1>1, <2>2, <2>3 DEF Next, Served
<1>3. ASSUME NEW r \in Requests, InsertNext(r) PROVE Waiting'
  <2>1. Scheduled
    BY <1>0, <1>3, UnchangedSame DEF InsertNext, Scheduled, TInv, TypeOK, Control
  <2>2. audits' \subseteq DOMAIN rounds
    BY <1>0, <1>3 DEF InsertNext, TypeOK
  <2> QED BY <2>1, <2>2, NewLastWaits
<1>4. ASSUME NEW r \in Requests, CommitArrival(r), Waiting PROVE Waiting'
  <2>1. CASE Completes(r) /\ Scheduled /\ Publish(round[r])
    <3>1. audits' \subseteq DOMAIN rounds
      BY <1>0, <1>4, <2>1, ArrivalWritten DEF Publish, TypeOK
    <3> QED BY <2>1, <3>1, NewLastWaits
  <2>2. CASE /\ SameChain(rounds') /\ UNCHANGED audits
             /\ \A j \in 1..Len(rounds) : rounds'[j].status = rounds[j].status
    BY <1>0, <1>4, <2>2, LastWaits DEF SameChain, Waiting
  <2> QED BY <1>4, <2>1, <2>2, ArrivalWritten
<1>5. ASSUME NEW r \in Requests, SaveStart(r), Waiting PROVE Waiting'
  <2>1. /\ round[r] \in 1..Len(rounds) /\ UNCHANGED audits
        /\ rounds' = [rounds EXCEPT ![round[r]].status = "IN_PROGRESS"]
    BY <1>0, <1>5 DEF SaveStart, TInv, TypeOK, Control
  <2>2. /\ Len(rounds') = Len(rounds)
        /\ rounds'[Len(rounds)].status \in {"IN_PROGRESS", rounds[Len(rounds)].status}
    BY <1>0, <2>1, StatusWritten DEF SameChain, RoundsStatus
  <2> QED BY <1>5, <2>1, <2>2, LastWaits DEF Waiting, Open
<1>6. ASSUME NEW r \in Requests, SaveComplete(r) PROVE FALSE
  BY <1>0, <1>6 DEF SaveComplete, TypeOK
<1>7. ASSUME NEW r \in Requests, SaveClosedRound(r) PROVE FALSE
  BY <1>1, <1>7 DEF SaveClosedRound, TInv, Control
<1>8. ASSUME NEW k \in audits, AuditRound(k), Waiting PROVE Waiting'
  <2>1. k \in 1..Len(rounds) /\ k # Len(rounds) /\ audits' \subseteq audits
    BY <1>0, <1>8 DEF Waiting, AuditRound, TypeOK
  <2>2. Len(rounds') = Len(rounds)
    BY <1>0, <1>8, <2>1, AuditWritten DEF SameChain
  <2>3. rounds'[Len(rounds)] = rounds[Len(rounds)]
    BY <1>0, <1>8, <2>1 DEF AuditRound
  <2> QED BY <1>8, <2>1, <2>2, <2>3, LastWaits DEF Waiting
<1>9. CASE UNCHANGED <<rounds, audits>> /\ Waiting
  BY <1>9 DEF Waiting
<1>10. ASSUME NEW r \in Requests,
              \/ Begin(r) \/ Read(r) \/ CountFines(r) \/ SaveTicket(r) \/ ReadTicket(r)
              \/ MatchRound(r) \/ ReadEvent(r) \/ ReadSyncedRound(r)
              \/ Fail(r) /\ ~Finish(r, "halfDone")
       PROVE UNCHANGED <<rounds, audits>>
  BY <1>10 DEF Begin, Read, CountFines, SaveTicket, ReadTicket, MatchRound, ReadEvent,
               ReadSyncedRound, Fail, tables
<1>11. CASE FinesChange \/ UNCHANGED vars
  BY <1>2, <1>3, <1>9, <1>11 DEF FinesChange, vars, tables
<1>12. ASSUME NEW r \in Requests, Finish(r, "halfDone") PROVE FALSE
  BY <1>0, <1>12 DEF Finish, TypeOK
<1> QED BY <1>1, <1>2, <1>3, <1>4, <1>5, <1>6, <1>7, <1>8, <1>9, <1>10, <1>11, <1>12 DEF Next, Step

\* A vehicle whose day is open has a round to run whenever
\* no request is in flight, although stale requests write old statuses back and
\* audits complete whatever was queued.
THEOREM NoneStranded == Spec => []NeverStranded
<1>1. Init => Served
  <2> SUFFICES ASSUME Init PROVE Waiting
    BY DEF Served
  <2>1. Len(rounds) = 1 /\ rounds[1].status = "PENDING" /\ audits = {}
    BY DEF Init
  <2> QED BY <2>1 DEF Waiting, Open
<1>2. TInv /\ Served => NeverStranded
  <2> SUFFICES ASSUME TInv, Served, ticket = "ACTIVE", Quiet,
                      \A r \in Requests : pc[r] # "halfDone"
               PROVE  OpenRounds # {}
    BY DEF NeverStranded
  <2>1. Waiting
    BY DEF Served, Quiet, InFlight
  <2>2. Len(rounds) \in DOMAIN rounds
    BY DomainFacts DEF TInv
  <2> QED BY <2>1, <2>2 DEF Waiting, OpenRounds
<1> QED BY <1>1, <1>2, ServedNext, TypeInit, TypeNext, PTL DEF Spec

-----------------------------------------------------------------------------
(* Rounds and stale saves.  At a number n, count the rounds that have it,   *)
(* the open rounds before it, which may still lead to one more, and the     *)
(* completions before it that owe their next round.  A request that saves   *)
(* over what it has read moves one of them to the next; only a stale save   *)
(* adds one.                                                                *)

Line(n) == {k \in DOMAIN rounds : \/ rounds[k].number = n
                                  \/ rounds[k].number < n /\ rounds[k].status \in Open}
Owed(n) == {r \in Requests : pc[r] = "insertNext" /\ rounds[round[r]].number < n}

Bounded(n) == Cardinality(Line(n)) + Cardinality(Owed(n)) <= 1 + Cardinality(stale)

\* What a request has read when it saves, and that it saves once.
Read1(r) ==
  /\ r \in stale => pc[r] \in {"insertNext", "ok", "halfDone", "error"}
  /\ kind[r] = "START" /\ pc[r] \in {"count", "save"} => loaded[r][round[r]] = "PENDING"
  /\ kind[r] = "COMPLETE" /\ pc[r] = "save" => loaded[r][round[r]] = "IN_PROGRESS"
  /\ pc[r] = "count" => kind[r] = "START"

SInv == /\ TInv
        /\ \A r \in Requests : Read1(r)
        /\ \A k \in DOMAIN rounds : rounds[k].number <= k
        /\ \A n \in Nat : Bounded(n)

(* Counting.                                                                *)

LEMMA Less ==
  ASSUME NEW A, NEW B, IsFiniteSet(A), B \subseteq A
  PROVE  /\ IsFiniteSet(B) /\ Cardinality(A) \in Nat /\ Cardinality(B) \in Nat
         /\ Cardinality(B) <= Cardinality(A)
BY FS_Subset, FS_CardinalityType

LEMMA More ==
  ASSUME NEW A, NEW B, NEW x, IsFiniteSet(A), B \subseteq A \cup {x}
  PROVE  Cardinality(B) <= Cardinality(A) + 1
<1>1. /\ IsFiniteSet(A \cup {x}) /\ Cardinality(A) \in Nat
      /\ Cardinality(A \cup {x}) <= Cardinality(A) + 1
  <2>1. /\ IsFiniteSet(A \cup {x})
        /\ Cardinality(A \cup {x}) = IF x \in A THEN Cardinality(A) ELSE Cardinality(A) + 1
    BY FS_AddElement
  <2>2. Cardinality(A) \in Nat
    BY FS_CardinalityType
  <2> QED BY <2>1, <2>2
<1>2. /\ Cardinality(B) <= Cardinality(A \cup {x})
      /\ Cardinality(B) \in Nat /\ Cardinality(A \cup {x}) \in Nat
  BY <1>1, Less
<1> QED BY <1>1, <1>2

LEMMA Fewer ==
  ASSUME NEW A, NEW B, NEW x \in A, IsFiniteSet(A), B \subseteq A \ {x}
  PROVE  Cardinality(B) + 1 <= Cardinality(A)
<1>1. /\ IsFiniteSet(A \ {x}) /\ Cardinality(A) \in Nat
      /\ Cardinality(A \ {x}) = Cardinality(A) - 1
  BY FS_RemoveElement, FS_CardinalityType
<1>2. /\ Cardinality(B) <= Cardinality(A \ {x})
      /\ Cardinality(B) \in Nat /\ Cardinality(A \ {x}) \in Nat
  BY <1>1, Less
<1> QED BY <1>1, <1>2

LEMMA Swapped ==
  ASSUME NEW A, NEW B, NEW x \in A, NEW y, IsFiniteSet(A), B \subseteq (A \ {x}) \cup {y}
  PROVE  Cardinality(B) <= Cardinality(A)
<1>1. /\ IsFiniteSet(A \ {x}) /\ Cardinality(A) \in Nat
      /\ Cardinality(A \ {x}) = Cardinality(A) - 1
  BY FS_RemoveElement, FS_CardinalityType
<1>2. Cardinality(B) <= Cardinality(A \ {x}) + 1
  BY <1>1, More
<1>3. Cardinality(B) \in Nat
  <2>1. IsFiniteSet((A \ {x}) \cup {y})
    BY <1>1, FS_AddElement
  <2> QED BY <2>1, Less
<1> QED BY <1>1, <1>2, <1>3

\* The sets that are counted are finite.
Countable(n) ==
  /\ IsFiniteSet(Line(n)) /\ IsFiniteSet(Owed(n)) /\ IsFiniteSet(stale)
  /\ Cardinality(Line(n)) \in Nat /\ Cardinality(Owed(n)) \in Nat
  /\ Cardinality(stale) \in Nat

AllCountable == \A n \in Nat : Countable(n)

LEMMA Counted == TypeOK => AllCountable
<1> SUFFICES ASSUME TypeOK, NEW n \in Nat PROVE Countable(n)
  BY DEF AllCountable
<1>1. IsFiniteSet(DOMAIN rounds)
  BY DomainFacts, FS_Interval
<1>2. IsFiniteSet(Requests)
  BY RoundAssumptions
<1>3. Line(n) \subseteq DOMAIN rounds /\ Owed(n) \subseteq Requests /\ stale \subseteq Requests
  BY DEF Line, Owed, TypeOK
<1> QED BY <1>1, <1>2, <1>3, Less DEF Countable

\* The number of a round and what is written of it.
LEMMA Numbers ==
  TypeOK => \A k \in DOMAIN rounds : rounds[k].number \in Nat \ {0} /\ rounds[k].status \in RoundsStatus
BY DomainFacts DEF Round

\* The statuses after a save of one round.
Wrote(k, s) ==
  /\ DOMAIN rounds' = DOMAIN rounds
  /\ \A j \in DOMAIN rounds : /\ rounds'[j].number = rounds[j].number
                              /\ rounds'[j].status = IF j = k THEN s ELSE rounds[j].status

\* The statuses after the next round of k has been added, as j, and i has been
\* completed.
Added(i, k, new) ==
  /\ new \notin DOMAIN rounds /\ DOMAIN rounds' = DOMAIN rounds \cup {new}
  /\ new = Len(rounds) + 1
  /\ \A j \in DOMAIN rounds : /\ rounds'[j].number = rounds[j].number
                              /\ rounds'[j].status = IF j = i THEN "COMPLETED" ELSE rounds[j].status
  /\ rounds'[new].number = rounds[k].number + 1

\* A save of one status.
LEMMA WroteStatus ==
  ASSUME TypeOK, NEW k \in DOMAIN rounds, NEW s \in RoundsStatus,
         rounds' = [rounds EXCEPT ![k].status = s]
  PROVE  Wrote(k, s)
<1>1. k \in 1..Len(rounds) /\ DOMAIN rounds = 1..Len(rounds)
  BY DomainFacts
<1>2. /\ SameChain(rounds')
      /\ \A j \in 1..Len(rounds) :
           rounds'[j].status = IF j = k THEN s ELSE rounds[j].status
  BY <1>1, StatusWritten
<1>3. DOMAIN rounds' = 1..Len(rounds)
  BY <1>2, LenProperties DEF SameChain
<1> QED BY <1>1, <1>2, <1>3 DEF Wrote, SameChain

\* The insertion of the next round.
LEMMA AddedNext ==
  ASSUME TypeOK, NEW k \in DOMAIN rounds, rounds' = Append(rounds, NextRound(k))
  PROVE  Added(0, k, Len(rounds) + 1)
<1>1. NextRound(k) \in Round /\ NextRound(k).number = rounds[k].number + 1
  BY DomainFacts DEF NextRound, Round, Opposite, Directions, RoundsStatus
<1> DEFINE next == NextRound(k)
<1> HIDE DEF next
<1>2. Len(rounds) \in Nat /\ DOMAIN rounds = 1..Len(rounds)
  BY DomainFacts
<1>3. /\ rounds' \in Seq(Round) /\ Len(rounds') = Len(rounds) + 1
      /\ \A j \in 1..Len(rounds) : rounds'[j] = rounds[j]
      /\ rounds'[Len(rounds) + 1] = next
  BY <1>1, AppendProperties DEF TypeOK, next
<1>4. DOMAIN rounds' = 1..(Len(rounds) + 1)
  BY <1>3, LenProperties
<1> QED BY <1>1, <1>2, <1>3, <1>4 DEF Added, next

\* An arrival that completes its round.
LEMMA AddedArrival ==
  ASSUME TInv, NEW r \in Requests, CommitArrival(r), Completes(r)
  PROVE  Added(round[r], round[r], Len(rounds) + 1)
<1> DEFINE k == round[r]
           marks == MarksAfter(r)
           marked == [rounds EXCEPT ![k].endMarks = marks]
           new == [rounds[k] EXCEPT !.endMarks = marks, !.status = "COMPLETED"]
           rs == [rounds EXCEPT ![k] = new]
           next == NextRound(k)
<1>1. TypeOK /\ k \in 1..Len(rounds) /\ k \in DOMAIN rounds
  BY DomainFacts DEF TInv, TypeOK, Control, CommitArrival
<1>2. rounds[k] \in Round
  BY <1>1, DomainFacts
<1>3. marks \in SUBSET {"PWA", "TRACCAR", "TRACCAR_AUDIT"}
  BY <1>2 DEF MarksAfter, Round
<1>4. rounds' = Append([marked EXCEPT ![k].status = "COMPLETED"], next)
  BY DEF CommitArrival
<1> DEFINE done == [marked EXCEPT ![k].status = "COMPLETED"]
<1> HIDE DEF marks
<1>5. /\ new \in Round /\ new.status = "COMPLETED"
      /\ new.number = rounds[k].number /\ new.direction = rounds[k].direction
  BY <1>2, <1>3 DEF Round, RoundsStatus
<1>6. done = rs
  BY <1>1, DomainFacts
<1>7. next \in Round /\ next.number = rounds[k].number + 1
  BY <1>1, DomainFacts DEF NextRound, Round, Opposite, Directions, RoundsStatus
<1>8. Len(rounds) \in Nat /\ DOMAIN rounds = 1..Len(rounds)
  BY <1>1, DomainFacts
<1> HIDE DEF new, next
<1>9. /\ SameChain(rs)
      /\ \A j \in 1..Len(rounds) : rs[j] = IF j = k THEN new ELSE rounds[j]
  BY <1>1, <1>5, Replace
<1> HIDE DEF rs, marked, done
<1>10. rounds' = Append(rs, next)
  BY <1>4, <1>6 DEF done
<1>11. /\ rounds' \in Seq(Round) /\ Len(rounds') = Len(rounds) + 1
       /\ \A j \in 1..Len(rounds) : rounds'[j] = rs[j]
       /\ rounds'[Len(rounds) + 1] = next
  BY <1>7, <1>9, <1>10, AppendProperties DEF SameChain
<1>12. DOMAIN rounds' = 1..(Len(rounds) + 1)
  BY <1>11, LenProperties
<1> HIDE DEF k
<1>13. \A j \in 1..Len(rounds) :
         /\ rounds'[j].number = rounds[j].number
         /\ rounds'[j].status = IF j = k THEN "COMPLETED" ELSE rounds[j].status
  BY <1>5, <1>9, <1>11 DEF SameChain
<1>14. Added(k, k, Len(rounds) + 1)
  BY <1>7, <1>8, <1>11, <1>12, <1>13 DEF Added
<1> QED BY <1>14 DEF k

(* What a step may do to the count at n.                                    *)

Steady(n) ==
  \/ Line(n)' \subseteq Line(n) /\ Owed(n)' \subseteq Owed(n)
  \/ \E x \in DOMAIN rounds', y \in Owed(n) :
       Line(n)' \subseteq Line(n) \cup {x} /\ Owed(n)' \subseteq Owed(n) \ {y}
  \/ \E x \in Line(n), y \in DOMAIN rounds' :
       Line(n)' \subseteq (Line(n) \ {x}) \cup {y} /\ Owed(n)' \subseteq Owed(n)
  \/ \E x \in Line(n), y \in Requests :
       Line(n)' \subseteq Line(n) \ {x} /\ Owed(n)' \subseteq Owed(n) \cup {y}

Adding(n) ==
  \/ \E x \in DOMAIN rounds' :
       Line(n)' \subseteq Line(n) \cup {x} /\ Owed(n)' \subseteq Owed(n)
  \/ \E y \in Requests :
       Line(n)' \subseteq Line(n) /\ Owed(n)' \subseteq Owed(n) \cup {y}

LEMMA SteadyBound ==
  ASSUME TypeOK, TypeOK', NEW n \in Nat, Bounded(n), stale \subseteq stale', Steady(n)
  PROVE  Bounded(n)'
<1>1. /\ IsFiniteSet(Line(n)) /\ IsFiniteSet(Owed(n))
      /\ Cardinality(Line(n)) \in Nat /\ Cardinality(Owed(n)) \in Nat
      /\ Cardinality(stale) \in Nat
  BY Counted DEF Countable, AllCountable
<1>2. /\ Cardinality(Line(n)') \in Nat /\ Cardinality(Owed(n)') \in Nat
      /\ IsFiniteSet(stale') /\ Cardinality(stale') \in Nat
  <2>1. AllCountable'
    BY Counted, PTL
  <2> QED BY <2>1 DEF AllCountable, Countable
<1>3. Cardinality(stale) <= Cardinality(stale')
  BY <1>2, Less
<1>4. Cardinality(Line(n)) + Cardinality(Owed(n)) <= 1 + Cardinality(stale)
  BY DEF Bounded
<1>5. Cardinality(Line(n)') + Cardinality(Owed(n)') <= Cardinality(Line(n)) + Cardinality(Owed(n))
  <2>1. CASE Line(n)' \subseteq Line(n) /\ Owed(n)' \subseteq Owed(n)
    <3>1. Cardinality(Line(n)') <= Cardinality(Line(n))
      BY <1>1, <2>1, Less
    <3>2. Cardinality(Owed(n)') <= Cardinality(Owed(n))
      BY <1>1, <2>1, Less
    <3> QED BY <1>1, <1>2, <3>1, <3>2
  <2>2. ASSUME NEW x, NEW y \in Owed(n),
               Line(n)' \subseteq Line(n) \cup {x}, Owed(n)' \subseteq Owed(n) \ {y}
        PROVE  Cardinality(Line(n)') + Cardinality(Owed(n)')
                 <= Cardinality(Line(n)) + Cardinality(Owed(n))
    <3>1. Cardinality(Line(n)') <= Cardinality(Line(n)) + 1
      BY <1>1, <2>2, More
    <3>2. Cardinality(Owed(n)') + 1 <= Cardinality(Owed(n))
      BY <1>1, <2>2, Fewer
    <3> QED BY <1>1, <1>2, <3>1, <3>2
  <2>3. ASSUME NEW x \in Line(n), NEW y,
               Line(n)' \subseteq (Line(n) \ {x}) \cup {y}, Owed(n)' \subseteq Owed(n)
        PROVE  Cardinality(Line(n)') + Cardinality(Owed(n)')
                 <= Cardinality(Line(n)) + Cardinality(Owed(n))
    <3>1. Cardinality(Line(n)') <= Cardinality(Line(n))
      BY <1>1, <2>3, Swapped
    <3>2. Cardinality(Owed(n)') <= Cardinality(Owed(n))
      BY <1>1, <2>3, Less
    <3> QED BY <1>1, <1>2, <3>1, <3>2
  <2>4. ASSUME NEW x \in Line(n), NEW y,
               Line(n)' \subseteq Line(n) \ {x}, Owed(n)' \subseteq Owed(n) \cup {y}
        PROVE  Cardinality(Line(n)') + Cardinality(Owed(n)')
                 <= Cardinality(Line(n)) + Cardinality(Owed(n))
    <3>1. Cardinality(Line(n)') + 1 <= Cardinality(Line(n))
      BY <1>1, <2>4, Fewer
    <3>2. Cardinality(Owed(n)') <= Cardinality(Owed(n)) + 1
      BY <1>1, <2>4, More
    <3> QED BY <1>1, <1>2, <3>1, <3>2
  <2> QED BY <2>1, <2>2, <2>3, <2>4 DEF Steady
<1>6. Cardinality(Line(n)') + Cardinality(Owed(n)') <= 1 + Cardinality(stale')
  BY <1>1, <1>2, <1>3, <1>4, <1>5
<1> QED BY <1>6 DEF Bounded

LEMMA AddingBound ==
  ASSUME TypeOK, TypeOK', NEW n \in Nat, Bounded(n), Adding(n),
         NEW r \in Requests, r \notin stale, stale' = stale \cup {r}
  PROVE  Bounded(n)'
<1>1. /\ IsFiniteSet(Line(n)) /\ IsFiniteSet(Owed(n)) /\ IsFiniteSet(stale)
      /\ Cardinality(Line(n)) \in Nat /\ Cardinality(Owed(n)) \in Nat
      /\ Cardinality(stale) \in Nat
  BY Counted DEF Countable, AllCountable
<1>2. /\ Cardinality(Line(n)') \in Nat /\ Cardinality(Owed(n)') \in Nat
  <2>1. AllCountable'
    BY Counted, PTL
  <2> QED BY <2>1 DEF AllCountable, Countable
<1>3. Cardinality(stale') = Cardinality(stale) + 1
  <2>1. Cardinality(stale \cup {r}) = IF r \in stale THEN Cardinality(stale)
                                      ELSE Cardinality(stale) + 1
    BY <1>1, FS_AddElement
  <2> QED BY <2>1
<1>4. Cardinality(Line(n)) + Cardinality(Owed(n)) <= 1 + Cardinality(stale)
  BY DEF Bounded
<1>5. Cardinality(Line(n)') + Cardinality(Owed(n)')
        <= Cardinality(Line(n)) + Cardinality(Owed(n)) + 1
  <2>1. ASSUME NEW x, Line(n)' \subseteq Line(n) \cup {x}, Owed(n)' \subseteq Owed(n)
        PROVE  Cardinality(Line(n)') + Cardinality(Owed(n)')
                 <= Cardinality(Line(n)) + Cardinality(Owed(n)) + 1
    <3>1. Cardinality(Line(n)') <= Cardinality(Line(n)) + 1
      BY <1>1, <2>1, More
    <3>2. Cardinality(Owed(n)') <= Cardinality(Owed(n))
      BY <1>1, <2>1, Less
    <3> QED BY <1>1, <1>2, <3>1, <3>2
  <2>2. ASSUME NEW y, Line(n)' \subseteq Line(n), Owed(n)' \subseteq Owed(n) \cup {y}
        PROVE  Cardinality(Line(n)') + Cardinality(Owed(n)')
                 <= Cardinality(Line(n)) + Cardinality(Owed(n)) + 1
    <3>1. Cardinality(Line(n)') <= Cardinality(Line(n))
      BY <1>1, <2>2, Less
    <3>2. Cardinality(Owed(n)') <= Cardinality(Owed(n)) + 1
      BY <1>1, <2>2, More
    <3> QED BY <1>1, <1>2, <3>1, <3>2
  <2> QED BY <2>1, <2>2 DEF Adding
<1>6. Cardinality(Line(n)') + Cardinality(Owed(n)') <= 1 + Cardinality(stale')
  BY <1>1, <1>2, <1>3, <1>4, <1>5
<1> QED BY <1>6 DEF Bounded

\* The completions that owe a round, after a step of r.
LEMMA OwedStep ==
  ASSUME TInv, Grows, NEW n \in Nat, NEW r,
         \A q \in Requests \ {r} : pc'[q] = pc[q] /\ round'[q] = round[q]
  PROVE  /\ Owed(n)' \subseteq Owed(n) \cup {r}
         /\ ~(r \in Requests /\ pc'[r] = "insertNext") => Owed(n)' \subseteq Owed(n) \ {r}
<1>1. \A q \in Requests : pc[q] = "insertNext" =>
        round[q] \in DOMAIN rounds /\ rounds'[round[q]].number = rounds[round[q]].number
  BY DomainFacts DEF TInv, TypeOK, Control, Grows
<1> QED BY <1>1 DEF Owed

\* The line at n, after a save.
LEMMA LineWrote ==
  ASSUME TypeOK, NEW n \in Nat, NEW k \in DOMAIN rounds, NEW s, Wrote(k, s)
  PROVE  /\ k \in DOMAIN rounds' /\ Line(n)' \subseteq Line(n) \cup {k}
         /\ k \in Line(n) \/ rounds[k].number >= n \/ s \notin Open => Line(n)' \subseteq Line(n)
         /\ rounds[k].number < n /\ s \notin Open => Line(n)' \subseteq Line(n) \ {k}
<1>1. \A j \in DOMAIN rounds : rounds[j].number \in Nat
  BY Numbers
<1> QED BY <1>1 DEF Wrote, Line

\* The line at n, after an insertion.
LEMMA LineAdded ==
  ASSUME TypeOK, NEW n \in Nat, NEW i, NEW k \in DOMAIN rounds, NEW new, Added(i, k, new)
  PROVE  /\ new \in DOMAIN rounds' /\ Line(n)' \subseteq Line(n) \cup {new}
         /\ rounds[k].number >= n => Line(n)' \subseteq Line(n)
         /\ i = k /\ rounds[k].number < n => Line(n)' \subseteq (Line(n) \ {k}) \cup {new}
<1>1. \A j \in DOMAIN rounds : rounds[j].number \in Nat
  BY Numbers
<1>2. rounds'[new].number = rounds[k].number + 1
  BY DEF Added
<1>3. ASSUME NEW j \in Line(n)', j # new
      PROVE  j \in Line(n) /\ (i = k /\ rounds[k].number < n => j # k)
  BY <1>1, <1>3 DEF Added, Line, Open
<1>4. new \in DOMAIN rounds'
  BY DEF Added
<1>5. rounds[k].number >= n => new \notin Line(n)'
  BY <1>1, <1>2 DEF Line
<1> QED BY <1>3, <1>4, <1>5

\* A step of r leaves the memory of the other requests alone.
Others(r) == \A q \in Requests \ {r} :
               /\ pc'[q] = pc[q] /\ kind'[q] = kind[q] /\ round'[q] = round[q]
               /\ loaded'[q] = loaded[q] /\ (q \in stale' => q \in stale)

LEMMA OthersStay ==
  ASSUME TInv, NEW r \in Requests, Begin(r) \/ Step(r) \/ Fail(r)
  PROVE  Others(r) /\ stale' \in {stale, stale \cup {r}}
<1>1. TypeOK
  BY DEF TInv
<1>2. stale' \in {stale, stale \cup {r}}
  BY DEF Step, Begin, Read, CountFines, SaveStart, SaveComplete, InsertNext, SaveTicket,
         SaveClosedRound, ReadTicket, MatchRound, ReadEvent, ReadSyncedRound, CommitArrival,
         Fail, Overwrites, tables
<1>3. ASSUME NEW q \in Requests, q # r
      PROVE  /\ pc'[q] = pc[q] /\ kind'[q] = kind[q] /\ round'[q] = round[q]
             /\ loaded'[q] = loaded[q]
  <2>1. CASE Begin(r)
    BY <1>1, <1>3, <2>1 DEF Begin, TypeOK
  <2>2. CASE Read(r) \/ CountFines(r) \/ SaveStart(r) \/ SaveComplete(r) \/ InsertNext(r)
    BY <1>1, <1>3, <2>2 DEF Read, CountFines, SaveStart, SaveComplete, InsertNext, Finish,
                            TypeOK, memory
  <2>3. CASE SaveTicket(r) \/ SaveClosedRound(r) \/ ReadTicket(r) \/ CommitArrival(r) \/ Fail(r)
    BY <1>1, <1>3, <2>3 DEF SaveTicket, SaveClosedRound, ReadTicket, CommitArrival, Fail, Finish,
                            TypeOK, memory
  <2>4. CASE MatchRound(r) \/ ReadEvent(r) \/ ReadSyncedRound(r)
    BY <1>1, <1>3, <2>4 DEF MatchRound, ReadEvent, ReadSyncedRound, Finish, TypeOK, memory
  <2> QED BY <2>1, <2>2, <2>3, <2>4 DEF Step
<1> QED BY <1>2, <1>3 DEF Others

\* What a request has read stays what it was.
LEMMA ReadNext ==
  TInv /\ (\A r \in Requests : Read1(r)) /\ [Next]_vars => \A r \in Requests : Read1(r)'
<1> SUFFICES ASSUME TInv, \A r \in Requests : Read1(r), [Next]_vars
             PROVE  \A r \in Requests : Read1(r)'
  OBVIOUS
<1>0. TypeOK
  BY DEF TInv
<1>1. CASE UNCHANGED <<stale, pc, memory>>
  BY <1>1 DEF Read1, memory
<1>2. ASSUME NEW r \in Requests, Begin(r) \/ Step(r) \/ Fail(r)
      PROVE  \A q \in Requests : Read1(q)'
  <2>1. ASSUME NEW q \in Requests, q # r PROVE Read1(q)'
    <3>1. /\ pc'[q] = pc[q] /\ kind'[q] = kind[q] /\ round'[q] = round[q]
          /\ loaded'[q] = loaded[q] /\ (q \in stale' => q \in stale)
      BY <1>2, <2>1, OthersStay DEF Others
    <3> QED BY <3>1 DEF Read1
  <2>2. Read1(r)'
    <3>0. Read1(r)
      OBVIOUS
    <3>1. CASE /\ \E o \in {"ok", "error", "halfDone"} : Finish(r, o)
      BY <1>0, <3>1 DEF Finish, TypeOK, Read1
    <3>2. CASE /\ UNCHANGED stale /\ pc[r] \in {"read", "count", "ticket", "event", "round"}
               /\ pc'[r] \notin {"count", "save"}
      BY <3>0, <3>2 DEF Read1
    <3>3. CASE Begin(r)
      BY <1>0, <3>0, <3>3 DEF Begin, Read1, TypeOK, tables
    <3>4. CASE Read(r) /\ ~Finish(r, "rejected")
      <4>1. /\ pc[r] = "read" /\ stale' = stale /\ Admits(r)
            /\ loaded'[r] = Snapshot /\ kind'[r] = kind[r] /\ round'[r] = round[r]
            /\ pc'[r] = IF kind[r] = "START" THEN "count" ELSE "save"
        BY <1>0, <3>4 DEF Read, TypeOK, tables
      <4>2. kind[r] # "CLOSE" => round[r] \in DOMAIN rounds
        BY <1>0, <4>1 DEF TInv, TypeOK, Control
      <4>3. kind[r] # "CLOSE" => Snapshot[round[r]] = rounds[round[r]].status
        BY <4>2 DEF Snapshot
      <4> QED BY <3>0, <4>1, <4>3 DEF Read1, Admits
    <3>5. CASE CountFines(r) /\ ~Finish(r, "rejected")
      <4>1. /\ pc[r] = "count" /\ pc'[r] = "save" /\ stale' = stale
            /\ loaded'[r] = loaded[r] /\ kind'[r] = kind[r] /\ round'[r] = round[r]
        BY <1>0, <3>5 DEF CountFines, TypeOK, memory, tables
      <4> QED BY <3>0, <4>1 DEF Read1
    <3>6. CASE (Read(r) \/ CountFines(r)) /\ Finish(r, "rejected")
      BY <1>0, <3>2, <3>6 DEF Read, CountFines, Finish, TypeOK, tables
    <3>7. CASE SaveStart(r) \/ InsertNext(r) \/ SaveClosedRound(r) \/ CommitArrival(r) \/ Fail(r)
      BY <3>1, <3>7 DEF SaveStart, InsertNext, SaveClosedRound, CommitArrival, Fail
    <3>8. CASE SaveComplete(r)
      BY <1>0, <3>0, <3>8 DEF SaveComplete, Read1, TypeOK, memory
    <3>9. CASE SaveTicket(r)
      <4>1. CASE pc'[r] = "saveRound" /\ UNCHANGED stale /\ pc[r] = "save"
        BY <3>0, <4>1 DEF Read1
      <4> QED BY <1>0, <3>1, <3>9, <4>1 DEF SaveTicket, TypeOK, tables
    <3>10. CASE ReadTicket(r) \/ MatchRound(r) \/ ReadEvent(r) \/ ReadSyncedRound(r)
      BY <1>0, <3>2, <3>10 DEF ReadTicket, MatchRound, ReadEvent, ReadSyncedRound, Finish,
                              TypeOK, tables
    <3> QED BY <1>2, <3>3, <3>4, <3>5, <3>6, <3>7, <3>8, <3>9, <3>10 DEF Step
  <2> QED BY <2>1, <2>2
<1>3. CASE (\E k \in audits : AuditRound(k)) \/ FinesChange \/ UNCHANGED vars
  BY <1>1, <1>3 DEF AuditRound, FinesChange, vars, tables
<1> QED BY <1>2, <1>3 DEF Next

\* A round is numbered by its place at most.
LEMMA LowNumbers ==
  TInv /\ (\A k \in DOMAIN rounds : rounds[k].number <= k) /\ Grows
    => \A k \in DOMAIN rounds' : rounds'[k].number <= k
<1> SUFFICES ASSUME TInv, \A k \in DOMAIN rounds : rounds[k].number <= k, Grows,
                    NEW k \in DOMAIN rounds'
             PROVE  rounds'[k].number <= k
  OBVIOUS
<1>1. /\ Len(rounds) \in Nat /\ DOMAIN rounds = 1..Len(rounds)
      /\ DOMAIN rounds' = 1..Len(rounds')
      /\ \A j \in DOMAIN rounds : rounds[j].number \in Nat
  BY DomainFacts, DomainGrows, Numbers DEF TInv
<1>2. CASE k \in 1..Len(rounds)
  BY <1>1, <1>2 DEF Grows
<1>3. CASE k \notin 1..Len(rounds)
  <2>1. k = Len(rounds) + 1 /\ Len(rounds') = Len(rounds) + 1
    <3>1. Len(rounds') \in {Len(rounds), Len(rounds) + 1}
      BY DEF Grows
    <3>2. k \in 1..Len(rounds')
      BY <1>1
    <3>3. CASE Len(rounds') = Len(rounds)
      BY <1>3, <3>2, <3>3
    <3>4. CASE Len(rounds') = Len(rounds) + 1
      BY <1>1, <1>3, <3>2, <3>4
    <3> QED BY <3>1, <3>3, <3>4
  <2>2. PICK j \in 1..Len(rounds) : rounds'[k].number = rounds[j].number + 1
    BY <2>1 DEF Grows
  <2> QED BY <1>1, <2>1, <2>2
<1> QED BY <1>2, <1>3

\* A step that leaves the numbers and statuses alone leaves the line alone.
LEMMA LineSame ==
  ASSUME TypeOK, NEW n \in Nat, DOMAIN rounds' = DOMAIN rounds,
         \A j \in DOMAIN rounds : /\ rounds'[j].number = rounds[j].number
                                  /\ rounds'[j].status = rounds[j].status
  PROVE  Line(n)' \subseteq Line(n)
BY DEF Line

\* Every step is steady, or adds one to the count for its stale save.
LEMMA StepCounts ==
  ASSUME SInv, Grows, NEW n \in Nat, NEW r \in Requests, Begin(r) \/ Step(r) \/ Fail(r)
  PROVE  \/ Steady(n) /\ stale \subseteq stale'
         \/ Adding(n) /\ r \notin stale /\ stale' = stale \cup {r}
<1> DEFINE k == round[r]
           Goal == \/ Steady(n) /\ stale \subseteq stale'
                   \/ Adding(n) /\ r \notin stale /\ stale' = stale \cup {r}
<1>0. /\ TInv /\ TypeOK /\ Read1(r) /\ Others(r) /\ stale' \in {stale, stale \cup {r}}
  BY OthersStay DEF SInv, TInv
<1>1. /\ Owed(n)' \subseteq Owed(n) \cup {r}
      /\ pc'[r] # "insertNext" => Owed(n)' \subseteq Owed(n) \ {r}
  <2>1. \A q \in Requests \ {r} : pc'[q] = pc[q] /\ round'[q] = round[q]
    BY <1>0 DEF Others
  <2> QED BY <1>0, <2>1, OwedStep
<1>2. ASSUME Line(n)' \subseteq Line(n), pc'[r] # "insertNext" PROVE Steady(n)
  BY <1>1, <1>2 DEF Steady
<1>3. ASSUME UNCHANGED rounds, pc'[r] # "insertNext" PROVE Goal
  <2>1. Line(n)' \subseteq Line(n)
    BY <1>0, <1>3, LineSame
  <2> QED BY <1>0, <1>2, <1>3, <2>1
<1>4. CASE SaveStart(r)
  <2>1. /\ kind[r] = "START" /\ pc[r] = "save" /\ pc'[r] = "ok" /\ k \in DOMAIN rounds
        /\ rounds' = [rounds EXCEPT ![k].status = "IN_PROGRESS"]
    BY <1>0, <1>4 DEF SaveStart, Finish, TInv, TypeOK, Control
  <2>2. Wrote(k, "IN_PROGRESS")
    BY <1>0, <2>1, WroteStatus DEF RoundsStatus
  <2>3. /\ k \in DOMAIN rounds' /\ Line(n)' \subseteq Line(n) \cup {k}
        /\ k \in Line(n) \/ rounds[k].number >= n => Line(n)' \subseteq Line(n)
    BY <1>0, <2>1, <2>2, LineWrote
  <2>4. loaded[r][k] = "PENDING" /\ r \notin stale
    BY <1>0, <2>1 DEF Read1
  <2>5. CASE rounds[k].status # loaded[r][k]
    <3>1. stale' = stale \cup {r}
      BY <1>4, <2>5 DEF SaveStart, Overwrites
    <3> QED BY <1>1, <2>1, <2>3, <2>4, <3>1 DEF Adding
  <2>6. CASE rounds[k].status = loaded[r][k]
    <3>1. k \in Line(n) \/ rounds[k].number >= n
      BY <1>0, <2>1, <2>4, <2>6, Numbers DEF Line, Open
    <3> QED BY <1>0, <1>2, <2>1, <2>3, <3>1
  <2> QED BY <2>5, <2>6
<1>5. CASE SaveComplete(r)
  <2>1. /\ kind[r] = "COMPLETE" /\ pc[r] = "save" /\ k \in DOMAIN rounds
        /\ rounds' = [rounds EXCEPT ![k].status = "COMPLETED"]
        /\ round' = round
    BY <1>0, <1>5 DEF SaveComplete, TInv, TypeOK, Control, memory
  <2>2. Wrote(k, "COMPLETED")
    BY <1>0, <2>1, WroteStatus DEF RoundsStatus
  <2>3. /\ Line(n)' \subseteq Line(n)
        /\ rounds[k].number < n => Line(n)' \subseteq Line(n) \ {k}
    BY <1>0, <2>1, <2>2, LineWrote DEF Open
  <2>4. loaded[r][k] = "IN_PROGRESS" /\ r \notin stale
    BY <1>0, <2>1 DEF Read1
  <2>5. CASE rounds[k].status # loaded[r][k]
    <3>1. stale' = stale \cup {r}
      BY <1>5, <2>5 DEF SaveComplete, Overwrites
    <3> QED BY <1>1, <2>3, <2>4, <3>1 DEF Adding
  <2>6. CASE rounds[k].status = loaded[r][k] /\ rounds[k].number < n
    <3>1. k \in Line(n)
      BY <2>1, <2>4, <2>6 DEF Line, Open
    <3> QED BY <1>0, <1>1, <2>3, <2>6, <3>1 DEF Steady
  <2>7. CASE ~(rounds[k].number < n)
    <3>1. r \notin Owed(n)'
      BY <2>1, <2>2, <2>7 DEF Owed, Wrote
    <3>2. Owed(n)' \subseteq Owed(n)
      BY <1>1, <3>1
    <3> QED BY <1>0, <2>3, <3>2 DEF Steady
  <2> QED BY <2>5, <2>6, <2>7
<1>6. CASE InsertNext(r)
  <2>1. /\ pc[r] = "insertNext" /\ pc'[r] = "ok" /\ k \in DOMAIN rounds
        /\ rounds' = Append(rounds, NextRound(k))
    BY <1>0, <1>6 DEF InsertNext, Finish, TInv, TypeOK, Control
  <2> DEFINE new == Len(rounds) + 1
  <2>2. Added(0, k, new)
    BY <1>0, <2>1, AddedNext
  <2> HIDE DEF new
  <2>3. /\ new \in DOMAIN rounds' /\ Line(n)' \subseteq Line(n) \cup {new}
        /\ rounds[k].number >= n => Line(n)' \subseteq Line(n)
    BY <1>0, <2>1, <2>2, LineAdded
  <2>4. CASE rounds[k].number < n
    <3>1. r \in Owed(n)
      BY <2>1, <2>4 DEF Owed
    <3> QED BY <1>0, <1>1, <2>1, <2>3, <3>1 DEF Steady
  <2>5. CASE rounds[k].number >= n
    BY <1>0, <1>2, <2>1, <2>3, <2>5
  <2> QED BY <1>0, <2>1, <2>4, <2>5, Numbers
<1>7. CASE SaveClosedRound(r)
  <2>1. PICK j \in DOMAIN loaded[r] : rounds' = [rounds EXCEPT ![j].status = "COMPLETED"]
    BY <1>7 DEF SaveClosedRound
  <2>2. j \in DOMAIN rounds
    <3>1. loaded[r] \in Seq(RoundsStatus) /\ Len(loaded[r]) <= Len(rounds)
      BY <1>0, <1>7 DEF TypeOK, TInv, Control, SaveClosedRound
    <3> QED BY <1>0, <3>1, DomainFacts, LenProperties
  <2>3. Wrote(j, "COMPLETED")
    BY <1>0, <2>1, <2>2, WroteStatus DEF RoundsStatus
  <2>4. Line(n)' \subseteq Line(n)
    BY <1>0, <2>2, <2>3, LineWrote DEF Open
  <2>5. pc'[r] = "ok"
    BY <1>0, <1>7 DEF SaveClosedRound, Finish, TypeOK
  <2> QED BY <1>0, <1>2, <2>4, <2>5
<1>8. CASE CommitArrival(r)
  <2>1. pc'[r] = "ok" /\ pc[r] \in Arriving /\ k \in DOMAIN rounds
    BY <1>0, <1>8 DEF CommitArrival, Finish, TInv, TypeOK, Control
  <2>2. CASE ~Completes(r)
    <3>1. /\ DOMAIN rounds' = DOMAIN rounds
          /\ \A j \in DOMAIN rounds : /\ rounds'[j].number = rounds[j].number
                                      /\ rounds'[j].status = rounds[j].status
      BY <1>0, <1>8, <2>2, ArrivalWritten, DomainFacts, LenProperties DEF SameChain
    <3>2. Line(n)' \subseteq Line(n)
      BY <1>0, <3>1, LineSame
    <3> QED BY <1>0, <1>2, <2>1, <3>2
  <2>3. CASE Completes(r)
    <3> DEFINE new == Len(rounds) + 1
    <3>1. Added(k, k, new)
      BY <1>0, <1>8, <2>3, AddedArrival
    <3> HIDE DEF new
    <3>2. /\ new \in DOMAIN rounds' /\ Line(n)' \subseteq Line(n) \cup {new}
          /\ rounds[k].number >= n => Line(n)' \subseteq Line(n)
          /\ rounds[k].number < n => Line(n)' \subseteq (Line(n) \ {k}) \cup {new}
      BY <1>0, <2>1, <3>1, LineAdded
    <3>3. loaded[r][k] = "IN_PROGRESS" /\ r \notin stale
      BY <1>0, <2>1, <2>3 DEF Read1, Completes, Arriving
    <3>4. CASE rounds[k].status # loaded[r][k]
      <4>1. stale' = stale \cup {r}
        BY <1>8, <2>3, <3>4 DEF CommitArrival, Overwrites
      <4> QED BY <1>1, <2>1, <3>2, <3>3, <4>1 DEF Adding
    <3>5. CASE rounds[k].status = loaded[r][k] /\ rounds[k].number < n
      <4>1. k \in Line(n)
        BY <2>1, <3>3, <3>5 DEF Line, Open
      <4>2. Owed(n)' \subseteq Owed(n)
        BY <1>1, <2>1
      <4> QED BY <1>0, <3>2, <3>5, <4>1, <4>2 DEF Steady
    <3>6. CASE rounds[k].number >= n
      BY <1>0, <1>2, <2>1, <3>2, <3>6
    <3> QED BY <1>0, <2>1, <3>4, <3>5, <3>6, Numbers
  <2> QED BY <2>2, <2>3
<1>9. CASE \/ Begin(r) \/ Read(r) \/ CountFines(r) \/ SaveTicket(r) \/ ReadTicket(r)
           \/ MatchRound(r) \/ ReadEvent(r) \/ ReadSyncedRound(r) \/ Fail(r)
  <2>1. UNCHANGED rounds
    BY <1>9 DEF Begin, Read, CountFines, SaveTicket, ReadTicket, MatchRound, ReadEvent,
                ReadSyncedRound, Fail, tables
  <2>2. pc'[r] # "insertNext"
    BY <1>0, <1>9 DEF Begin, Read, CountFines, SaveTicket, ReadTicket, MatchRound, ReadEvent,
                      ReadSyncedRound, Fail, Finish, TypeOK
  <2> QED BY <1>3, <2>1, <2>2
<1> QED BY <1>4, <1>5, <1>6, <1>7, <1>8, <1>9 DEF Step

\* The invariant when the ticket has been issued.
LEMMA SavesInit == Init => SInv
<1> SUFFICES ASSUME Init PROVE SInv
  OBVIOUS
<1>1. TInv /\ TypeOK
  BY TypeInit DEF TInv
<1>2. /\ Len(rounds) = 1 /\ DOMAIN rounds = {1} /\ rounds[1].number = 1
      /\ stale = {} /\ \A r \in Requests : pc[r] = "idle" /\ kind[r] = "NONE"
  BY DEF Init
<1>3. \A r \in Requests : Read1(r)
  BY <1>2 DEF Read1
<1>4. ASSUME NEW n \in Nat PROVE Bounded(n)
  <2>1. Owed(n) = {} /\ Line(n) \subseteq {} \cup {1}
    BY <1>2 DEF Owed, Line
  <2>2. Cardinality({}) = 0 /\ IsFiniteSet({})
    BY FS_EmptySet
  <2>3. Cardinality(Line(n)) <= 0 + 1
    BY <2>1, <2>2, More
  <2>4. Cardinality(Line(n)) \in Nat
    BY <1>1, Counted DEF AllCountable, Countable
  <2> QED BY <1>2, <2>1, <2>2, <2>3, <2>4 DEF Bounded
<1> QED BY <1>1, <1>2, <1>3, <1>4 DEF SInv

\* The invariant is inductive.
LEMMA SavesNext == SInv /\ [Next]_vars => SInv'
<1> SUFFICES ASSUME SInv, [Next]_vars PROVE SInv'
  OBVIOUS
<1>1. TInv /\ TInv' /\ TypeOK /\ TypeOK' /\ Grows
  BY TypeNext, GrowsNext DEF SInv, TInv
<1>2. \A r \in Requests : Read1(r)'
  BY ReadNext DEF SInv
<1>3. \A k \in DOMAIN rounds' : rounds'[k].number <= k
  BY <1>1, LowNumbers DEF SInv
<1>4. ASSUME NEW n \in Nat PROVE Bounded(n)'
  <2>0. Bounded(n)
    BY DEF SInv
  <2>1. ASSUME NEW r \in Requests, Begin(r) \/ Step(r) \/ Fail(r) PROVE Bounded(n)'
    <3>1. CASE Steady(n) /\ stale \subseteq stale'
      BY <1>1, <2>0, <3>1, SteadyBound
    <3>2. CASE Adding(n) /\ r \notin stale /\ stale' = stale \cup {r}
      BY <1>1, <2>0, <3>2, AddingBound
    <3> QED BY <1>1, <2>1, <3>1, <3>2, StepCounts
  <2>2. ASSUME UNCHANGED <<pc, memory, stale>>, Line(n)' \subseteq Line(n) PROVE Bounded(n)'
    <3>1. Owed(n)' \subseteq Owed(n)
      <4>1. \A q \in Requests : pc[q] = "insertNext" =>
              round[q] \in DOMAIN rounds /\ rounds'[round[q]].number = rounds[round[q]].number
        BY <1>1, DomainFacts DEF TInv, TypeOK, Control, Grows
      <4> QED BY <2>2, <4>1 DEF Owed, memory
    <3>2. Steady(n)
      BY <2>2, <3>1 DEF Steady
    <3> QED BY <1>1, <2>0, <2>2, <3>2, SteadyBound
  <2>3. ASSUME NEW k \in audits, AuditRound(k) PROVE Bounded(n)'
    <3>1. k \in DOMAIN rounds /\ UNCHANGED <<pc, memory, stale>>
      BY <1>1, <2>3 DEF AuditRound, TypeOK
    <3>2. CASE UNCHANGED rounds
      BY <1>1, <2>2, <3>1, <3>2, LineSame
    <3>3. CASE ~UNCHANGED rounds
      <4>1. Wrote(k, "COMPLETED")
        <5>1. PICK marks \in {rounds[k].endMarks, {"TRACCAR_AUDIT"}} :
                rounds' = [rounds EXCEPT ![k].status = "COMPLETED", ![k].endMarks = marks]
          BY <2>3, <3>3 DEF AuditRound
        <5>2. \A j \in DOMAIN rounds : rounds[j] \in Round
          BY <1>1, DomainFacts
        <5> QED BY <1>1, <3>1, <5>1, <5>2 DEF Wrote, Round
      <4>2. Line(n)' \subseteq Line(n)
        BY <1>1, <3>1, <4>1, LineWrote DEF Open
      <4> QED BY <2>2, <3>1, <4>2
    <3> QED BY <3>2, <3>3
  <2>4. CASE FinesChange \/ UNCHANGED vars
    <3>1. UNCHANGED <<rounds, pc, memory, stale>>
      BY <2>4 DEF FinesChange, vars, tables
    <3> QED BY <1>1, <2>2, <3>1, LineSame
  <2> QED BY <2>1, <2>3, <2>4 DEF Next
<1> QED BY <1>1, <1>2, <1>3, <1>4 DEF SInv

\* At most one round of a ticket is open for each request that saved over what
\* it had not read, and one more, however requests overlap, fail and are audited.
THEOREM OpenBounded == Spec => []OpenRoundsBounded
<1>1. SInv => OpenRoundsBounded
  <2> SUFFICES ASSUME SInv PROVE OpenRoundsBounded
    OBVIOUS
  <2> DEFINE n == Len(rounds) + 1
  <2>1. TypeOK /\ n \in Nat /\ DOMAIN rounds = 1..Len(rounds) /\ Len(rounds) \in Nat
    BY DomainFacts DEF SInv, TInv
  <2>2. OpenRounds \subseteq Line(n)
    BY <2>1, Numbers DEF SInv, OpenRounds, Line
  <2> HIDE DEF n
  <2>3. /\ IsFiniteSet(Line(n)) /\ Cardinality(Line(n)) \in Nat
        /\ Cardinality(Owed(n)) \in Nat /\ Cardinality(stale) \in Nat
    BY <2>1, Counted DEF AllCountable, Countable
  <2>4. Cardinality(OpenRounds) <= Cardinality(Line(n)) /\ Cardinality(OpenRounds) \in Nat
    BY <2>2, <2>3, Less
  <2>5. Cardinality(Line(n)) + Cardinality(Owed(n)) <= 1 + Cardinality(stale)
    BY <2>1 DEF SInv, Bounded
  <2> QED BY <2>3, <2>4, <2>5 DEF OpenRoundsBounded
<1> QED BY <1>1, SavesInit, SavesNext, PTL DEF Spec

\* So many rounds at most have the same number.
THEOREM NumbersBounded == Spec => []NumbersShared
<1>1. SInv => NumbersShared
  <2> SUFFICES ASSUME SInv, NEW m \in DOMAIN rounds
               PROVE  Cardinality({k \in DOMAIN rounds : rounds[k].number = rounds[m].number})
                        <= 1 + Cardinality(stale)
    BY DEF NumbersShared
  <2> DEFINE n == rounds[m].number
             same == {k \in DOMAIN rounds : rounds[k].number = n}
  <2>1. TypeOK /\ n \in Nat
    BY Numbers DEF SInv, TInv
  <2>2. same \subseteq Line(n)
    BY DEF Line
  <2> HIDE DEF n, same
  <2>3. /\ IsFiniteSet(Line(n)) /\ Cardinality(Line(n)) \in Nat
        /\ Cardinality(Owed(n)) \in Nat /\ Cardinality(stale) \in Nat
    BY <2>1, Counted DEF AllCountable, Countable
  <2>4. Cardinality(same) <= Cardinality(Line(n)) /\ Cardinality(same) \in Nat
    BY <2>2, <2>3, Less
  <2>5. Cardinality(Line(n)) + Cardinality(Owed(n)) <= 1 + Cardinality(stale)
    BY <2>1 DEF SInv, Bounded
  <2>6. Cardinality(same) <= 1 + Cardinality(stale)
    BY <2>3, <2>4, <2>5
  <2> QED BY <2>6 DEF same, n
<1> QED BY <1>1, SavesInit, SavesNext, PTL DEF Spec

\* What a step may do to a completed round.
Reopened(k, r) == /\ kind[r] = "START" /\ round[r] = k
                  /\ loaded[r][k] # "COMPLETED" /\ r \in stale'

\* Only a start that read the round before it was completed opens it again, in
\* any number of overlapping requests.
THEOREM OnlyStaleReopens == Spec => ReopenedOnlyStale
<1> DEFINE A == \A k \in DOMAIN rounds :
                  rounds[k].status = "COMPLETED" /\ rounds'[k].status # "COMPLETED" =>
                    \E r \in Requests : Reopened(k, r)
<1>1. SInv /\ [Next]_vars => A
  <2> SUFFICES ASSUME SInv, [Next]_vars, NEW k \in DOMAIN rounds,
                      rounds[k].status = "COMPLETED", rounds'[k].status # "COMPLETED"
               PROVE  \E r \in Requests : Reopened(k, r)
    OBVIOUS
  <2>0. TInv /\ TypeOK
    BY DEF SInv, TInv
  <2>1. CASE UNCHANGED rounds
    BY <2>1
  <2>2. ASSUME NEW r \in Requests, SaveStart(r) PROVE Reopened(k, r)
    <3>1. /\ kind[r] = "START" /\ pc[r] = "save" /\ round[r] \in DOMAIN rounds
          /\ rounds' = [rounds EXCEPT ![round[r]].status = "IN_PROGRESS"]
      BY <2>0, <2>2 DEF SaveStart, TInv, TypeOK, Control
    <3>2. Wrote(round[r], "IN_PROGRESS")
      BY <2>0, <3>1, WroteStatus DEF RoundsStatus
    <3>3. round[r] = k
      BY <3>2 DEF Wrote
    <3>4. loaded[r][k] = "PENDING"
      BY <3>1, <3>3 DEF SInv, Read1
    <3> QED BY <2>2, <3>1, <3>3, <3>4 DEF SaveStart, Overwrites, Reopened
  <2>3. ASSUME NEW r \in Requests, SaveComplete(r) PROVE FALSE
    <3>1. /\ round[r] \in DOMAIN rounds
          /\ rounds' = [rounds EXCEPT ![round[r]].status = "COMPLETED"]
      BY <2>0, <2>3 DEF SaveComplete, TInv, TypeOK, Control
    <3> QED BY <2>0, <3>1, WroteStatus DEF Wrote, RoundsStatus
  <2>4. ASSUME NEW r \in Requests, InsertNext(r) PROVE FALSE
    <3>1. round[r] \in DOMAIN rounds /\ rounds' = Append(rounds, NextRound(round[r]))
      BY <2>0, <2>4 DEF InsertNext, TInv, TypeOK, Control
    <3>2. Added(0, round[r], Len(rounds) + 1)
      BY <2>0, <3>1, AddedNext
    <3> QED BY <2>0, <3>2, DomainFacts DEF Added
  <2>5. ASSUME NEW r \in Requests, SaveClosedRound(r) PROVE FALSE
    <3>1. PICK j \in DOMAIN loaded[r] : rounds' = [rounds EXCEPT ![j].status = "COMPLETED"]
      BY <2>5 DEF SaveClosedRound
    <3>2. loaded[r] \in Seq(RoundsStatus) /\ Len(loaded[r]) <= Len(rounds)
      BY <2>0, <2>5 DEF TypeOK, TInv, Control, SaveClosedRound
    <3>3. j \in DOMAIN rounds
      BY <2>0, <3>2, DomainFacts, LenProperties
    <3> QED BY <2>0, <3>1, <3>3, WroteStatus DEF Wrote, RoundsStatus
  <2>6. ASSUME NEW r \in Requests, CommitArrival(r) PROVE FALSE
    <3>1. CASE ~Completes(r)
      BY <2>0, <2>6, <3>1, ArrivalWritten, DomainFacts
    <3>2. CASE Completes(r)
      <4>1. Added(round[r], round[r], Len(rounds) + 1)
        BY <2>0, <2>6, <3>2, AddedArrival
      <4> QED BY <4>1 DEF Added
    <3> QED BY <3>1, <3>2
  <2>7. ASSUME NEW j \in audits, AuditRound(j) PROVE FALSE
    <3>1. \A i \in DOMAIN rounds : rounds[i] \in Round
      BY <2>0, DomainFacts
    <3>2. j \in DOMAIN rounds
      BY <2>0, <2>7 DEF TypeOK
    <3>3. CASE UNCHANGED rounds
      BY <3>3
    <3>4. CASE ~UNCHANGED rounds
      <4>1. PICK marks \in {rounds[j].endMarks, {"TRACCAR_AUDIT"}} :
              rounds' = [rounds EXCEPT ![j].status = "COMPLETED", ![j].endMarks = marks]
        BY <2>7, <3>4 DEF AuditRound
      <4>2. rounds'[k].status = IF k = j THEN "COMPLETED" ELSE rounds[k].status
        BY <2>0, <3>1, <3>2, <4>1 DEF Round
      <4> QED BY <4>2
    <3> QED BY <3>3, <3>4
  <2>8. ASSUME NEW r \in Requests,
               \/ Begin(r) \/ Read(r) \/ CountFines(r) \/ SaveTicket(r) \/ ReadTicket(r)
               \/ MatchRound(r) \/ ReadEvent(r) \/ ReadSyncedRound(r) \/ Fail(r)
        PROVE  UNCHANGED rounds
    BY <2>8 DEF Begin, Read, CountFines, SaveTicket, ReadTicket, MatchRound, ReadEvent,
                ReadSyncedRound, Fail, tables
  <2>9. CASE FinesChange \/ UNCHANGED vars
    BY <2>1, <2>9 DEF FinesChange, vars, tables
  <2> QED BY <2>1, <2>2, <2>3, <2>4, <2>5, <2>6, <2>7, <2>8, <2>9 DEF Next, Step
<1>2. Spec => [][A]_vars
  BY <1>1, SavesInit, SavesNext, PTL DEF Spec
<1> QED BY <1>2 DEF ReopenedOnlyStale, Reopened
=============================================================================

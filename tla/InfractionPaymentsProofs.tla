---------------------- MODULE InfractionPaymentsProofs ----------------------
(***************************************************************************)
(* What InfractionPayments guarantees for any number of infractions,       *)
(* requests and list lengths.                                              *)
(***************************************************************************)
EXTENDS InfractionPayments, FiniteSetTheorems, SequenceTheorems, TLAPS

\* What a request has done when it is at a given step.
Control(r) ==
  /\ pc[r] # "idle" => command[r] \in Commands
  /\ pc[r] = "read" => Len(loaded[r]) < Len(command[r].ids)
  /\ pc[r] \in {"lockSequence", "initSequence", "insertSequence", "resetSequence", "commit"}
       => Pays(r)
  /\ pc[r] \in InFlight => pos[r] \in 1..Len(command[r].ids)
  /\ pc[r] \in InFlight \ {"read"} => Len(loaded[r]) = Len(command[r].ids)
  /\ pc[r] = "idle" => loaded[r] = <<>> /\ pos[r] = 1

TInv == TypeOK /\ \A r \in Requests : Control(r)

\* A list of a request is a non-empty sequence of infractions.
LEMMA CommandFacts ==
  ASSUME NEW c \in Commands
  PROVE  /\ c.kind \in AllKinds
         /\ c.ids \in Seq(Infractions)
         /\ Len(c.ids) \in Nat \ {0}
         /\ DOMAIN c.ids = 1..Len(c.ids)
         /\ \A k \in 1..Len(c.ids) : c.ids[k] \in Infractions
         /\ c.kind # "PAY_MULTIPLE" => Len(c.ids) = 1
<1>1. c.kind \in Kinds /\ c.ids \in Batches
  BY DEF Commands
<1>2. PICK n \in 1..MaxBatch : c.ids \in [1..n -> Infractions]
  BY <1>1 DEF Batches
<1>3. n \in Nat \ {0}
  BY PaymentAssumptions
<1>4. c.ids \in Seq(Infractions) /\ Len(c.ids) = n
  BY <1>2, <1>3, SeqDef
<1>5. ASSUME c.kind # "PAY_MULTIPLE" PROVE Len(c.ids) = 1
  <2>1. c.ids \in [1..1 -> Infractions]
    BY <1>5 DEF Commands, Singles
  <2> QED BY <2>1, SeqDef
<1> QED BY <1>1, <1>2, <1>3, <1>4, <1>5, PaymentAssumptions

\* The typing invariant holds when the server starts.
LEMMA TypeInit == Init => TInv
<1> SUFFICES ASSUME Init PROVE TInv
  OBVIOUS
<1>1. TypeOK
  BY EmptySeq, PaymentAssumptions DEF Init, TypeOK, Row, Statuses, Columns
<1>2. ASSUME NEW r \in Requests PROVE Control(r)
  BY DEF Init, Control, InFlight, Saving
<1> QED BY <1>1, <1>2 DEF TInv

\* The entity a request saves and the row its transaction sees are rows.
LEMMA RowsAreRows ==
  ASSUME TInv, NEW r \in Requests, pc[r] \in Saving
  PROVE  /\ Target(r) \in Row
         /\ \A i \in Infractions : TxRow(r, i) \in Row
<1>1. command[r] \in Commands
  BY DEF TInv, Control, Saving
<1>2. Target(r) \in Row
  <2>1. CASE Pays(r)
    BY <2>1 DEF Target, TargetStatus, Row, Statuses
  <2>2. CASE ~Pays(r)
    <3>1. loaded[r] \in Seq(Row) /\ Len(loaded[r]) \in Nat \ {0}
      BY <1>1, <2>2, CommandFacts DEF TInv, TypeOK, Control, Saving, InFlight
    <3>2. loaded[r][1] \in Row
      BY <3>1, ElementOfSeq
    <3> QED BY <2>2, <3>2 DEF Target, TargetStatus, Row, Statuses
  <2> QED BY <2>1, <2>2
<1> QED BY <1>2 DEF TInv, TypeOK, TxRow, Row

\* Ending a request keeps the types and leaves it at its outcome.
LEMMA FinishTyped ==
  ASSUME TInv, NEW r \in Requests, NEW outcome \in Final, Finish(r, outcome),
         pc[r] # "idle"
  PROVE  /\ sequenceLock' \in Requests \cup {NULL}
         /\ rowLock' \in [Infractions -> Requests \cup {NULL}]
         /\ pc' \in [Requests -> {"idle"} \cup InFlight \cup Final]
         /\ command' \in [Requests -> Commands \cup {NoCommand}]
         /\ loaded' \in [Requests -> Seq(Row)]
         /\ pos' \in [Requests -> Nat]
         /\ dirty' \in [Requests -> [Infractions -> SUBSET Columns]]
         /\ seqRead' \in [Requests -> Nat]
         /\ \A q \in Requests : Control(q)'
<1>1. <<>> \in Seq(Row)
  BY EmptySeq
<1>2. ASSUME NEW q \in Requests PROVE Control(q)'
  <2>1. CASE q = r
    BY <2>1 DEF TInv, TypeOK, Control, Finish, Final, InFlight, Saving
  <2>2. CASE q # r
    BY <2>2 DEF TInv, TypeOK, Control, Finish, Pays
  <2> QED BY <2>1, <2>2
<1> QED BY <1>1, <1>2 DEF TInv, TypeOK, Finish

\* The typing invariant is inductive: one step per action.
LEMMA TypeNext == TInv /\ [Next]_vars => TInv'
<1> SUFFICES ASSUME TInv, [Next]_vars PROVE TInv'
  OBVIOUS
<1> USE DEF TInv
<1>1. ASSUME NEW i \in Infractions, CreateInfraction(i) \/ CreateTentative(i) PROVE TInv'
  BY <1>1 DEF CreateInfraction, CreateTentative, TypeOK, Row, Statuses, Control, Pays,
              locks, memory
<1>2. CASE AnnulTentatives
  BY <1>2 DEF AnnulTentatives, TypeOK, Row, Statuses, Control, Pays, locks, memory
<1>3. ASSUME NEW r \in Requests, Begin(r) PROVE TInv'
  <2>1. PICK c \in Commands : command' = [command EXCEPT ![r] = c]
    BY <1>3 DEF Begin
  <2>2. TypeOK'
    BY <1>3, <2>1 DEF Begin, TypeOK, InFlight, tables, locks
  <2>3. ASSUME NEW q \in Requests PROVE Control(q)'
    <3>1. CASE q = r
      <4>1. command'[r] = c /\ pc'[r] = "read" /\ loaded'[r] = <<>> /\ pos'[r] = 1
        BY <1>3, <2>1 DEF Begin, TypeOK, Control
      <4>2. Len(c.ids) \in Nat \ {0} /\ 1 \in 1..Len(c.ids) /\ 0 < Len(c.ids)
        BY CommandFacts
      <4> QED BY <3>1, <4>1, <4>2, EmptySeq DEF Control
    <3>2. CASE q # r
      BY <1>3, <2>1, <3>2 DEF Begin, TypeOK, Control, Pays
    <3> QED BY <3>1, <3>2
  <2> QED BY <2>2, <2>3
<1>4. ASSUME NEW r \in Requests, Read(r) PROVE TInv'
  <2> DEFINE ids == command[r].ids
             rows == Append(loaded[r], infraction[ids[Len(loaded[r]) + 1]])
  <2>1. command[r] \in Commands /\ pc[r] = "read"
    BY <1>4 DEF Read, Control
  <2>2. Len(loaded[r]) \in Nat /\ Len(loaded[r]) + 1 \in 1..Len(ids)
    BY <2>1, CommandFacts DEF Control, TypeOK
  <2>3. infraction[ids[Len(loaded[r]) + 1]] \in Row
    BY <2>1, <2>2, CommandFacts DEF TypeOK
  <2>4. rows \in Seq(Row) /\ Len(rows) = Len(loaded[r]) + 1
    BY <2>3, AppendProperties DEF TypeOK
  <2> HIDE DEF rows, ids
  <2>5. CASE Finish(r, "rejected")
    BY <1>4, <2>5, <2>1, FinishTyped DEF Read, tables, TypeOK, Final
  <2>6. CASE /\ Len(rows) < Len(ids)
             /\ loaded' = [loaded EXCEPT ![r] = rows]
             /\ UNCHANGED <<locks, pc, command, pos, dirty, seqRead>>
    <3>1. ASSUME NEW q \in Requests PROVE Control(q)'
      BY <2>1, <2>4, <2>6 DEF TypeOK, Control, Pays, ids
    <3> QED BY <1>4, <2>4, <2>6, <3>1 DEF Read, TypeOK, tables, locks
  <2>7. CASE /\ Len(rows) = Len(ids)
             /\ loaded' = [loaded EXCEPT ![r] = rows]
             /\ pc' = [pc EXCEPT ![r] = IF Pays(r) THEN "lockSequence" ELSE "load"]
             /\ UNCHANGED <<locks, command, pos, dirty, seqRead>>
    <3>1. ASSUME NEW q \in Requests PROVE Control(q)'
      BY <2>1, <2>4, <2>7 DEF TypeOK, Control, Pays, ids, InFlight, Saving
    <3> QED BY <1>4, <2>4, <2>7, <3>1 DEF Read, TypeOK, tables, locks, InFlight, Saving
  <2> QED BY <1>4, <2>5, <2>6, <2>7 DEF Read, rows, ids
<1>5. ASSUME NEW r \in Requests,
             \/ LockSequence(r) \/ FindNoSequence(r) \/ InitSequence(r) \/ ResetSequence(r)
      PROVE TInv'
  <2> USE <1>5
  <2>1. TypeOK'
    <3>1. CASE LockSequence(r)
      BY <3>1 DEF LockSequence, TypeOK, InFlight, Saving, tables
    <3>2. CASE FindNoSequence(r) \/ InitSequence(r)
      BY <3>2 DEF FindNoSequence, InitSequence, TypeOK, InFlight, Saving, tables, locks, memory
    <3>3. CASE ResetSequence(r)
      BY <3>3 DEF ResetSequence, TypeOK, InFlight, Saving, tables
    <3> QED BY <1>5, <3>1, <3>2, <3>3
  <2>2. pc[r] \in InFlight \ {"read"} /\ pc'[r] \in InFlight \ {"read", "commit"}
    <3>1. CASE LockSequence(r) \/ ResetSequence(r)
      BY <3>1 DEF LockSequence, ResetSequence, TypeOK, InFlight, Saving
    <3>2. CASE FindNoSequence(r)
      BY <3>2 DEF FindNoSequence, TypeOK, InFlight, Saving
    <3>3. CASE InitSequence(r)
      BY <3>3 DEF InitSequence, TypeOK, InFlight, Saving
    <3> QED BY <1>5, <3>1, <3>2, <3>3
  <2>3. /\ Pays(r) /\ UNCHANGED <<command, loaded, pos>>
        /\ \A q \in Requests \ {r} : pc'[q] = pc[q]
    BY <1>5 DEF LockSequence, FindNoSequence, InitSequence, ResetSequence, TypeOK, Control, memory
  <2>4. ASSUME NEW q \in Requests PROVE Control(q)'
    <3>1. CASE q = r
      BY <2>2, <2>3, <3>1 DEF Control, Pays, InFlight, Saving
    <3>2. CASE q # r
      BY <2>3, <3>2 DEF Control, Pays
    <3> QED BY <3>1, <3>2
  <2> QED BY <2>1, <2>4
<1>6. ASSUME NEW r \in Requests, InsertSequence(r) PROVE TInv'
  <2>1. CASE sequence # NULL
    BY <1>6, <2>1, FinishTyped DEF InsertSequence, tables, TypeOK, Final
  <2>2. CASE sequence = NULL
    <3>1. /\ pc[r] = "insertSequence" /\ pc' = [pc EXCEPT ![r] = "load"]
          /\ sequenceLock' = r /\ seqRead' = [seqRead EXCEPT ![r] = 0]
          /\ UNCHANGED <<tables, rowLock, command, loaded, pos, dirty>>
      BY <1>6, <2>2 DEF InsertSequence
    <3>2. TypeOK'
      BY <3>1 DEF TypeOK, InFlight, Saving, tables
    <3>3. ASSUME NEW q \in Requests PROVE Control(q)'
      BY <3>1 DEF TypeOK, Control, Pays, InFlight, Saving
    <3> QED BY <3>2, <3>3
  <2> QED BY <2>1, <2>2
<1>7. ASSUME NEW r \in Requests, SaveSelect(r) PROVE TInv'
  <2>1. /\ command[r] \in Commands /\ pc[r] = "load"
        /\ pos[r] \in 1..Len(command[r].ids)
        /\ Current(r) \in Infractions
    BY <1>7, CommandFacts DEF SaveSelect, Control, Current, InFlight, Saving
  <2>2. Changed(r, Current(r)) \subseteq Columns
    BY DEF Changed, Columns
  <2>3. CASE Changed(r, Current(r)) = {} /\ ~Pays(r)
    BY <1>7, <2>1, <2>3, FinishTyped DEF SaveSelect, tables, TypeOK, Final
  <2>4. CASE Changed(r, Current(r)) # {}
    <3>1. /\ dirty' = [dirty EXCEPT ![r][Current(r)] = @ \cup Changed(r, Current(r))]
          /\ pc' = [pc EXCEPT ![r] = "update"]
          /\ UNCHANGED <<tables, locks, command, loaded, pos, seqRead>>
      BY <1>7, <2>4 DEF SaveSelect
    <3>2. dirty' \in [Requests -> [Infractions -> SUBSET Columns]]
      BY <2>1, <2>2, <3>1 DEF TypeOK
    <3>3. TypeOK'
      BY <3>1, <3>2 DEF TypeOK, tables, locks, InFlight, Saving
    <3>4. ASSUME NEW q \in Requests PROVE Control(q)'
      BY <2>1, <3>1 DEF TypeOK, Control, Pays, InFlight, Saving
    <3> QED BY <3>3, <3>4
  <2>5. CASE Changed(r, Current(r)) = {} /\ Pays(r)
    <3> DEFINE more == pos[r] < Len(command[r].ids)
    <3>1. /\ pos' = [pos EXCEPT ![r] = IF more THEN @ + 1 ELSE @]
          /\ pc' = [pc EXCEPT ![r] = IF more THEN "load" ELSE "commit"]
          /\ UNCHANGED <<tables, locks, command, loaded, dirty, seqRead>>
      BY <1>7, <2>5 DEF SaveSelect
    <3>2. pos' \in [Requests -> Nat] /\ pos'[r] \in 1..Len(command[r].ids)
      BY <2>1, <3>1, CommandFacts DEF TypeOK
    <3>3. TypeOK'
      BY <3>1, <3>2 DEF TypeOK, tables, locks, InFlight, Saving
    <3>4. ASSUME NEW q \in Requests PROVE Control(q)'
      <4>1. CASE q = r
        BY <2>1, <2>5, <3>1, <3>2, <4>1 DEF TypeOK, Control, Pays, InFlight, Saving
      <4>2. CASE q # r
        BY <3>1, <4>2 DEF TypeOK, Control, Pays
      <4> QED BY <4>1, <4>2
    <3> QED BY <3>3, <3>4
  <2> QED BY <2>3, <2>4, <2>5
<1>8. ASSUME NEW r \in Requests, SaveUpdate(r) PROVE TInv'
  <2>1. /\ command[r] \in Commands /\ pc[r] = "update"
        /\ pos[r] \in 1..Len(command[r].ids)
        /\ Current(r) \in Infractions
    BY <1>8, CommandFacts DEF SaveUpdate, Control, Current, InFlight, Saving
  <2>2. TypeOK'
    BY <1>8, <2>1, CommandFacts DEF SaveUpdate, TypeOK, InFlight, Saving, tables
  <2>3. ASSUME NEW q \in Requests PROVE Control(q)'
    BY <1>8, <2>1, CommandFacts DEF SaveUpdate, TypeOK, Control, Pays, InFlight, Saving, tables
  <2> QED BY <2>2, <2>3
<1>9. ASSUME NEW r \in Requests, SaveAlone(r) PROVE TInv'
  <2>1. pc[r] \in Saving /\ pc[r] # "idle" /\ Finish(r, "ok")
    BY <1>9 DEF SaveAlone, Saving
  <2>2. infraction' \in [Infractions -> Row]
    BY <1>9, <2>1, RowsAreRows DEF SaveAlone
  <2>3. overwritten' \subseteq Infractions
    BY <1>9 DEF SaveAlone, Missed, TypeOK
  <2> QED BY <1>9, <2>1, <2>2, <2>3, FinishTyped DEF SaveAlone, TypeOK, Final
<1>10. ASSUME NEW r \in Requests, CommitPayment(r) PROVE TInv'
  <2>1. pc[r] \in Saving /\ pc[r] # "idle" /\ Finish(r, "ok")
    BY <1>10 DEF CommitPayment, Saving
  <2>2. infraction' \in [Infractions -> Row]
    BY <1>10, <2>1, RowsAreRows DEF CommitPayment
  <2>3. command[r].ids \in Seq(Infractions) /\ seqRead[r] + 1 \in Nat
    BY <2>1, CommandFacts DEF Control, TypeOK
  <2>4. \A p \in payments' : /\ p.id \in Requests
                             /\ p.number \in Nat
                             /\ p.lines \in Seq(Infractions)
    BY <1>10, <2>3 DEF CommitPayment, TypeOK
  <2>5. sequence' \in Nat
    BY <1>10, <2>3 DEF CommitPayment
  <2>6. overwritten' \subseteq Infractions
    BY <1>10 DEF CommitPayment, Missed, TypeOK
  <2> QED BY <2>1, <2>2, <2>4, <2>5, <2>6, FinishTyped DEF TypeOK, Final
<1>11. ASSUME NEW r \in Requests, Fail(r) PROVE TInv'
  <2>1. pc[r] # "idle" /\ Finish(r, "error")
    BY <1>11 DEF Fail, InFlight, Saving
  <2> QED BY <1>11, <2>1, FinishTyped DEF Fail, tables, TypeOK, Final
<1>12. CASE Terminated \/ UNCHANGED vars
  <2>1. UNCHANGED vars
    BY <1>12 DEF Terminated
  <2> QED BY <2>1 DEF vars, tables, locks, memory, TypeOK, Control, Pays
<1> QED
  BY <1>1, <1>2, <1>3, <1>4, <1>5, <1>6, <1>7, <1>8, <1>9, <1>10, <1>11, <1>12 DEF Next, Step

\* Every reachable state has its type.
THEOREM Typing == Spec => []TypeOK
<1>1. TInv => TypeOK
  BY DEF TInv
<1> QED BY <1>1, TypeInit, TypeNext, PTL DEF Spec

-----------------------------------------------------------------------------
(* The numbers of the receipts, once the tenant has a sequence row.  A      *)
(* payment that has read the sequence holds its row until it ends, and      *)
(* nobody else can have changed the value it has read.                      *)

Numbered(r) ==
  /\ pc[r] \notin {"initSequence", "insertSequence", "resetSequence"}
  /\ Pays(r) /\ pc[r] \in Saving => sequenceLock = r /\ seqRead[r] = sequence

SInv ==
  /\ TInv
  /\ sequence \in Nat
  /\ \A r \in Requests : Numbered(r)
  /\ \A p \in payments : pc[p.id] = "ok"
  /\ ReceiptsConsecutive

\* The numbering invariant holds of a tenant whose sequence row exists.
LEMMA NumberingInit ==
  ASSUME SequenceSeeded
  PROVE  Init => SInv
<1> SUFFICES ASSUME Init PROVE SInv
  OBVIOUS
<1>1. TInv
  BY TypeInit
<1>2. sequence = 0 /\ payments = {}
  BY DEF Init
<1>3. sequence \in Nat /\ \A p \in payments : pc[p.id] = "ok"
  BY <1>2
<1>4. ReceiptsConsecutive
  BY <1>2, PaymentAssumptions DEF ReceiptsConsecutive, Issued
<1>5. \A r \in Requests : Numbered(r)
  BY DEF Init, Numbered, Saving
<1> QED BY <1>1, <1>3, <1>4, <1>5 DEF SInv

\* A step that leaves the sequence and the payments alone.
LEMMA QuietNumbering ==
  ASSUME SInv, TInv', NEW r \in Requests,
         UNCHANGED <<payments, sequence, sequenceLock, seqRead>>,
         \A q \in Requests \ {r} : pc'[q] = pc[q] /\ command'[q] = command[q],
         pc[r] \notin Final,
         pc'[r] \notin {"initSequence", "insertSequence", "resetSequence"},
         pc'[r] \in Saving /\ Pays(r)' => pc[r] \in Saving /\ Pays(r)
  PROVE  SInv'
<1>1. ReceiptsConsecutive' /\ sequence' \in Nat
  BY DEF SInv, ReceiptsConsecutive, Issued
<1>2. \A p \in payments' : pc'[p.id] = "ok"
  BY DEF SInv, TInv, TypeOK, Final
<1>3. ASSUME NEW q \in Requests PROVE Numbered(q)'
  BY DEF SInv, Numbered, Pays
<1> QED BY <1>1, <1>2, <1>3 DEF SInv

\* A request that ends without having committed a payment.
LEMMA FinishNumbering ==
  ASSUME SInv, TInv', NEW r \in Requests, NEW outcome \in Final, Finish(r, outcome),
         pc[r] \notin Final, UNCHANGED <<payments, sequence>>
  PROVE  SInv'
<1>1. ReceiptsConsecutive' /\ sequence' \in Nat
  BY DEF SInv, ReceiptsConsecutive, Issued
<1>2. \A p \in payments' : pc'[p.id] = "ok"
  BY DEF SInv, TInv, TypeOK, Final, Finish
<1>3. ASSUME NEW q \in Requests PROVE Numbered(q)'
  <2>1. CASE q = r
    BY <2>1 DEF SInv, TInv, TypeOK, Numbered, Pays, Finish, Final, Saving
  <2>2. CASE q # r
    BY <2>2 DEF SInv, TInv, TypeOK, Numbered, Pays, Finish
  <2> QED BY <2>1, <2>2
<1> QED BY <1>1, <1>2, <1>3 DEF SInv

\* The payment takes the number after the last one.
LEMMA CommitNumbering ==
  ASSUME SInv, TInv', NEW r \in Requests, CommitPayment(r)
  PROVE  SInv'
<1> DEFINE new == [id |-> r, number |-> seqRead[r] + 1, lines |-> command[r].ids]
<1>1. Pays(r) /\ pc[r] = "commit" /\ Finish(r, "ok")
  BY DEF CommitPayment, SInv, TInv, Control
<1>2. sequenceLock = r /\ seqRead[r] = sequence /\ sequence \in Nat
  BY <1>1 DEF SInv, Numbered, Saving
<1>3. payments' = payments \cup {new} /\ sequence' = sequence + 1
  BY <1>2 DEF CommitPayment
<1>4. /\ \A p, q \in payments : p.number = q.number => p = q
      /\ {p.number : p \in payments} = 1..sequence
      /\ \A p \in payments : p.number \in Nat
  BY <1>2, PaymentAssumptions DEF SInv, TInv, TypeOK, ReceiptsConsecutive, Issued
<1>5. new.number = sequence + 1
  BY <1>2
<1> HIDE DEF new
<1>6. \A p \in payments : p.number \in 1..sequence
  BY <1>4
<1>7. \A p, q \in payments' : p.number = q.number => p = q
  BY <1>2, <1>3, <1>4, <1>5, <1>6
<1>8. {p.number : p \in payments'} = 1..(sequence + 1)
  <2>1. {p.number : p \in payments'} = {p.number : p \in payments} \cup {new.number}
    BY <1>3
  <2>2. 1..(sequence + 1) = 1..sequence \cup {sequence + 1}
    BY <1>2
  <2> QED BY <1>4, <1>5, <2>1, <2>2
<1>9. ReceiptsConsecutive' /\ sequence' \in Nat
  BY <1>2, <1>3, <1>7, <1>8, PaymentAssumptions DEF ReceiptsConsecutive, Issued
<1>10. pc' = [pc EXCEPT ![r] = "ok"] /\ UNCHANGED command
  BY <1>1 DEF Finish
<1>11. \A p \in payments' : pc'[p.id] = "ok"
  <2>1. \A p \in payments : p.id \in Requests /\ p.id # r /\ pc[p.id] = "ok"
    BY <1>1 DEF SInv, TInv, TypeOK
  <2>2. new.id = r
    BY DEF new
  <2> QED BY <1>3, <1>10, <2>1, <2>2 DEF SInv, TInv, TypeOK
<1>12. ASSUME NEW q \in Requests PROVE Numbered(q)'
  <2>1. CASE q = r
    BY <1>10, <2>1 DEF SInv, TInv, TypeOK, Numbered, Saving
  <2>2. CASE q # r
    <3>1. ~(Pays(q) /\ pc[q] \in Saving)
      BY <1>2, <2>2 DEF SInv, Numbered
    <3> QED BY <1>10, <2>2, <3>1 DEF SInv, TInv, TypeOK, Numbered, Pays
  <2> QED BY <2>1, <2>2
<1> QED BY <1>9, <1>11, <1>12 DEF SInv

\* The numbering invariant is inductive.
LEMMA NumberingNext == SInv /\ [Next]_vars => SInv'
<1> SUFFICES ASSUME SInv, [Next]_vars PROVE SInv'
  OBVIOUS
<1>0. TInv /\ TInv' /\ sequence # NULL
  BY TypeNext, PaymentAssumptions DEF SInv
<1>1. CASE UNCHANGED <<payments, sequence, sequenceLock, seqRead, pc, command>>
  BY <1>0, <1>1 DEF SInv, Numbered, Pays, ReceiptsConsecutive, Issued
<1>2. ASSUME NEW i \in Infractions, CreateInfraction(i) \/ CreateTentative(i) PROVE SInv'
  BY <1>1, <1>2 DEF CreateInfraction, CreateTentative, locks, memory
<1>3. CASE AnnulTentatives
  BY <1>1, <1>3 DEF AnnulTentatives, locks, memory
<1>4. ASSUME NEW r \in Requests, Begin(r) PROVE SInv'
  <2>1. PICK c \in Commands : command' = [command EXCEPT ![r] = c]
    BY <1>4 DEF Begin
  <2>2. /\ pc[r] = "idle" /\ pc' = [pc EXCEPT ![r] = "read"]
        /\ UNCHANGED <<payments, sequence, sequenceLock, seqRead>>
    BY <1>4 DEF Begin, tables, locks
  <2>3. pc'[r] = "read" /\ pc[r] = "idle"
    BY <1>0, <2>2 DEF TInv, TypeOK
  <2>4. \A q \in Requests \ {r} : pc'[q] = pc[q] /\ command'[q] = command[q]
    BY <1>0, <2>1, <2>2 DEF TInv, TypeOK
  <2> QED BY <1>0, <2>2, <2>3, <2>4, QuietNumbering DEF Final, Saving
<1>5. ASSUME NEW r \in Requests, Read(r) PROVE SInv'
  <2>1. pc[r] = "read" /\ UNCHANGED <<payments, sequence>>
    BY <1>5 DEF Read, tables
  <2>2. CASE Finish(r, "rejected")
    BY <1>0, <2>1, <2>2, FinishNumbering DEF Final
  <2>3. CASE UNCHANGED <<locks, pc, command, pos, dirty, seqRead>>
    BY <1>1, <2>1, <2>3 DEF locks
  <2>4. CASE /\ pc' = [pc EXCEPT ![r] = IF Pays(r) THEN "lockSequence" ELSE "load"]
             /\ UNCHANGED <<locks, command, pos, dirty, seqRead>>
    <3>1. /\ pc'[r] = IF Pays(r) THEN "lockSequence" ELSE "load"
          /\ \A q \in Requests \ {r} : pc'[q] = pc[q]
      BY <1>0, <2>4 DEF TInv, TypeOK
    <3>2. UNCHANGED <<payments, sequence, sequenceLock, seqRead, command>> /\ (Pays(r)' <=> Pays(r))
      BY <2>1, <2>4 DEF locks, Pays
    <3> QED BY <1>0, <2>1, <3>1, <3>2, QuietNumbering DEF Final, Saving
  <2> QED BY <1>5, <2>2, <2>3, <2>4 DEF Read
<1>6. ASSUME NEW r \in Requests, LockSequence(r) PROVE SInv'
  <2>1. /\ pc[r] = "lockSequence" /\ sequenceLock = NULL /\ sequenceLock' = r
        /\ seqRead' = [seqRead EXCEPT ![r] = sequence]
        /\ pc' = [pc EXCEPT ![r] = "load"]
        /\ UNCHANGED <<payments, sequence, command>>
    BY <1>6 DEF LockSequence, tables
  <2>2. ASSUME NEW q \in Requests PROVE Numbered(q)'
    <3>1. CASE q = r
      BY <1>0, <2>1, <3>1 DEF SInv, TInv, TypeOK, Numbered
    <3>2. CASE q # r
      <4>1. ~(Pays(q) /\ pc[q] \in Saving)
        BY <2>1, PaymentAssumptions DEF SInv, Numbered
      <4> QED BY <1>0, <2>1, <3>2, <4>1 DEF SInv, TInv, TypeOK, Numbered, Pays
    <3> QED BY <3>1, <3>2
  <2>3. \A p \in payments' : pc'[p.id] = "ok"
    BY <1>0, <2>1 DEF SInv, TInv, TypeOK
  <2>4. ReceiptsConsecutive' /\ sequence' \in Nat
    BY <2>1 DEF SInv, ReceiptsConsecutive, Issued
  <2> QED BY <1>0, <2>2, <2>3, <2>4 DEF SInv
<1>7. ASSUME NEW r \in Requests,
             FindNoSequence(r) \/ InitSequence(r) \/ InsertSequence(r) \/ ResetSequence(r)
      PROVE SInv'
  BY <1>0, <1>7 DEF FindNoSequence, InitSequence, InsertSequence, ResetSequence, SInv, Numbered
<1>8. ASSUME NEW r \in Requests, SaveSelect(r) PROVE SInv'
  <2>1. pc[r] = "load" /\ UNCHANGED <<payments, sequence>>
    BY <1>8 DEF SaveSelect, tables
  <2>2. CASE Finish(r, "ok")
    BY <1>0, <2>1, <2>2, FinishNumbering DEF Final
  <2>3. CASE ~Finish(r, "ok")
    <3>1. /\ UNCHANGED <<locks, command, seqRead>>
          /\ pc' = [pc EXCEPT ![r] = pc'[r]] /\ pc'[r] \in Saving
      BY <1>0, <1>8, <2>3 DEF SaveSelect, TInv, TypeOK, Saving
    <3>2. \A q \in Requests \ {r} : pc'[q] = pc[q] /\ command'[q] = command[q]
      BY <1>0, <3>1 DEF TInv, TypeOK
    <3> QED BY <1>0, <2>1, <3>1, <3>2, QuietNumbering DEF Final, Saving, Pays, locks
  <2> QED BY <2>2, <2>3
<1>9. ASSUME NEW r \in Requests, SaveUpdate(r) PROVE SInv'
  <2>1. /\ pc[r] = "update"
        /\ UNCHANGED <<payments, sequence, sequenceLock, seqRead, command>>
    BY <1>9 DEF SaveUpdate, tables
  <2>2. /\ pc'[r] \in Saving
        /\ \A q \in Requests \ {r} : pc'[q] = pc[q]
    BY <1>0, <1>9 DEF SaveUpdate, TInv, TypeOK, Saving
  <2> QED BY <1>0, <2>1, <2>2, QuietNumbering DEF Final, Saving, Pays
<1>10. ASSUME NEW r \in Requests, SaveAlone(r) PROVE SInv'
  BY <1>0, <1>10, FinishNumbering DEF SaveAlone, Final
<1>11. ASSUME NEW r \in Requests, CommitPayment(r) PROVE SInv'
  BY <1>0, <1>11, CommitNumbering
<1>12. ASSUME NEW r \in Requests, Fail(r) PROVE SInv'
  BY <1>0, <1>12, FinishNumbering DEF Fail, tables, Final, InFlight, Saving
<1>13. CASE Terminated \/ UNCHANGED vars
  BY <1>1, <1>13 DEF Terminated, vars, tables, locks, memory
<1> QED
  BY <1>2, <1>3, <1>4, <1>5, <1>6, <1>7, <1>8, <1>9, <1>10, <1>11, <1>12, <1>13 DEF Next, Step

\* Once a tenant has its sequence row, receipts are numbered 1, 2, 3, ... for
\* ever, whatever payments overlap or fail.
THEOREM Numbering == SequenceSeeded => (Spec => []ReceiptsConsecutive)
<1> SUFFICES ASSUME SequenceSeeded PROVE Spec => []ReceiptsConsecutive
  OBVIOUS
<1>1. Init => SInv
  BY NumberingInit
<1>2. SInv => ReceiptsConsecutive
  BY DEF SInv
<1> QED BY <1>1, <1>2, NumberingNext, PTL DEF Spec

\* Every step issues one receipt or none.
LEMMA NumberingStep == SInv /\ [Next]_vars => [Book!BookNext]_(Book!bookVars)
<1> SUFFICES ASSUME SInv, [Next]_vars PROVE [Book!BookNext]_(Book!bookVars)
  OBVIOUS
<1>1. CASE UNCHANGED <<payments, sequence>>
  BY <1>1 DEF Book!bookVars, Issued
<1>2. ASSUME NEW r \in Requests, CommitPayment(r) PROVE Book!BookNext
  <2>1. Pays(r) /\ pc[r] = "commit" /\ command[r].ids \in Batches
    BY <1>2 DEF CommitPayment, SInv, TInv, Control, Commands
  <2>2. seqRead[r] = sequence /\ sequence \in Nat
    BY <2>1 DEF SInv, Numbered, Saving
  <2>3. \A p \in payments : p.id # r
    BY <2>1 DEF SInv
  <2>4. /\ payments' = payments \cup
             {[id |-> r, number |-> sequence + 1, lines |-> command[r].ids]}
        /\ sequence' = sequence + 1
    BY <1>2, <2>2 DEF CommitPayment
  <2>5. Issued = sequence /\ Issued' = sequence + 1
    BY <2>2, <2>4, PaymentAssumptions DEF Issued
  <2>6. Book!Issue(r, command[r].ids)
    BY <2>3, <2>4, <2>5 DEF Book!Issue
  <2> QED BY <2>1, <2>6 DEF Book!BookNext
<1>3. ASSUME NEW i \in Infractions, CreateInfraction(i) \/ CreateTentative(i)
      PROVE UNCHANGED <<payments, sequence>>
  BY <1>3 DEF CreateInfraction, CreateTentative
<1>4. ASSUME NEW r \in Requests,
             \/ Begin(r) \/ Read(r) \/ LockSequence(r) \/ FindNoSequence(r)
             \/ InitSequence(r) \/ InsertSequence(r) \/ ResetSequence(r)
             \/ SaveSelect(r) \/ SaveUpdate(r) \/ SaveAlone(r) \/ Fail(r)
      PROVE UNCHANGED <<payments, sequence>>
  BY <1>4 DEF Begin, Read, LockSequence, FindNoSequence, InitSequence, InsertSequence,
              ResetSequence, SaveSelect, SaveUpdate, SaveAlone, Fail, tables
<1>5. CASE AnnulTentatives \/ Terminated \/ UNCHANGED vars
  BY <1>1, <1>5 DEF AnnulTentatives, Terminated, vars, tables
<1> QED BY <1>1, <1>2, <1>3, <1>4, <1>5 DEF Next, Step

\* Once a tenant has its sequence row, the overlapping requests keep a receipt
\* book: each step that changes payments or sequence issues the next receipt.
THEOREM KeepsReceiptBook == SequenceSeeded => (Spec => ImplementsReceiptBook)
<1> SUFFICES ASSUME SequenceSeeded PROVE Spec => ImplementsReceiptBook
  OBVIOUS
<1>1. Init => SInv
  BY NumberingInit
<1>2. Init => Book!BookInit
  BY PaymentAssumptions DEF Init, Book!BookInit, Issued
<1> QED BY <1>1, <1>2, NumberingNext, NumberingStep, PTL
        DEF Spec, ImplementsReceiptBook, Book!BookSpec

-----------------------------------------------------------------------------
(* What payment_id refers to.  Entities loaded by a request hold links that *)
(* resolve, and go on resolving because payments are never deleted; a       *)
(* payment's own identifier is written to the infractions of its list only. *)

Resolves(id, i) ==
  id # NULL => \E p \in payments : p.id = id /\ \E k \in DOMAIN p.lines : p.lines[k] = i

Listed(r, i) == \E k \in DOMAIN command[r].ids : command[r].ids[k] = i

Linked(r, k) == "payment" \in dirty[r][command[r].ids[k]]

\* Before the first save.
Unsaved == {"read", "lockSequence", "initSequence", "insertSequence", "resetSequence"}

Backed(r) ==
  /\ \A k \in 1..Len(loaded[r]) : Resolves(loaded[r][k].payment, command[r].ids[k])
  /\ \A i \in Infractions : dirty[r][i] # {} => Listed(r, i)
  /\ pc[r] = "idle" => \A i \in Infractions : dirty[r][i] = {}
  /\ pc[r] \in Unsaved => pos[r] = 1
  /\ Pays(r) /\ pc[r] = "load" => \A k \in 1..(pos[r] - 1) : Linked(r, k)
  /\ Pays(r) /\ pc[r] = "update" => \A k \in 1..pos[r] : Linked(r, k)
  /\ Pays(r) /\ pc[r] = "commit" => \A k \in 1..Len(command[r].ids) : Linked(r, k)

LInv ==
  /\ TInv
  /\ LinksResolve
  /\ \A p \in payments : pc[p.id] = "ok"
  /\ \A r \in Requests : Backed(r)

\* The link invariant holds when the server starts.
LEMMA LinksInit == Init => LInv
<1> SUFFICES ASSUME Init PROVE LInv
  OBVIOUS
<1>1. TInv
  BY TypeInit
<1>2. LinksResolve /\ \A p \in payments : pc[p.id] = "ok"
  BY DEF Init, LinksResolve
<1>3. \A r \in Requests : Backed(r)
  BY DEF Init, Backed
<1> QED BY <1>1, <1>2, <1>3 DEF LInv

\* Links that resolve go on resolving while payments are only added.
LEMMA LinksLast ==
  ASSUME payments \subseteq payments'
  PROVE  \A id, i : Resolves(id, i) => Resolves(id, i)'
BY DEF Resolves

\* A request other than the one that moves stays backed.
LEMMA OthersBacked ==
  ASSUME LInv, payments \subseteq payments', NEW q \in Requests,
         pc'[q] = pc[q], command'[q] = command[q], loaded'[q] = loaded[q],
         pos'[q] = pos[q], dirty'[q] = dirty[q]
  PROVE  Backed(q)'
<1>1. \A k \in 1..Len(loaded[q]) : Resolves(loaded[q][k].payment, command[q].ids[k])'
  BY LinksLast DEF LInv, Backed
<1> QED BY <1>1 DEF LInv, Backed, Listed, Linked, Pays

\* A request that ends keeps nothing that has to be backed.
LEMMA FinishBacked ==
  ASSUME LInv, payments \subseteq payments', NEW r \in Requests, NEW outcome \in Final,
         Finish(r, outcome)
  PROVE  \A q \in Requests : Backed(q)'
<1>1. /\ pc'[r] = outcome /\ loaded'[r] = <<>>
      /\ dirty'[r] = [i \in Infractions |-> {}]
  BY DEF LInv, TInv, TypeOK, Finish
<1>2. Backed(r)'
  BY <1>1, EmptySeq DEF Backed, Final, Unsaved
<1>3. ASSUME NEW q \in Requests, q # r PROVE Backed(q)'
  BY <1>3, OthersBacked DEF LInv, TInv, TypeOK, Finish
<1> QED BY <1>2, <1>3

\* Steps that touch neither a payment nor the link of an infraction.
LEMMA SameLinks ==
  ASSUME LInv, payments' = payments,
         \A i \in Infractions : infraction'[i].payment = infraction[i].payment
  PROVE  LinksResolve'
BY DEF LInv, LinksResolve

\* No infraction points at a payment that is still being made.
LEMMA NotLinkedYet ==
  ASSUME LInv, NEW r \in Requests, pc[r] # "ok", NEW i \in Infractions
  PROVE  infraction[i].payment # r
<1> SUFFICES ASSUME infraction[i].payment = r PROVE FALSE
  OBVIOUS
<1>1. PICK p \in payments : p.id = r
  BY PaymentAssumptions DEF LInv, LinksResolve
<1> QED BY <1>1 DEF LInv

\* findById copies a link that resolves into memory.
LEMMA ReadLinks ==
  ASSUME LInv, NEW r \in Requests, Read(r)
  PROVE  /\ LinksResolve'
         /\ \A q \in Requests : Backed(q)'
<1> DEFINE n == Len(loaded[r]) + 1
           row == infraction[command[r].ids[n]]
           rows == Append(loaded[r], row)
<1>1. /\ pc[r] = "read" /\ UNCHANGED <<infraction, payments>>
      /\ command[r] \in Commands /\ loaded[r] \in Seq(Row)
      /\ Len(loaded[r]) < Len(command[r].ids)
  BY DEF Read, tables, LInv, TInv, TypeOK, Control
<1>2. LinksResolve'
  BY <1>1, SameLinks
<1>3. n \in 1..Len(command[r].ids) /\ command[r].ids[n] \in Infractions
  BY <1>1, CommandFacts
<1>4. row \in Row
  BY <1>3 DEF LInv, TInv, TypeOK
<1>5. Resolves(row.payment, command[r].ids[n])
  BY <1>3 DEF LInv, LinksResolve, Resolves
<1>6. /\ Len(rows) = n
      /\ \A k \in 1..n : rows[k] = IF k = n THEN row ELSE loaded[r][k]
  BY <1>1, <1>4, AppendProperties
<1> HIDE DEF rows, row
<1>7. \A k \in 1..Len(rows) : Resolves(rows[k].payment, command[r].ids[k])
  BY <1>1, <1>5, <1>6 DEF LInv, Backed
<1> HIDE DEF n
<1>8. CASE Finish(r, "rejected")
  BY <1>1, <1>2, <1>8, FinishBacked DEF Final
<1>9. CASE ~Finish(r, "rejected")
  <2>1. /\ loaded' = [loaded EXCEPT ![r] = rows]
        /\ \/ pc' = pc
           \/ pc' = [pc EXCEPT ![r] = IF Pays(r) THEN "lockSequence" ELSE "load"]
        /\ UNCHANGED <<command, pos, dirty>>
    BY <1>9 DEF Read, rows, row, n
  <2>2. /\ loaded'[r] = rows
        /\ pc'[r] = pc[r] \/ pc'[r] = IF Pays(r) THEN "lockSequence" ELSE "load"
    BY <2>1 DEF LInv, TInv, TypeOK
  <2>3. \A k \in 1..Len(loaded'[r]) : Resolves(loaded[r][k].payment, command[r].ids[k])'
    <3> TAKE k \in 1..Len(loaded'[r])
    <3>1. Resolves(rows[k].payment, command[r].ids[k])
      BY <1>7, <2>2
    <3>2. Resolves(rows[k].payment, command[r].ids[k]) => Resolves(loaded[r][k].payment, command[r].ids[k])'
      BY <1>1, <2>1, <2>2 DEF Resolves
    <3> QED BY <3>1, <3>2
  <2>4. Backed(r)'
    BY <1>1, <2>1, <2>2, <2>3 DEF LInv, Backed, Listed, Linked, Pays, Unsaved
  <2>5. ASSUME NEW q \in Requests, q # r PROVE Backed(q)'
    BY <1>1, <2>1, <2>5, OthersBacked DEF LInv, TInv, TypeOK
  <2> QED BY <1>2, <2>4, <2>5
<1> QED BY <1>8, <1>9

\* The SELECT of a save decides to link the current infraction of a payment, or
\* has decided so before.
LEMMA SaveSelectLinks ==
  ASSUME LInv, NEW r \in Requests, SaveSelect(r)
  PROVE  /\ LinksResolve'
         /\ \A q \in Requests : Backed(q)'
<1> DEFINE i == Current(r)
           more == pos[r] < Len(command[r].ids)
<1>1. /\ pc[r] = "load" /\ UNCHANGED <<infraction, payments>>
      /\ command[r] \in Commands /\ pos[r] \in 1..Len(command[r].ids)
      /\ Len(command[r].ids) \in Nat
      /\ DOMAIN command[r].ids = 1..Len(command[r].ids)
      /\ i = command[r].ids[pos[r]] /\ i \in Infractions
  BY CommandFacts DEF SaveSelect, tables, LInv, TInv, Control, InFlight, Saving, Current
<1>2. LinksResolve'
  BY <1>1, SameLinks
<1>3. Pays(r) => "payment" \in Changed(r, i) \/ "payment" \in dirty[r][i]
  <2>1. infraction[i].payment # r
    BY <1>1, NotLinkedYet
  <2> QED BY <2>1 DEF Changed, TxRow, Target
<1>4. CASE Changed(r, i) # {}
  <2>1. /\ dirty' = [dirty EXCEPT ![r][i] = @ \cup Changed(r, i)]
        /\ pc' = [pc EXCEPT ![r] = "update"]
        /\ UNCHANGED <<command, loaded, pos>>
    BY <1>4 DEF SaveSelect
  <2> HIDE DEF i, more
  <2>2. /\ pc'[r] = "update"
        /\ dirty'[r][i] = dirty[r][i] \cup Changed(r, i)
        /\ \A j \in Infractions : j # i => dirty'[r][j] = dirty[r][j]
        /\ \A q \in Requests \ {r} : dirty'[q] = dirty[q] /\ pc'[q] = pc[q]
    BY <1>1, <2>1 DEF LInv, TInv, TypeOK
  <2>3. \A k \in 1..Len(loaded[r]) : Resolves(loaded[r][k].payment, command[r].ids[k])'
    BY <1>1, <2>1, LinksLast DEF LInv, Backed
  <2>4. ASSUME NEW j \in Infractions, dirty'[r][j] # {} PROVE Listed(r, j)'
    <3>1. CASE j = i
      BY <1>1, <2>1, <3>1 DEF Listed
    <3>2. CASE j # i
      BY <2>1, <2>2, <2>4, <3>2 DEF Listed, LInv, Backed
    <3> QED BY <3>1, <3>2
  <2>5. ASSUME Pays(r) PROVE \A k \in 1..pos[r] : Linked(r, k)'
    <3> TAKE k \in 1..pos[r]
    <3>1. k \in 1..Len(command[r].ids) /\ command[r].ids[k] \in Infractions
      BY <1>1, CommandFacts
    <3>2. CASE command[r].ids[k] = i
      BY <1>3, <2>1, <2>2, <2>5, <3>2 DEF Linked
    <3>3. CASE command[r].ids[k] # i
      <4>1. k \in 1..(pos[r] - 1)
        BY <1>1, <3>3
      <4>2. Linked(r, k)
        BY <1>1, <2>5, <4>1 DEF LInv, Backed
      <4> QED BY <2>1, <2>2, <3>1, <3>3, <4>2 DEF Linked
    <3> QED BY <3>2, <3>3
  <2>6. Backed(r)'
    BY <2>1, <2>2, <2>3, <2>4, <2>5 DEF Backed, Pays, Unsaved
  <2>7. ASSUME NEW q \in Requests, q # r PROVE Backed(q)'
    BY <1>1, <2>1, <2>2, <2>7, OthersBacked
  <2> QED BY <1>2, <2>6, <2>7
<1>5. CASE Changed(r, i) = {} /\ Pays(r)
  <2>1. /\ pos' = [pos EXCEPT ![r] = IF more THEN @ + 1 ELSE @]
        /\ pc' = [pc EXCEPT ![r] = IF more THEN "load" ELSE "commit"]
        /\ UNCHANGED <<command, loaded, dirty>>
    BY <1>5 DEF SaveSelect
  <2>2. /\ pc'[r] = IF more THEN "load" ELSE "commit"
        /\ pos'[r] = IF more THEN pos[r] + 1 ELSE pos[r]
        /\ \A q \in Requests \ {r} : pos'[q] = pos[q] /\ pc'[q] = pc[q]
    BY <2>1 DEF LInv, TInv, TypeOK
  <2>3. \A k \in 1..Len(loaded[r]) : Resolves(loaded[r][k].payment, command[r].ids[k])'
    BY <1>1, <2>1, LinksLast DEF LInv, Backed
  <2>4. \A k \in 1..pos[r] : Linked(r, k)
    BY <1>1, <1>3, <1>5 DEF LInv, Backed, Linked
  <2>5. Backed(r)'
    BY <1>1, <2>1, <2>2, <2>3, <2>4 DEF LInv, Backed, Listed, Linked, Pays, Unsaved
  <2>6. ASSUME NEW q \in Requests, q # r PROVE Backed(q)'
    BY <1>1, <2>1, <2>2, <2>6, OthersBacked
  <2> QED BY <1>2, <2>5, <2>6
<1>6. CASE Finish(r, "ok")
  BY <1>1, <1>2, <1>6, FinishBacked DEF Final
<1> QED BY <1>4, <1>5, <1>6 DEF SaveSelect

\* The UPDATE of a save moves a payment on to the next infraction of its list.
LEMMA SaveUpdateLinks ==
  ASSUME LInv, NEW r \in Requests, SaveUpdate(r)
  PROVE  /\ LinksResolve'
         /\ \A q \in Requests : Backed(q)'
<1> DEFINE more == pos[r] < Len(command[r].ids)
<1>1. /\ pc[r] = "update" /\ Pays(r) /\ UNCHANGED <<infraction, payments>>
      /\ pos' = [pos EXCEPT ![r] = IF more THEN @ + 1 ELSE @]
      /\ pc' = [pc EXCEPT ![r] = IF more THEN "load" ELSE "commit"]
      /\ UNCHANGED <<command, loaded, dirty>>
  BY DEF SaveUpdate, tables
<1>2. pos[r] \in 1..Len(command[r].ids) /\ Len(command[r].ids) \in Nat
  BY <1>1, CommandFacts DEF LInv, TInv, Control, InFlight, Saving
<1>3. /\ pc'[r] = IF more THEN "load" ELSE "commit"
      /\ pos'[r] = IF more THEN pos[r] + 1 ELSE pos[r]
      /\ \A q \in Requests \ {r} : pos'[q] = pos[q] /\ pc'[q] = pc[q]
  BY <1>1 DEF LInv, TInv, TypeOK
<1>4. \A k \in 1..Len(loaded[r]) : Resolves(loaded[r][k].payment, command[r].ids[k])'
  BY <1>1, LinksLast DEF LInv, Backed
<1>5. \A k \in 1..pos[r] : Linked(r, k)
  BY <1>1 DEF LInv, Backed
<1>6. Backed(r)'
  <2>1. pc'[r] = "load" => \A k \in 1..(pos'[r] - 1) : Linked(r, k)'
    BY <1>1, <1>2, <1>3, <1>5 DEF Linked
  <2>2. pc'[r] = "commit" => \A k \in 1..Len(command'[r].ids) : Linked(r, k)'
    BY <1>1, <1>2, <1>3, <1>5 DEF Linked
  <2>3. pc'[r] \in {"load", "commit"}
    BY <1>3
  <2>4. \A i \in Infractions : dirty'[r][i] # {} => Listed(r, i)'
    BY <1>1 DEF LInv, Backed, Listed
  <2> QED BY <1>1, <1>4, <2>1, <2>2, <2>3, <2>4 DEF Backed, Unsaved
<1>7. ASSUME NEW q \in Requests, q # r PROVE Backed(q)'
  BY <1>1, <1>3, <1>7, OthersBacked
<1> QED BY <1>1, <1>6, <1>7, SameLinks

\* A stale entity is written back whole: its link still resolves.
LEMMA SaveAloneLinks ==
  ASSUME LInv, NEW r \in Requests, SaveAlone(r)
  PROVE  /\ LinksResolve'
         /\ \A q \in Requests : Backed(q)'
<1>1. /\ pc[r] = "update" /\ ~Pays(r) /\ Finish(r, "ok") /\ UNCHANGED payments
      /\ infraction' = [i \in Infractions |-> TxRow(r, i)]
      /\ command[r] \in Commands /\ Len(loaded[r]) = Len(command[r].ids)
  BY DEF SaveAlone, LInv, TInv, Control, InFlight, Saving
<1>2. Len(command[r].ids) = 1 /\ DOMAIN command[r].ids = 1..1
  BY <1>1, CommandFacts DEF Pays
<1>3. Resolves(loaded[r][1].payment, command[r].ids[1])
  BY <1>1, <1>2 DEF LInv, Backed
<1>4. ASSUME NEW i \in Infractions PROVE Resolves(infraction'[i].payment, i)
  <2>1. CASE "payment" \in dirty[r][i]
    <3>1. i = command[r].ids[1]
      BY <1>2, <2>1 DEF LInv, Backed, Listed
    <3> QED BY <1>1, <1>3, <2>1, <3>1 DEF TxRow, Target
  <2>2. CASE "payment" \notin dirty[r][i]
    BY <1>1, <2>2 DEF TxRow, LInv, LinksResolve, Resolves
  <2> QED BY <2>1, <2>2
<1>5. LinksResolve'
  BY <1>1, <1>4 DEF LinksResolve, Resolves
<1> QED BY <1>1, <1>5, FinishBacked DEF Final

\* A commit links infractions of its own list to a payment that now exists.
LEMMA CommitLinks ==
  ASSUME LInv, NEW r \in Requests, CommitPayment(r)
  PROVE  /\ LinksResolve'
         /\ \A q \in Requests : Backed(q)'
<1> DEFINE new == [id |-> r, number |-> seqRead[r] + 1, lines |-> command[r].ids]
<1>1. /\ pc[r] = "commit" /\ Pays(r) /\ Finish(r, "ok")
      /\ payments' = payments \cup {new}
      /\ infraction' = [i \in Infractions |-> TxRow(r, i)]
  BY DEF CommitPayment, LInv, TInv, Control
<1>2. new.id = r /\ new.lines = command[r].ids
  OBVIOUS
<1> HIDE DEF new
<1>3. ASSUME NEW i \in Infractions, infraction'[i].payment # NULL
      PROVE \E p \in payments' : /\ p.id = infraction'[i].payment
                                  /\ \E k \in DOMAIN p.lines : p.lines[k] = i
  <2>1. CASE "payment" \in dirty[r][i]
    <3>1. Listed(r, i)
      BY <2>1 DEF LInv, Backed
    <3>2. infraction'[i].payment = r
      BY <1>1, <2>1 DEF TxRow, Target
    <3> QED BY <1>1, <1>2, <3>1, <3>2 DEF Listed
  <2>2. CASE "payment" \notin dirty[r][i]
    <3>1. infraction'[i].payment = infraction[i].payment
      BY <1>1, <2>2 DEF TxRow
    <3> QED BY <1>1, <1>3, <3>1 DEF LInv, LinksResolve
  <2> QED BY <2>1, <2>2
<1>4. LinksResolve'
  BY <1>3 DEF LinksResolve
<1> QED BY <1>1, <1>4, FinishBacked DEF Final

\* Payments are made by requests that have been answered with success.
LEMMA MadeByAnswered == LInv /\ TInv' /\ [Next]_vars => \A p \in payments' : pc'[p.id] = "ok"
<1> SUFFICES ASSUME LInv, TInv', [Next]_vars PROVE \A p \in payments' : pc'[p.id] = "ok"
  OBVIOUS
<1>1. \A p \in payments : p.id \in Requests /\ pc[p.id] = "ok"
  BY DEF LInv, TInv, TypeOK
<1>2. ASSUME NEW r \in Requests, Begin(r) \/ Step(r) \/ Fail(r)
      PROVE \A q \in Requests : pc[q] = "ok" => pc'[q] = "ok"
  BY <1>2 DEF Begin, Step, Fail, Read, LockSequence, FindNoSequence, InitSequence,
              InsertSequence, ResetSequence, SaveSelect, SaveUpdate, SaveAlone,
              CommitPayment, Finish, LInv, TInv, TypeOK, InFlight, Saving
<1>3. ASSUME NEW r \in Requests, CommitPayment(r)
      PROVE \A p \in payments' : pc'[p.id] = "ok"
  <2>1. \A p \in payments' : p \in payments \/ p.id = r
    BY <1>3 DEF CommitPayment
  <2>2. pc'[r] = "ok"
    BY <1>3 DEF CommitPayment, Finish, LInv, TInv, TypeOK
  <2> QED BY <1>1, <1>2, <1>3, <2>1, <2>2 DEF Step
<1>4. ASSUME NEW r \in Requests, Begin(r) \/ Step(r) \/ Fail(r)
      PROVE payments' = payments \/ CommitPayment(r)
  BY <1>4 DEF Begin, Step, Fail, Read, LockSequence, FindNoSequence, InitSequence,
              InsertSequence, ResetSequence, SaveSelect, SaveUpdate, SaveAlone, tables
<1>5. ASSUME NEW i \in Infractions, CreateInfraction(i) \/ CreateTentative(i)
      PROVE UNCHANGED <<payments, pc>>
  BY <1>5 DEF CreateInfraction, CreateTentative
<1>6. CASE AnnulTentatives \/ Terminated \/ UNCHANGED vars
  BY <1>1, <1>6 DEF AnnulTentatives, Terminated, vars, tables
<1> QED BY <1>1, <1>2, <1>3, <1>4, <1>5, <1>6 DEF Next

\* The link invariant is inductive.
LEMMA LinksNext == LInv /\ [Next]_vars => LInv'
<1> SUFFICES ASSUME LInv, [Next]_vars PROVE LInv'
  OBVIOUS
<1>0. TInv /\ TInv' /\ \A p \in payments' : pc'[p.id] = "ok"
  BY TypeNext, MadeByAnswered DEF LInv
<1> SUFFICES LinksResolve' /\ \A q \in Requests : Backed(q)'
  BY <1>0 DEF LInv
<1>1. CASE /\ UNCHANGED <<payments, pc, memory>>
           /\ \A i \in Infractions : infraction'[i].payment = infraction[i].payment
  BY <1>1, SameLinks, OthersBacked DEF memory
<1>2. ASSUME NEW i \in Infractions, CreateInfraction(i) \/ CreateTentative(i)
      PROVE  LinksResolve' /\ \A q \in Requests : Backed(q)'
  <2>1. /\ UNCHANGED <<payments, pc, memory>>
        /\ \E s \in Statuses : infraction' = [infraction EXCEPT ![i].status = s]
    BY <1>2 DEF CreateInfraction, CreateTentative, Statuses
  <2>2. infraction[i] \in Row /\ infraction \in [Infractions -> Row]
    BY <1>0 DEF TInv, TypeOK
  <2>3. ASSUME NEW j \in Infractions PROVE infraction'[j].payment = infraction[j].payment
    BY <2>1, <2>2 DEF Row
  <2> QED BY <1>1, <2>1, <2>3
<1>3. CASE AnnulTentatives
  <2>1. UNCHANGED <<payments, pc, memory>>
    BY <1>3 DEF AnnulTentatives
  <2>2. ASSUME NEW j \in Infractions PROVE infraction'[j].payment = infraction[j].payment
    BY <1>0, <1>3 DEF AnnulTentatives, TInv, TypeOK, Row
  <2> QED BY <1>1, <2>1, <2>2
<1>4. ASSUME NEW r \in Requests, Begin(r)
      PROVE  LinksResolve' /\ \A q \in Requests : Backed(q)'
  <2>1. /\ pc[r] = "idle" /\ pc' = [pc EXCEPT ![r] = "read"]
        /\ UNCHANGED <<infraction, payments, loaded, pos, dirty>>
        /\ \E c \in Commands : command' = [command EXCEPT ![r] = c]
    BY <1>4 DEF Begin, tables
  <2>2. pc'[r] = "read" /\ \A q \in Requests \ {r} : pc'[q] = pc[q] /\ command'[q] = command[q]
    BY <1>0, <2>1 DEF TInv, TypeOK
  <2>3. loaded'[r] = <<>> /\ pos'[r] = 1 /\ \A i \in Infractions : dirty'[r][i] = {}
    BY <1>0, <2>1 DEF LInv, TInv, Control, Backed
  <2>4. Backed(r)'
    BY <2>2, <2>3, EmptySeq DEF Backed
  <2> QED BY <2>1, <2>2, <2>4, SameLinks, OthersBacked
<1>5. ASSUME NEW r \in Requests,
             \/ LockSequence(r) \/ FindNoSequence(r) \/ InitSequence(r) \/ ResetSequence(r)
             \/ InsertSequence(r) /\ ~Finish(r, "error")
      PROVE  LinksResolve' /\ \A q \in Requests : Backed(q)'
  <2>1. /\ UNCHANGED <<infraction, payments, command, loaded, pos, dirty>>
        /\ pc[r] \in Unsaved
        /\ \E l \in Unsaved \cup {"load"} : pc' = [pc EXCEPT ![r] = l]
    BY <1>5 DEF LockSequence, FindNoSequence, InitSequence, InsertSequence, ResetSequence,
                tables, memory, Unsaved
  <2>2. pos[r] = 1 /\ pos'[r] = 1
    BY <2>1 DEF LInv, Backed
  <2>3. /\ pc'[r] \in Unsaved \cup {"load"}
        /\ \A q \in Requests \ {r} : pc'[q] = pc[q]
    BY <1>0, <2>1 DEF TInv, TypeOK
  <2>4. \A k \in 1..Len(loaded[r]) : Resolves(loaded[r][k].payment, command[r].ids[k])'
    BY <2>1, LinksLast DEF LInv, Backed
  <2>5. Backed(r)'
    BY <2>1, <2>2, <2>3, <2>4 DEF LInv, Backed, Listed, Unsaved
  <2> QED BY <2>1, <2>3, <2>5, SameLinks, OthersBacked
<1>6. ASSUME NEW r \in Requests,
             (InsertSequence(r) /\ Finish(r, "error")) \/ Fail(r)
      PROVE  LinksResolve' /\ \A q \in Requests : Backed(q)'
  <2>1. Finish(r, "error") /\ UNCHANGED <<infraction, payments>>
    BY <1>6 DEF InsertSequence, Fail, tables
  <2> QED BY <2>1, SameLinks, FinishBacked DEF Final
<1>7. ASSUME NEW r \in Requests,
             \/ Read(r) \/ SaveSelect(r) \/ SaveUpdate(r) \/ SaveAlone(r) \/ CommitPayment(r)
      PROVE  LinksResolve' /\ \A q \in Requests : Backed(q)'
  BY <1>7, ReadLinks, SaveSelectLinks, SaveUpdateLinks, SaveAloneLinks, CommitLinks
<1>8. CASE Terminated \/ UNCHANGED vars
  BY <1>1, <1>8 DEF Terminated, vars, tables
<1> QED BY <1>2, <1>3, <1>4, <1>5, <1>6, <1>7, <1>8 DEF Next, Step

\* payment_id always resolves to a payment that covers the infraction, whatever
\* stale entities are written back and whatever payments roll back.
THEOREM Links == Spec => []LinksResolve
<1>1. LInv => LinksResolve
  BY DEF LInv
<1> QED BY <1>1, LinksInit, LinksNext, PTL DEF Spec

\* Only a commit adds a payment, that of its own list.
LEMMA OnlyCommitPays ==
  ASSUME [Next]_vars, NEW p \in payments' \ payments
  PROVE  \E r \in Requests : CommitPayment(r) /\ p.id = r /\ p.lines = command[r].ids
<1>1. CASE UNCHANGED payments
  BY <1>1
<1>2. ASSUME NEW r \in Requests, ~CommitPayment(r), Begin(r) \/ Step(r) \/ Fail(r)
      PROVE UNCHANGED payments
  BY <1>2 DEF Begin, Step, Fail, Read, LockSequence, FindNoSequence, InitSequence,
              InsertSequence, ResetSequence, SaveSelect, SaveUpdate, SaveAlone, tables
<1>3. ASSUME NEW i \in Infractions, CreateInfraction(i) \/ CreateTentative(i)
      PROVE UNCHANGED payments
  BY <1>3 DEF CreateInfraction, CreateTentative
<1>4. CASE AnnulTentatives \/ Terminated \/ UNCHANGED vars
  BY <1>4 DEF AnnulTentatives, Terminated, vars, tables
<1>5. PICK r \in Requests : CommitPayment(r)
  BY <1>1, <1>2, <1>3, <1>4 DEF Next
<1> QED BY <1>5 DEF CommitPayment

\* By the time a payment is added its whole list is linked.
LEMMA SettledStep ==
  ASSUME LInv, [Next]_vars, NEW p \in payments' \ payments
  PROVE  \A k \in DOMAIN p.lines : infraction'[p.lines[k]].payment = p.id
<1>1. PICK r \in Requests : CommitPayment(r) /\ p.id = r /\ p.lines = command[r].ids
  BY OnlyCommitPays
<1>2. p.id = r /\ p.lines = command[r].ids
  BY <1>1
<1>3. pc[r] = "commit" /\ Pays(r) /\ command[r] \in Commands
  BY <1>1 DEF CommitPayment, LInv, TInv, Control
<1> SUFFICES ASSUME NEW k \in DOMAIN command[r].ids
             PROVE  infraction'[command[r].ids[k]].payment = r
  BY <1>2
<1>4. k \in 1..Len(command[r].ids) /\ command[r].ids[k] \in Infractions
  BY <1>3, CommandFacts
<1>5. "payment" \in dirty[r][command[r].ids[k]]
  BY <1>3, <1>4 DEF LInv, Backed, Linked
<1>6. infraction' = [i \in Infractions |-> TxRow(r, i)]
  BY <1>1 DEF CommitPayment
<1> QED BY <1>3, <1>4, <1>5, <1>6 DEF TxRow, Target

\* The step that makes a payment visible links every infraction of its list.
THEOREM Settled == Spec => SettledTogether
<1>1. LInv /\ [Next]_vars =>
        [\A p \in payments' \ payments :
           \A k \in DOMAIN p.lines : infraction'[p.lines[k]].payment = p.id]_vars
  BY SettledStep
<1> QED BY <1>1, LinksInit, LinksNext, PTL DEF Spec, SettledTogether

-----------------------------------------------------------------------------
(* What is charged twice, however requests overlap.  A payment goes by what *)
(* it has read; if the row is what was read, the check it made of it holds  *)
(* when it commits, since the row is locked from its UPDATE on.             *)

Unpaid == {"ABSENT", "TENTATIVE", "PENDING"}

\* An infraction that may still be charged has not been.
Owed(i) == i \notin overwritten /\ infraction[i].status \in Unpaid => ~Charged(i)

\* The k-th infraction of r will not be owed any more when r commits.
Handled(r, k) ==
  \/ "status" \in dirty[r][command[r].ids[k]]
  \/ command[r].ids[k] \in overwritten
  \/ infraction[command[r].ids[k]].status \notin Unpaid

\* What r has accepted, and how far its saves have come.
Checked(r) ==
  /\ pc[r] \in InFlight \ {"read"} =>
       \A k \in 1..Len(command[r].ids) : Accepts(command[r].kind, loaded[r][k])
  /\ Pays(r) /\ pc[r] = "load" => \A k \in 1..(pos[r] - 1) : Handled(r, k)
  /\ Pays(r) /\ pc[r] = "update" => \A k \in 1..pos[r] : Handled(r, k)
  /\ Pays(r) /\ pc[r] = "commit" => \A k \in 1..Len(command[r].ids) : Handled(r, k)

CInv ==
  /\ LInv
  /\ \A i \in Infractions : Owed(i)
  /\ \A r \in Requests : Checked(r)

\* No row is owed again, but by a save that overwrites what it has not read.
NeverBack ==
  /\ overwritten \subseteq overwritten'
  /\ \A i \in Infractions \ overwritten' :
       infraction[i].status \notin Unpaid => infraction'[i].status \notin Unpaid

\* Nothing is charged when the server starts.
LEMMA ChargesInit == Init => CInv
<1> SUFFICES ASSUME Init PROVE CInv
  OBVIOUS
<1>1. LInv
  BY LinksInit
<1>2. \A i \in Infractions : Owed(i)
  BY DEF Init, Owed, Charged
<1>3. \A r \in Requests : Checked(r)
  BY DEF Init, Checked, InFlight, Saving
<1> QED BY <1>1, <1>2, <1>3 DEF CInv

\* The infractions of a list, and what was read of them.
LEMMA ListFacts ==
  ASSUME LInv, NEW r \in Requests, pc[r] \in InFlight
  PROVE  /\ command[r] \in Commands
         /\ Len(command[r].ids) \in Nat \ {0}
         /\ DOMAIN command[r].ids = 1..Len(command[r].ids)
         /\ \A k \in 1..Len(command[r].ids) : command[r].ids[k] \in Infractions
         /\ pos[r] \in 1..Len(command[r].ids)
         /\ ~Pays(r) => Len(command[r].ids) = 1
<1>1. command[r] \in Commands
  BY DEF LInv, TInv, TypeOK, Control, InFlight, Saving
<1>2. /\ Len(command[r].ids) \in Nat \ {0}
      /\ DOMAIN command[r].ids = 1..Len(command[r].ids)
      /\ \A k \in 1..Len(command[r].ids) : command[r].ids[k] \in Infractions
      /\ command[r].kind # "PAY_MULTIPLE" => Len(command[r].ids) = 1
  BY <1>1, CommandFacts
<1>3. pos[r] \in 1..Len(command[r].ids)
  BY DEF LInv, TInv, Control
<1> QED BY <1>1, <1>2, <1>3 DEF Pays

\* What r has accepted of a row that it has not missed is the row.
LEMMA AcceptedRow ==
  ASSUME CInv, NEW r \in Requests, pc[r] \in InFlight \ {"read"},
         NEW k \in 1..Len(command[r].ids), command[r].ids[k] \notin Missed(r)
  PROVE  Accepts(command[r].kind, infraction[command[r].ids[k]])
<1>1. /\ DOMAIN command[r].ids = 1..Len(command[r].ids)
      /\ command[r].ids[k] \in Infractions
  BY ListFacts DEF CInv
<1>2. loaded[r][k] = infraction[command[r].ids[k]]
  BY <1>1 DEF Missed
<1> QED BY <1>2 DEF CInv, Checked

\* The save of one infraction: only a confirmation leaves it PENDING, and what it
\* confirms was TENTATIVE, or is overwritten.
LEMMA AloneCharges ==
  ASSUME CInv, NEW r \in Requests, SaveAlone(r)
  PROVE  NeverBack /\ \A i \in Infractions : Owed(i)'
<1>1. /\ pc[r] = "update" /\ ~Pays(r) /\ UNCHANGED payments
      /\ infraction' = [i \in Infractions |-> TxRow(r, i)]
      /\ overwritten' = overwritten \cup Missed(r)
  BY DEF SaveAlone
<1>2. Len(command[r].ids) = 1 /\ DOMAIN command[r].ids = 1..1
  BY <1>1, ListFacts DEF CInv, InFlight, Saving
<1>3. ASSUME NEW i \in Infractions, i \notin overwritten'
      PROVE  /\ infraction[i].status \notin Unpaid => infraction'[i].status \notin Unpaid
             /\ Owed(i)'
  <2>1. CASE "status" \in dirty[r][i]
    <3>1. i = command[r].ids[1]
      BY <1>2, <2>1 DEF CInv, LInv, Backed, Listed
    <3>2. infraction'[i].status = TargetStatus(r)
      BY <1>1, <2>1 DEF TxRow, Target
    <3>3. CASE command[r].kind = "CONVALIDATE_LATE"
      <4>1. i \notin Missed(r) /\ i \notin overwritten
        BY <1>1, <1>3
      <4>2. Accepts("CONVALIDATE_LATE", infraction[i])
        BY <1>1, <1>2, <3>1, <3>3, <4>1, AcceptedRow DEF InFlight, Saving
      <4>3. infraction[i].status = "TENTATIVE"
        BY <4>2 DEF Accepts
      <4> QED BY <1>1, <4>1, <4>3 DEF CInv, Owed, Charged, Unpaid
    <3>4. CASE command[r].kind # "CONVALIDATE_LATE"
      BY <1>1, <3>2, <3>4 DEF TargetStatus, Owed, Unpaid
    <3> QED BY <3>3, <3>4
  <2>2. CASE "status" \notin dirty[r][i]
    <3>1. infraction'[i].status = infraction[i].status
      BY <1>1, <2>2 DEF TxRow
    <3> QED BY <1>1, <3>1 DEF CInv, Owed, Charged
  <2> QED BY <2>1, <2>2
<1> QED BY <1>1, <1>3 DEF NeverBack, Owed

\* A payment leaves none of its infractions owed.
LEMMA CommitCharges ==
  ASSUME CInv, NEW r \in Requests, CommitPayment(r)
  PROVE  NeverBack /\ \A i \in Infractions : Owed(i)'
<1> DEFINE new == [id |-> r, number |-> seqRead[r] + 1, lines |-> command[r].ids]
<1>1. /\ pc[r] = "commit" /\ Pays(r)
      /\ payments' = payments \cup {new}
      /\ infraction' = [i \in Infractions |-> TxRow(r, i)]
      /\ overwritten' = overwritten \cup Missed(r)
  BY DEF CommitPayment, CInv, LInv, TInv, Control
<1>2. new.lines = command[r].ids
  OBVIOUS
<1> HIDE DEF new
<1>3. /\ DOMAIN command[r].ids = 1..Len(command[r].ids)
      /\ \A k \in 1..Len(command[r].ids) : command[r].ids[k] \in Infractions
  BY <1>1, ListFacts DEF CInv, InFlight, Saving
<1>4. ASSUME NEW i \in Infractions
      PROVE  \/ infraction'[i].status = "PAID"
             \/ infraction'[i].status = infraction[i].status
  BY <1>1 DEF TxRow, Target, TargetStatus
<1>5. ASSUME NEW i \in Infractions, i \notin overwritten', infraction'[i].status \in Unpaid
      PROVE  ~Charged(i)'
  <2>1. infraction'[i].status = infraction[i].status /\ "status" \notin dirty[r][i]
    BY <1>1, <1>4, <1>5 DEF Unpaid, TxRow, Target, TargetStatus
  <2>2. ~Charged(i)
    BY <1>1, <1>5, <2>1 DEF CInv, Owed
  <2>3. ASSUME NEW k \in DOMAIN command[r].ids PROVE command[r].ids[k] # i
    BY <1>1, <1>3, <1>5, <2>1, <2>3 DEF CInv, Checked, Handled
  <2> QED BY <1>1, <1>2, <2>2, <2>3 DEF Charged
<1>6. \A i \in Infractions : Owed(i)'
  BY <1>5 DEF Owed
<1> QED BY <1>1, <1>4, <1>6 DEF NeverBack, Unpaid

\* A step that writes no infraction, or settles TENTATIVE ones, or makes new ones.
LEMMA BesideCharges ==
  ASSUME CInv, UNCHANGED <<payments, overwritten>>,
         \A i \in Infractions : \/ infraction'[i] = infraction[i]
                                \/ infraction[i].status \in Unpaid
  PROVE  NeverBack /\ \A i \in Infractions : Owed(i)'
BY DEF CInv, NeverBack, Owed, Charged

\* No step takes an infraction back, or leaves one owed that is charged.
LEMMA ChargesStep ==
  ASSUME CInv, [Next]_vars
  PROVE  NeverBack /\ \A i \in Infractions : Owed(i)'
<1>1. CASE UNCHANGED tables
  BY <1>1, BesideCharges DEF tables
<1>2. ASSUME NEW i \in Infractions, CreateInfraction(i) \/ CreateTentative(i)
      PROVE  NeverBack /\ \A j \in Infractions : Owed(j)'
  <2>1. /\ infraction[i].status = "ABSENT" /\ UNCHANGED <<payments, overwritten>>
        /\ \E s \in {"PENDING", "TENTATIVE"} : infraction' = [infraction EXCEPT ![i].status = s]
    BY <1>2 DEF CreateInfraction, CreateTentative
  <2>2. infraction \in [Infractions -> Row]
    BY DEF CInv, LInv, TInv, TypeOK
  <2>3. \A j \in Infractions : j # i => infraction'[j] = infraction[j]
    BY <2>1, <2>2
  <2> QED BY <2>1, <2>3, BesideCharges DEF Unpaid
<1>3. CASE AnnulTentatives
  BY <1>3, BesideCharges DEF AnnulTentatives, Unpaid
<1>4. ASSUME NEW r \in Requests, Begin(r) \/ Step(r) \/ Fail(r)
      PROVE  NeverBack /\ \A j \in Infractions : Owed(j)'
  <2>1. CASE SaveAlone(r)
    BY <2>1, AloneCharges
  <2>2. CASE CommitPayment(r)
    BY <2>2, CommitCharges
  <2>3. CASE ~SaveAlone(r) /\ ~CommitPayment(r)
    BY <1>1, <1>4, <2>3 DEF Begin, Step, Fail, Read, LockSequence, FindNoSequence,
          InitSequence, InsertSequence, ResetSequence, SaveSelect, SaveUpdate
  <2> QED BY <2>1, <2>2, <2>3
<1>5. CASE Terminated \/ UNCHANGED vars
  BY <1>1, <1>5 DEF Terminated, vars
<1> QED BY <1>2, <1>3, <1>4, <1>5 DEF Next

\* Who does nothing has accepted what he had, and his saves hold.
LEMMA KeepsChecked ==
  ASSUME CInv, NeverBack, NEW q \in Requests,
         pc'[q] = pc[q], command'[q] = command[q], loaded'[q] = loaded[q],
         pos'[q] = pos[q], dirty'[q] = dirty[q]
  PROVE  Checked(q)'
<1>1. CASE pc[q] \in InFlight
  <2>1. /\ \A k \in 1..Len(command[q].ids) : command[q].ids[k] \in Infractions
        /\ pos[q] \in 1..Len(command[q].ids) /\ Len(command[q].ids) \in Nat
    BY <1>1, ListFacts DEF CInv
  <2>2. ASSUME NEW k \in 1..Len(command[q].ids), Handled(q, k) PROVE Handled(q, k)'
    BY <2>1, <2>2 DEF Handled, NeverBack
  <2>3. \A k \in 1..pos[q] : k \in 1..Len(command[q].ids)
    BY <2>1
  <2>4. \A k \in 1..(pos[q] - 1) : k \in 1..Len(command[q].ids)
    BY <2>1
  <2> QED BY <2>2, <2>3, <2>4 DEF CInv, Checked, Pays
<1>2. CASE pc[q] \notin InFlight
  BY <1>2 DEF Checked, InFlight, Saving
<1> QED BY <1>1, <1>2

\* Who has ended has accepted nothing.
LEMMA EndsChecked ==
  ASSUME CInv, NEW r \in Requests, NEW outcome \in Final, Finish(r, outcome)
  PROVE  Checked(r)'
<1>1. pc'[r] = outcome
  BY DEF CInv, LInv, TInv, TypeOK, Finish
<1> QED BY <1>1 DEF Checked, Final, InFlight, Saving

\* The answers of findById are accepted together.
LEMMA ReadChecked ==
  ASSUME CInv, LInv', NEW r \in Requests, Read(r)
  PROVE  Checked(r)'
<1> DEFINE rows == Append(loaded[r], infraction[command[r].ids[Len(loaded[r]) + 1]])
<1>1. pc[r] = "read" /\ pc[r] \in InFlight /\ pc \in [Requests -> {"idle"} \cup InFlight \cup Final]
      /\ loaded \in [Requests -> Seq(Row)]
  BY DEF Read, InFlight, CInv, LInv, TInv, TypeOK
<1>2. CASE Finish(r, "rejected")
  BY <1>2, EndsChecked DEF Final
<1>3. CASE UNCHANGED pc
  BY <1>1, <1>3 DEF Checked, InFlight, Saving
<1>4. CASE /\ Len(rows) = Len(command[r].ids)
           /\ \A k \in DOMAIN rows : Accepts(command[r].kind, rows[k])
           /\ loaded' = [loaded EXCEPT ![r] = rows]
           /\ pc' = [pc EXCEPT ![r] = IF Pays(r) THEN "lockSequence" ELSE "load"]
           /\ UNCHANGED <<command, pos, dirty>>
  <2>1. loaded'[r] = rows /\ pc'[r] = IF Pays(r) THEN "lockSequence" ELSE "load"
    BY <1>1, <1>4
  <2>2. loaded'[r] \in Seq(Row)
    BY DEF LInv, TInv, TypeOK
  <2> HIDE DEF rows
  <2>3. DOMAIN rows = 1..Len(command[r].ids)
    BY <1>4, <2>1, <2>2, LenProperties
  <2> QED BY <1>4, <2>1, <2>3 DEF Checked, Pays
<1> QED BY <1>2, <1>3, <1>4 DEF Read, rows

\* Reading the number of the payment comes before the first save.
LEMMA SequenceChecked ==
  ASSUME CInv, NEW r \in Requests,
         \/ LockSequence(r) \/ FindNoSequence(r) \/ InitSequence(r) \/ ResetSequence(r)
         \/ InsertSequence(r)
  PROVE  Checked(r)'
<1>1. CASE InsertSequence(r) /\ Finish(r, "error")
  BY <1>1, EndsChecked DEF Final
<1>2. CASE ~(InsertSequence(r) /\ Finish(r, "error"))
  <2>1. /\ UNCHANGED <<command, loaded, pos, dirty>>
        /\ pc[r] \in Unsaved \ {"read"}
        /\ \E l \in (Unsaved \ {"read"}) \cup {"load"} : pc' = [pc EXCEPT ![r] = l]
    BY <1>2 DEF LockSequence, FindNoSequence, InitSequence, InsertSequence, ResetSequence,
                memory, Unsaved
  <2>2. pc'[r] \in (Unsaved \ {"read"}) \cup {"load"} /\ pos[r] = 1
    BY <2>1 DEF CInv, LInv, TInv, TypeOK, Backed, Unsaved
  <2> QED BY <2>1, <2>2 DEF CInv, Checked, InFlight, Saving, Unsaved
<1> QED BY <1>1, <1>2

\* The SELECT of a save: the status is to be written, unless the row is PAID already.
LEMMA SelectChecked ==
  ASSUME CInv, NEW r \in Requests, SaveSelect(r)
  PROVE  Checked(r)'
<1> DEFINE i == Current(r)
           more == pos[r] < Len(command[r].ids)
<1>1. /\ pc[r] = "load" /\ UNCHANGED <<infraction, overwritten>>
      /\ pos[r] \in 1..Len(command[r].ids) /\ Len(command[r].ids) \in Nat
      /\ i = command[r].ids[pos[r]] /\ i \in Infractions
      /\ \A k \in 1..Len(command[r].ids) : command[r].ids[k] \in Infractions
  BY ListFacts DEF SaveSelect, tables, InFlight, Saving, Current, CInv
<1>2. /\ pc \in [Requests -> {"idle"} \cup InFlight \cup Final]
      /\ pos \in [Requests -> Nat]
      /\ dirty \in [Requests -> [Infractions -> SUBSET Columns]]
  BY DEF CInv, LInv, TInv, TypeOK
<1>3. Pays(r) => \/ "status" \in Changed(r, i) \/ "status" \in dirty[r][i]
                 \/ infraction[i].status \notin Unpaid
  BY DEF Changed, TxRow, Target, TargetStatus, Unpaid
<1>4. CASE Changed(r, i) # {}
  <2>1. /\ dirty' = [dirty EXCEPT ![r][i] = @ \cup Changed(r, i)]
        /\ pc' = [pc EXCEPT ![r] = "update"]
        /\ UNCHANGED <<command, loaded, pos>>
    BY <1>4 DEF SaveSelect
  <2> HIDE DEF i, more
  <2>2. /\ pc'[r] = "update"
        /\ dirty'[r][i] = dirty[r][i] \cup Changed(r, i)
        /\ \A j \in Infractions : j # i => dirty'[r][j] = dirty[r][j]
    BY <1>1, <1>2, <2>1
  <2>3. ASSUME Pays(r), NEW k \in 1..pos[r] PROVE Handled(r, k)'
    <3>1. k \in 1..Len(command[r].ids) /\ command[r].ids[k] \in Infractions
      BY <1>1
    <3>2. CASE command[r].ids[k] = i
      BY <1>1, <1>3, <2>1, <2>2, <2>3, <3>2 DEF Handled
    <3>3. CASE command[r].ids[k] # i
      <4>1. k \in 1..(pos[r] - 1)
        BY <1>1, <3>3
      <4>2. Handled(r, k)
        BY <1>1, <2>3, <4>1 DEF CInv, Checked
      <4> QED BY <1>1, <2>1, <2>2, <3>1, <3>3, <4>2 DEF Handled
    <3> QED BY <3>2, <3>3
  <2> QED BY <1>1, <2>1, <2>2, <2>3 DEF CInv, Checked, Pays, InFlight, Saving
<1>5. CASE Changed(r, i) = {} /\ Pays(r)
  <2>1. /\ pos' = [pos EXCEPT ![r] = IF more THEN @ + 1 ELSE @]
        /\ pc' = [pc EXCEPT ![r] = IF more THEN "load" ELSE "commit"]
        /\ UNCHANGED <<command, loaded, dirty>>
    BY <1>5 DEF SaveSelect
  <2>2. /\ pc'[r] = IF more THEN "load" ELSE "commit"
        /\ pos'[r] = IF more THEN pos[r] + 1 ELSE pos[r]
    BY <1>2, <2>1
  <2>3. \A k \in 1..pos[r] : Handled(r, k)
    <3> TAKE k \in 1..pos[r]
    <3>1. CASE k = pos[r]
      BY <1>1, <1>3, <1>5, <3>1 DEF Handled
    <3>2. CASE k # pos[r]
      <4>1. k \in 1..(pos[r] - 1)
        BY <1>1, <3>2
      <4> QED BY <1>1, <1>5, <4>1 DEF CInv, Checked
    <3> QED BY <3>1, <3>2
  <2>4. \A k \in 1..pos[r] : Handled(r, k)'
    BY <1>1, <2>1, <2>3 DEF Handled
  <2>5. pc'[r] = "commit" => pos[r] = Len(command[r].ids)
    BY <1>1, <2>2
  <2>6. pc'[r] = "load" => \A k \in 1..(pos'[r] - 1) : k \in 1..pos[r]
    BY <1>1, <2>2
  <2>7. \A k \in 1..Len(command[r].ids) : Accepts(command[r].kind, loaded[r][k])
    BY <1>1 DEF CInv, Checked, InFlight, Saving
  <2> HIDE DEF more
  <2>8. pc'[r] \in {"load", "commit"}
    BY <2>2
  <2> QED BY <2>1, <2>4, <2>5, <2>6, <2>7, <2>8 DEF Checked, Pays
<1>6. CASE Finish(r, "ok")
  BY <1>6, EndsChecked DEF Final
<1> QED BY <1>4, <1>5, <1>6 DEF SaveSelect

\* The UPDATE of a payment's save.
LEMMA UpdateChecked ==
  ASSUME CInv, NEW r \in Requests, SaveUpdate(r)
  PROVE  Checked(r)'
<1> DEFINE more == pos[r] < Len(command[r].ids)
<1>1. /\ pc[r] = "update" /\ Pays(r) /\ UNCHANGED <<infraction, overwritten>>
      /\ pos' = [pos EXCEPT ![r] = IF more THEN @ + 1 ELSE @]
      /\ pc' = [pc EXCEPT ![r] = IF more THEN "load" ELSE "commit"]
      /\ UNCHANGED <<command, loaded, dirty>>
  BY DEF SaveUpdate, tables
<1>2. pos[r] \in 1..Len(command[r].ids) /\ Len(command[r].ids) \in Nat
  BY <1>1, ListFacts DEF CInv, InFlight, Saving
<1>3. /\ pc'[r] = IF more THEN "load" ELSE "commit"
      /\ pos'[r] = IF more THEN pos[r] + 1 ELSE pos[r]
  BY <1>1 DEF CInv, LInv, TInv, TypeOK
<1>4. \A k \in 1..pos[r] : Handled(r, k)'
  BY <1>1 DEF CInv, Checked, Handled
<1>5. pc'[r] = "commit" => pos[r] = Len(command[r].ids)
  BY <1>2, <1>3
<1>6. pc'[r] = "load" => \A k \in 1..(pos'[r] - 1) : k \in 1..pos[r]
  BY <1>2, <1>3
<1>7. \A k \in 1..Len(command[r].ids) : Accepts(command[r].kind, loaded[r][k])
  BY <1>1 DEF CInv, Checked, InFlight, Saving
<1> HIDE DEF more
<1>8. pc'[r] \in {"load", "commit"}
  BY <1>3
<1> QED BY <1>1, <1>4, <1>5, <1>6, <1>7, <1>8 DEF Checked, Pays

\* The invariant of the charges is inductive, however requests overlap.
LEMMA ChargesNext == CInv /\ [Next]_vars => CInv'
<1> SUFFICES ASSUME CInv, [Next]_vars PROVE CInv'
  OBVIOUS
<1>1. LInv' /\ NeverBack /\ \A i \in Infractions : Owed(i)'
  BY LinksNext, ChargesStep DEF CInv
<1> SUFFICES ASSUME NEW q \in Requests PROVE Checked(q)'
  BY <1>1 DEF CInv
<1>2. CASE /\ pc'[q] = pc[q] /\ command'[q] = command[q] /\ loaded'[q] = loaded[q]
           /\ pos'[q] = pos[q] /\ dirty'[q] = dirty[q]
  BY <1>1, <1>2, KeepsChecked
<1>3. CASE \/ \E i \in Infractions : CreateInfraction(i) \/ CreateTentative(i)
           \/ AnnulTentatives \/ Terminated \/ UNCHANGED vars
  BY <1>2, <1>3 DEF CreateInfraction, CreateTentative, AnnulTentatives, Terminated, vars, memory
<1>4. ASSUME NEW r \in Requests, Begin(r) \/ Step(r) \/ Fail(r) PROVE Checked(q)'
  <2>1. CASE q # r
    <3>1. TypeOK
      BY DEF CInv, LInv, TInv
    <3> QED BY <1>2, <1>4, <2>1, <3>1 DEF TypeOK, Begin, Step, Fail, Read, LockSequence,
          FindNoSequence, InitSequence, InsertSequence, ResetSequence, SaveSelect, SaveUpdate,
          SaveAlone, CommitPayment, Finish, memory
  <2>2. CASE q = r /\ Begin(r)
    <3>1. pc'[r] = "read"
      BY <2>2 DEF Begin, CInv, LInv, TInv, TypeOK
    <3> QED BY <2>2, <3>1 DEF Checked
  <2>3. CASE q = r /\ Step(r)
    BY <1>1, <2>3, ReadChecked, SequenceChecked, SelectChecked, UpdateChecked, EndsChecked
       DEF Step, SaveAlone, CommitPayment, Final
  <2>4. CASE q = r /\ Fail(r)
    BY <2>4, EndsChecked DEF Fail, Final
  <2> QED BY <1>4, <2>1, <2>2, <2>3, <2>4
<1> QED BY <1>3, <1>4 DEF Next

\* However requests overlap and fail, what is still owed has been charged by no
\* payment, unless a save has overwritten what its request had not read.
THEOREM OwedIsUncharged == Spec => []OwedUncharged
<1>1. CInv => OwedUncharged
  BY DEF CInv, Owed, Unpaid, OwedUncharged
<1> QED BY <1>1, ChargesInit, ChargesNext, PTL DEF Spec

\* The only ways to a second charge: the annulment of what was paid, or a save that
\* overwrites what its request had not read.
THEOREM RechargedWhen == Spec => RechargedOnlyAnnulled
<1>1. CInv /\ [Next]_vars =>
        [\A p \in payments' \ payments : \A k \in DOMAIN p.lines :
           Charged(p.lines[k]) => \/ p.lines[k] \in overwritten'
                                  \/ infraction[p.lines[k]].status = "ANNULLED"]_vars
  <2> SUFFICES ASSUME CInv, [Next]_vars, NEW p \in payments' \ payments,
                      NEW k \in DOMAIN p.lines, Charged(p.lines[k]),
                      p.lines[k] \notin overwritten'
               PROVE  infraction[p.lines[k]].status = "ANNULLED"
    OBVIOUS
  <2>1. PICK r \in Requests : CommitPayment(r) /\ p.lines = command[r].ids
    BY OnlyCommitPays
  <2>2. /\ pc[r] = "commit" /\ command[r].kind \in {"PAY", "PAY_MULTIPLE"}
        /\ overwritten' = overwritten \cup Missed(r)
    BY <2>1 DEF CommitPayment, CInv, LInv, TInv, Control, Pays
  <2>3. k \in 1..Len(command[r].ids) /\ command[r].ids[k] \in Infractions
    BY <2>1, <2>2, ListFacts DEF CInv, InFlight, Saving
  <2>4. Accepts(command[r].kind, infraction[command[r].ids[k]])
    BY <2>1, <2>2, <2>3, AcceptedRow DEF InFlight, Saving
  <2>5. infraction[command[r].ids[k]].status \notin Unpaid
    BY <2>1, <2>2, <2>3 DEF CInv, Owed
  <2>6. infraction[command[r].ids[k]] \in Row
    BY <2>3 DEF CInv, LInv, TInv, TypeOK
  <2> QED BY <2>1, <2>2, <2>4, <2>5, <2>6 DEF Accepts, Unpaid, Row, Statuses
<1> QED BY <1>1, ChargesInit, ChargesNext, PTL DEF Spec, RechargedOnlyAnnulled
=============================================================================

------------------------- MODULE InfractionPayments -------------------------
(***************************************************************************)
(* Infractions of one tenant, the payments that settle them and the        *)
(* PAYMENT_RECEIPT sequence that numbers the payments, as the concurrent   *)
(* request handlers of the API change them in PostgreSQL (READ COMMITTED). *)
(*                                                                         *)
(* A handler loads an infraction, checks it in memory and later saves the  *)
(* whole entity.  TypeORM's save is a SELECT, a comparison with the entity *)
(* in memory and an UPDATE of the columns that differ, so the check, the   *)
(* SELECT and the UPDATE are three steps here.  What a transaction writes  *)
(* is visible to the others when it commits; until then its row locks make *)
(* the other writers of the row wait.                                      *)
(*                                                                         *)
(* A payment is named by the request that inserts it.  Amounts, wording    *)
(* and the audit log are left out; requests for another tenant's rows end  *)
(* in FORBIDDEN and change nothing, and are left out too.                  *)
(***************************************************************************)
EXTENDS Naturals, Sequences, FiniteSets

CONSTANTS Infractions,    \* identifiers of infraction rows
          Requests,       \* API requests, each of which runs one command
          Kinds,          \* the commands the clients send
          MaxBatch,       \* longest list of a pay-multiple request
          MaxInFlight,    \* requests the server works on at the same time
          SequenceSeeded, \* does the PAYMENT_RECEIPT row exist beforehand?
          NULL

AllKinds == {"PAY", "PAY_MULTIPLE", "ANNUL", "CONVALIDATE_LATE", "CONVALIDATE_ON_TIME"}

ASSUME PaymentAssumptions ==
  /\ NULL \notin Requests
  /\ NULL \notin Nat
  /\ Kinds \subseteq AllKinds
  /\ MaxBatch \in Nat \ {0}
  /\ MaxInFlight \in Nat \ {0}
  /\ SequenceSeeded \in BOOLEAN

VARIABLES infraction,   \* the committed infractions table
          payments,     \* the committed payments table
          sequence,     \* committed current_value of PAYMENT_RECEIPT, NULL if no row
          overwritten,  \* history: rows somebody saved without having read what they held
          sequenceLock, \* the transaction that holds the row (or its key)
          rowLock,      \* the transaction that has an uncommitted UPDATE of the row
          pc,           \* where each request is
          command,      \* what each request was asked for
          loaded,       \* the entities a request has loaded, in list order
          pos,          \* the entity of the list that is being saved
          dirty,        \* columns a request writes with its UPDATEs
          seqRead       \* paymentSequence.currentValue in a request's memory

tables == <<infraction, payments, sequence, overwritten>>
locks  == <<sequenceLock, rowLock>>
memory == <<command, loaded, pos, dirty, seqRead>>
vars   == <<tables, locks, pc, memory>>

-----------------------------------------------------------------------------
Statuses == {"TENTATIVE", "PENDING", "PAID", "ANNULLED"}
Columns  == {"status", "payment"}

\* "ABSENT" stands for a row that has not been inserted.
Row == [status : Statuses \cup {"ABSENT"}, payment : Requests \cup {NULL}]

Batches == UNION {[1..n -> Infractions] : n \in 1..MaxBatch}
Singles == [1..1 -> Infractions]

Commands == {c \in [kind : Kinds, ids : Batches] :
               c.kind # "PAY_MULTIPLE" => c.ids \in Singles}
NoCommand == [kind |-> "NONE", ids |-> <<>>]

Final    == {"ok", "rejected", "error"}
Saving   == {"load", "update", "commit"} \* a paying request has the sequence row
InFlight == {"read", "lockSequence", "initSequence", "insertSequence",
             "resetSequence"} \cup Saving

Pays(r) == command[r].kind \in {"PAY", "PAY_MULTIPLE"}

\* Faulty variant: a correction is refused only of what was annulled.
CorrectsAnything(kind, row) ==
  CASE kind = "PAY"          -> row.status \notin {"ABSENT", "PAID"}
    [] kind = "PAY_MULTIPLE" -> row.status = "PENDING"
    [] OTHER                 -> row.status \notin {"ABSENT", "ANNULLED"}

\* Faulty variant: the batch handler refuses only what was annulled.
BatchOfAnything(kind, row) ==
  CASE kind = "PAY"          -> row.status \notin {"ABSENT", "PAID"}
    [] kind = "PAY_MULTIPLE" -> row.status \notin {"ABSENT", "ANNULLED"}
    [] kind = "ANNUL"        -> row.status \notin {"ABSENT", "ANNULLED"}
    [] OTHER                 -> row.status = "TENTATIVE"

\* The check each handler makes on an entity it has loaded.
Accepts(kind, row) ==
  CASE kind = "PAY"          -> row.status \notin {"ABSENT", "PAID"}
    [] kind = "PAY_MULTIPLE" -> row.status = "PENDING"
    [] kind = "ANNUL"        -> row.status \notin {"ABSENT", "ANNULLED"}
    [] OTHER                 -> row.status = "TENTATIVE"

\* Faulty variant: the status of a cancelled round, which infractions lack.
WrongEnum(r) ==
  IF Pays(r) THEN "PAID"
  ELSE IF command[r].kind = "CONVALIDATE_LATE" THEN "PENDING" ELSE "CANCELLED"

TargetStatus(r) ==
  IF Pays(r) THEN "PAID"
  ELSE IF command[r].kind = "CONVALIDATE_LATE" THEN "PENDING" ELSE "ANNULLED"

\* The entity as the handler leaves it in memory before it saves it.
Target(r) == [status  |-> TargetStatus(r),
              payment |-> IF Pays(r) THEN r ELSE loaded[r][1].payment]

\* The row as the transaction of r sees it: committed, under its own writes.
TxRow(r, i) ==
  [status  |-> IF "status" \in dirty[r][i] THEN Target(r).status ELSE infraction[i].status,
   payment |-> IF "payment" \in dirty[r][i] THEN Target(r).payment ELSE infraction[i].payment]

\* The columns save finds different from the entity in memory.
Changed(r, i) ==
  (IF TxRow(r, i).status # Target(r).status THEN {"status"} ELSE {}) \cup
  (IF TxRow(r, i).payment # Target(r).payment THEN {"payment"} ELSE {})

Current(r) == command[r].ids[pos[r]]

\* The rows r writes over a state it has not read.
Missed(r) ==
  {i \in Infractions : \E k \in DOMAIN command[r].ids :
     command[r].ids[k] = i /\ loaded[r][k] # infraction[i]}

\* Faulty variant: the query runner is not released.
KeepsSequence(r, outcome) ==
  /\ pc' = [pc EXCEPT ![r] = outcome]
  /\ rowLock' = [i \in Infractions |-> IF rowLock[i] = r THEN NULL ELSE rowLock[i]]
  /\ loaded' = [loaded EXCEPT ![r] = <<>>]
  /\ pos' = [pos EXCEPT ![r] = 1]
  /\ dirty' = [dirty EXCEPT ![r] = [i \in Infractions |-> {}]]
  /\ seqRead' = [seqRead EXCEPT ![r] = 0]
  /\ UNCHANGED <<command, sequenceLock>>

\* Ending a request, by answer or rollback, releases what it holds.
Finish(r, outcome) ==
  /\ pc' = [pc EXCEPT ![r] = outcome]
  /\ sequenceLock' = IF sequenceLock = r THEN NULL ELSE sequenceLock
  /\ rowLock' = [i \in Infractions |-> IF rowLock[i] = r THEN NULL ELSE rowLock[i]]
  /\ loaded' = [loaded EXCEPT ![r] = <<>>]
  /\ pos' = [pos EXCEPT ![r] = 1]
  /\ dirty' = [dirty EXCEPT ![r] = [i \in Infractions |-> {}]]
  /\ seqRead' = [seqRead EXCEPT ![r] = 0]
  /\ UNCHANGED command

-----------------------------------------------------------------------------
Init ==
  /\ infraction = [i \in Infractions |-> [status |-> "ABSENT", payment |-> NULL]]
  /\ payments = {}
  /\ sequence = IF SequenceSeeded THEN 0 ELSE NULL
  /\ overwritten = {}
  /\ sequenceLock = NULL
  /\ rowLock = [i \in Infractions |-> NULL]
  /\ pc = [r \in Requests |-> "idle"]
  /\ command = [r \in Requests |-> NoCommand]
  /\ loaded = [r \in Requests |-> <<>>]
  /\ pos = [r \in Requests |-> 1]
  /\ dirty = [r \in Requests |-> [i \in Infractions |-> {}]]
  /\ seqRead = [r \in Requests |-> 0]

\* An inspector or the satellite fines the vehicle.
CreateInfraction(i) ==
  /\ infraction[i].status = "ABSENT"
  /\ infraction' = [infraction EXCEPT ![i].status = "PENDING"]
  /\ UNCHANGED <<payments, sequence, overwritten, locks, pc, memory>>

\* The driver's app reports a late checkpoint: a fine yet to be confirmed.
CreateTentative(i) ==
  /\ infraction[i].status = "ABSENT"
  /\ infraction' = [infraction EXCEPT ![i].status = "TENTATIVE"]
  /\ UNCHANGED <<payments, sequence, overwritten, locks, pc, memory>>

\* UPDATE ... SET status = ANNULLED WHERE status = TENTATIVE, when a ticket is
\* closed and at the midnight reset: one statement, which waits for locked rows.
AnnulTentatives ==
  LET open == {i \in Infractions : infraction[i].status = "TENTATIVE"} IN
  /\ open # {}
  /\ \A i \in open : rowLock[i] = NULL
  /\ infraction' = [i \in Infractions |->
                      IF i \in open THEN [infraction[i] EXCEPT !.status = "ANNULLED"]
                                    ELSE infraction[i]]
  /\ UNCHANGED <<payments, sequence, overwritten, locks, pc, memory>>

Begin(r) ==
  /\ pc[r] = "idle"
  /\ Cardinality({q \in Requests : pc[q] \in InFlight}) < MaxInFlight
  /\ \E c \in Commands : command' = [command EXCEPT ![r] = c]
  /\ pc' = [pc EXCEPT ![r] = "read"]
  /\ UNCHANGED <<tables, locks, loaded, pos, dirty, seqRead>>

\* findById, one query per infraction of the list (the queries run side by side;
\* they are answered in list order here, and lists come in every order).  The
\* checks follow the last answer, before any transaction starts.
Read(r) ==
  LET ids  == command[r].ids
      rows == Append(loaded[r], infraction[ids[Len(loaded[r]) + 1]])
      accepted == \A k \in DOMAIN rows : Accepts(command[r].kind, rows[k])
  IN
  /\ pc[r] = "read"
  /\ \/ /\ Len(rows) < Len(ids)
        /\ loaded' = [loaded EXCEPT ![r] = rows]
        /\ UNCHANGED <<locks, pc, command, pos, dirty, seqRead>>
     \/ /\ Len(rows) = Len(ids)
        /\ accepted
        /\ loaded' = [loaded EXCEPT ![r] = rows]
        /\ pc' = [pc EXCEPT ![r] = IF Pays(r) THEN "lockSequence" ELSE "load"]
        /\ UNCHANGED <<locks, command, pos, dirty, seqRead>>
     \/ /\ Len(rows) = Len(ids)
        /\ ~accepted
        /\ Finish(r, "rejected")
  /\ UNCHANGED tables

\* Faulty variant: the sequence is read without FOR UPDATE.
ReadWithoutLock(r) ==
  /\ pc[r] = "lockSequence"
  /\ sequence # NULL
  /\ seqRead' = [seqRead EXCEPT ![r] = sequence]
  /\ pc' = [pc EXCEPT ![r] = "load"]
  /\ UNCHANGED <<tables, sequenceLock, rowLock, command, loaded, pos, dirty>>

\* SELECT ... FOR UPDATE on the sequence row: waits for the lock and reads the
\* latest committed value.
LockSequence(r) ==
  /\ pc[r] = "lockSequence"
  /\ sequence # NULL
  /\ sequenceLock = NULL
  /\ sequenceLock' = r
  /\ seqRead' = [seqRead EXCEPT ![r] = sequence]
  /\ pc' = [pc EXCEPT ![r] = "load"]
  /\ UNCHANGED <<tables, rowLock, command, loaded, pos, dirty>>

\* The same query finds no row: an uncommitted INSERT of another request is
\* invisible to it and does not make it wait.
FindNoSequence(r) ==
  /\ pc[r] = "lockSequence"
  /\ sequence = NULL
  /\ pc' = [pc EXCEPT ![r] = "initSequence"]
  /\ UNCHANGED <<tables, locks, memory>>

\* save(new DocumentSequenceEntity) looks its key up first.  A row committed
\* meanwhile holds 1 or more, so it differs from the 0 in memory.
InitSequence(r) ==
  /\ pc[r] = "initSequence"
  /\ pc' = [pc EXCEPT ![r] = IF sequence = NULL THEN "insertSequence" ELSE "resetSequence"]
  /\ UNCHANGED <<tables, locks, memory>>

\* INSERT waits for another uncommitted INSERT of the key, and fails if the key
\* was committed.  The FOR UPDATE query that follows reads the request's own row.
InsertSequence(r) ==
  /\ pc[r] = "insertSequence"
  /\ sequenceLock = NULL
  /\ \/ /\ sequence = NULL
        /\ sequenceLock' = r
        /\ seqRead' = [seqRead EXCEPT ![r] = 0]
        /\ pc' = [pc EXCEPT ![r] = "load"]
        /\ UNCHANGED <<rowLock, command, loaded, pos, dirty>>
     \/ /\ sequence # NULL
        /\ Finish(r, "error")
  /\ UNCHANGED tables

\* UPDATE ... SET current_value = 0 of a row that another request created.
ResetSequence(r) ==
  /\ pc[r] = "resetSequence"
  /\ sequenceLock = NULL
  /\ sequenceLock' = r
  /\ seqRead' = [seqRead EXCEPT ![r] = 0]
  /\ pc' = [pc EXCEPT ![r] = "load"]
  /\ UNCHANGED <<tables, rowLock, command, loaded, pos, dirty>>

\* save(infraction): SELECT the row and find the columns that differ from the
\* entity in memory.  Nothing to write is possible for a repeated identifier.
SaveSelect(r) ==
  LET i == Current(r)
      changed == Changed(r, i)
      more == pos[r] < Len(command[r].ids)
  IN
  /\ pc[r] = "load"
  /\ \/ /\ changed # {}
        /\ dirty' = [dirty EXCEPT ![r][i] = @ \cup changed]
        /\ pc' = [pc EXCEPT ![r] = "update"]
        /\ UNCHANGED <<locks, command, loaded, pos, seqRead>>
     \/ /\ changed = {}
        /\ Pays(r)
        /\ pos' = [pos EXCEPT ![r] = IF more THEN @ + 1 ELSE @]
        /\ pc' = [pc EXCEPT ![r] = IF more THEN "load" ELSE "commit"]
        /\ UNCHANGED <<locks, command, loaded, dirty, seqRead>>
     \/ /\ changed = {}
        /\ ~Pays(r)
        /\ Finish(r, "ok")
  /\ UNCHANGED tables

\* Faulty variant: the infraction is saved through its repository, on another
\* connection, and not through the transaction's manager.
SaveOutsideTx(r) ==
  LET i == Current(r)
      more == pos[r] < Len(command[r].ids)
  IN
  /\ pc[r] = "update"
  /\ Pays(r)
  /\ rowLock[i] = NULL
  /\ infraction' = [infraction EXCEPT ![i] = TxRow(r, i)]
  /\ pos' = [pos EXCEPT ![r] = IF more THEN @ + 1 ELSE @]
  /\ pc' = [pc EXCEPT ![r] = IF more THEN "load" ELSE "commit"]
  /\ UNCHANGED <<payments, sequence, overwritten, locks, command, loaded, dirty, seqRead>>

\* The UPDATE inside a payment's transaction: takes the row until it commits.
SaveUpdate(r) ==
  LET i == Current(r)
      more == pos[r] < Len(command[r].ids)
  IN
  /\ pc[r] = "update"
  /\ Pays(r)
  /\ rowLock[i] \in {NULL, r}
  /\ rowLock' = [rowLock EXCEPT ![i] = r]
  /\ pos' = [pos EXCEPT ![r] = IF more THEN @ + 1 ELSE @]
  /\ pc' = [pc EXCEPT ![r] = IF more THEN "load" ELSE "commit"]
  /\ UNCHANGED <<tables, sequenceLock, command, loaded, dirty, seqRead>>

\* The UPDATE of a handler that writes one infraction: it commits at once.
SaveAlone(r) ==
  /\ pc[r] = "update"
  /\ ~Pays(r)
  /\ rowLock[Current(r)] = NULL
  /\ infraction' = [i \in Infractions |-> TxRow(r, i)]
  /\ overwritten' = overwritten \cup Missed(r)
  /\ Finish(r, "ok")
  /\ UNCHANGED <<payments, sequence>>

\* Faulty variant: the increment of the sequence is never saved.
ForgetsSequence(r) ==
  /\ pc[r] = "commit"
  /\ payments' = payments \cup
       {[id |-> r, number |-> seqRead[r] + 1, lines |-> command[r].ids]}
  /\ infraction' = [i \in Infractions |-> TxRow(r, i)]
  /\ UNCHANGED sequence
  /\ overwritten' = overwritten \cup Missed(r)
  /\ Finish(r, "ok")

\* Faulty variant: only the first infraction of the list is linked.
SettlesFirst(r) ==
  /\ pc[r] = "commit"
  /\ payments' = payments \cup
       {[id |-> r, number |-> seqRead[r] + 1, lines |-> command[r].ids]}
  /\ infraction' = [infraction EXCEPT ![command[r].ids[1]] = TxRow(r, command[r].ids[1])]
  /\ sequence' = seqRead[r] + 1
  /\ overwritten' = overwritten \cup Missed(r)
  /\ Finish(r, "ok")

\* The payment, the infractions it settles and the new value of the sequence
\* become visible together.
CommitPayment(r) ==
  /\ pc[r] = "commit"
  /\ payments' = payments \cup
       {[id |-> r, number |-> seqRead[r] + 1, lines |-> command[r].ids]}
  /\ infraction' = [i \in Infractions |-> TxRow(r, i)]
  /\ sequence' = seqRead[r] + 1
  /\ overwritten' = overwritten \cup Missed(r)
  /\ Finish(r, "ok")

\* A query fails or the process dies: the transaction rolls back.
Fail(r) ==
  /\ pc[r] \in InFlight
  /\ Finish(r, "error")
  /\ UNCHANGED tables

\* Every request has been answered.
Terminated ==
  /\ \A r \in Requests : pc[r] \in Final
  /\ UNCHANGED vars

Step(r) ==
  \/ Read(r)
  \/ LockSequence(r) \/ FindNoSequence(r)
  \/ InitSequence(r) \/ InsertSequence(r) \/ ResetSequence(r)
  \/ SaveSelect(r) \/ SaveUpdate(r) \/ SaveAlone(r)
  \/ CommitPayment(r)

Next ==
  \/ \E i \in Infractions : CreateInfraction(i) \/ CreateTentative(i)
  \/ AnnulTentatives
  \/ \E r \in Requests : Begin(r) \/ Step(r) \/ Fail(r)
  \/ Terminated

Spec == Init /\ [][Next]_vars

\* The server goes on with a request it has begun; clients need not send any.
FairSpec == Spec /\ \A r \in Requests : WF_vars(Step(r))

-----------------------------------------------------------------------------
(* Properties                                                              *)

\* Type invariant.
TypeOK ==
  /\ infraction \in [Infractions -> Row]
  /\ \A p \in payments : /\ p.id \in Requests
                         /\ p.number \in Nat
                         /\ p.lines \in Seq(Infractions)
  /\ sequence \in Nat \cup {NULL}
  /\ overwritten \subseteq Infractions
  /\ sequenceLock \in Requests \cup {NULL}
  /\ rowLock \in [Infractions -> Requests \cup {NULL}]
  /\ pc \in [Requests -> {"idle"} \cup InFlight \cup Final]
  /\ command \in [Requests -> Commands \cup {NoCommand}]
  /\ loaded \in [Requests -> Seq(Row)]
  /\ pos \in [Requests -> Nat]
  /\ dirty \in [Requests -> [Infractions -> SUBSET Columns]]
  /\ seqRead \in [Requests -> Nat]

Issued == IF sequence = NULL THEN 0 ELSE sequence

\* The receipts issued so far are numbered 1, 2, ..., current_value: no number
\* is given twice, whatever requests overlap, and a payment that rolls back
\* leaves no gap.
ReceiptsConsecutive ==
  /\ \A p, q \in payments : p.number = q.number => p = q
  /\ {p.number : p \in payments} = 1..Issued

\* payment_id of an infraction is never the identifier of a payment that rolled
\* back or of one that does not cover it, although entities loaded earlier are
\* written back whole.
LinksResolve ==
  \A i \in Infractions :
    infraction[i].payment # NULL =>
      \E p \in payments : /\ p.id = infraction[i].payment
                          /\ \E k \in DOMAIN p.lines : p.lines[k] = i

\* A payment and its infractions appear together: the step that makes a payment
\* visible links every infraction of its list to it.
SettledTogether ==
  [][\A p \in payments' \ payments :
       \A k \in DOMAIN p.lines : infraction'[p.lines[k]].payment = p.id]_vars

\* The payments are a receipt book: see ReceiptBook.
Book == INSTANCE ReceiptBook WITH Payers <- Requests, Concepts <- Batches,
                                  receipts <- payments, last <- Issued
ImplementsReceiptBook == Book!BookSpec

Charged(i) == \E p \in payments : \E k \in DOMAIN p.lines : p.lines[k] = i

\* An infraction that still has to be paid or confirmed is charged by no payment,
\* whatever requests overlap, unless somebody has saved it without having read what
\* it held: nothing else takes a settled infraction back.
OwedUncharged ==
  \A i \in Infractions \ overwritten :
    infraction[i].status \in {"TENTATIVE", "PENDING"} => ~Charged(i)

\* An infraction is charged a second time only after an annulment, which a single
\* payment does not refuse, or by saves that overwrite what they have not read.
RechargedOnlyAnnulled ==
  [][\A p \in payments' \ payments : \A k \in DOMAIN p.lines :
       Charged(p.lines[k]) => \/ p.lines[k] \in overwritten'
                              \/ infraction[p.lines[k]].status = "ANNULLED"]_vars

\* Every request the server takes is answered: requests that wait for the
\* sequence and for infraction rows never wait for one another in a circle.
AllAnswered == \A r \in Requests : (pc[r] = "read") ~> (pc[r] \in Final)
=============================================================================

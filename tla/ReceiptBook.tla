---------------------------- MODULE ReceiptBook ----------------------------
(***************************************************************************)
(* What the PAYMENT_RECEIPT sequence of a tenant promises to whoever reads *)
(* the payments table: receipts are only ever added, one at a time, and    *)
(* each takes the number after the last one issued.  How the handlers      *)
(* reach this with SELECT ... FOR UPDATE, rollbacks and retries is no      *)
(* business of this module: InfractionPayments implements it.              *)
(***************************************************************************)
EXTENDS Naturals

CONSTANTS Payers,  \* whoever can insert a payment, each at most once
          Concepts \* what a receipt can be issued for

VARIABLES receipts, \* the rows of the payments table
          last      \* the number of the latest receipt

bookVars == <<receipts, last>>

BookInit == receipts = {} /\ last = 0

Issue(who, concept) ==
  /\ \A p \in receipts : p.id # who
  /\ receipts' = receipts \cup {[id |-> who, number |-> last + 1, lines |-> concept]}
  /\ last' = last + 1

BookNext == \E who \in Payers, concept \in Concepts : Issue(who, concept)

BookSpec == BookInit /\ [][BookNext]_bookVars
=============================================================================

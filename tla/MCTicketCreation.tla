-------------------------- MODULE MCTicketCreation --------------------------
(* Instances of TicketCreation for TLC.                                      *)
EXTENDS TicketCreation, TLC

Interchangeable == Permutations(Requests) \cup Permutations(Vehicles)
=============================================================================

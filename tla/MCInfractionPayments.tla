------------------------ MODULE MCInfractionPayments ------------------------
(* Instances of InfractionPayments for TLC; the cfg files give the values.   *)
EXTENDS InfractionPayments, TLC

\* Requests and infractions are interchangeable.
Interchangeable == Permutations(Requests) \cup Permutations(Infractions)
=============================================================================

------------------------- MODULE MCTraccarProvisioning -------------------------
(* Instances of TraccarProvisioning for TLC.                                  *)
EXTENDS TraccarProvisioning, TLC

Interchangeable == Permutations(Requests) \cup Permutations(Vehicles) \cup Permutations(Imeis)
=============================================================================

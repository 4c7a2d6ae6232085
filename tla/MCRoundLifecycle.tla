-------------------------- MODULE MCRoundLifecycle --------------------------
(* Instances of RoundLifecycle for TLC; the cfg files give the values.       *)
EXTENDS RoundLifecycle, TLC

\* Requests are interchangeable.
Interchangeable == Permutations(Requests)
=============================================================================

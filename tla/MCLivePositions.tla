--------------------------- MODULE MCLivePositions ---------------------------
(* Instances of LivePositions for TLC.                                        *)
EXTENDS LivePositions
=============================================================================

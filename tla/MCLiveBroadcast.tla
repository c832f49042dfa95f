--------------------------- MODULE MCLiveBroadcast ---------------------------
(* Instances of LiveBroadcast for TLC.                                     *)
EXTENDS LiveBroadcast

\* An execution loses its lock once its row has ended.
Ending == {"flip", "next", "kick"}
TwoRuns == {1, 2}
=============================================================================

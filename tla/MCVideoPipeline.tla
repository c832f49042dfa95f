-------------------------- MODULE MCVideoPipeline --------------------------
(* Instances of VideoPipeline for TLC.                                     *)
EXTENDS VideoPipeline

(* Lock tokens 1 to n; two rows may each remember one, so n - 2 executions *)
(* can run at once.                                                        *)
ThreeTokens == 1..3
FourTokens == 1..4
=============================================================================

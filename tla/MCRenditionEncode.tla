-------------------------- MODULE MCRenditionEncode --------------------------
(* Instances of RenditionEncode for TLC.                                   *)
EXTENDS RenditionEncode

ThreeTokens == 1..3
=============================================================================

------------------------------ MODULE MCLayer3 ------------------------------
(* Instances of Layer3 for TLC; the configurations give the constants.       *)
EXTENDS Layer3
=============================================================================

--------------------------- MODULE MCTtc2Heartbeat ---------------------------
(* Instances of Ttc2Heartbeat for TLC.                                       *)
EXTENDS Ttc2Heartbeat, TLC

(* The cores run the same handler: permuting them changes nothing.           *)
CoreSymmetry == Permutations(Cores)
=============================================================================

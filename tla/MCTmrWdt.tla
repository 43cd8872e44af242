------------------------------ MODULE MCTmrWdt ------------------------------
(* Instances of TmrWdt for TLC; the configuration gives the constants.       *)
EXTENDS TmrWdt
=============================================================================

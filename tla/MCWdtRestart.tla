---------------------------- MODULE MCWdtRestart ----------------------------
(* Instances of WdtRestart for TLC; the configurations give the constants.   *)
EXTENDS WdtRestart
=============================================================================

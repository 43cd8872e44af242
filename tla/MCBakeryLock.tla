---------------------------- MODULE MCBakeryLock ----------------------------
(* Instance of BakeryLock for TLC; the configuration gives the constants.    *)
EXTENDS BakeryLock
=============================================================================

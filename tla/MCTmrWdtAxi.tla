----------------------------- MODULE MCTmrWdtAxi -----------------------------
(* Instances of TmrWdtAxi for TLC; the configurations give the constants.    *)
EXTENDS TmrWdtAxi
=============================================================================

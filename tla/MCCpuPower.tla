----------------------------- MODULE MCCpuPower -----------------------------
(* Instances of CpuPower for TLC; the configurations give the constants.     *)
EXTENDS CpuPower
=============================================================================

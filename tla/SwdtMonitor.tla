----------------------------- MODULE SwdtMonitor -----------------------------
(****************************************************************************)
(* The PMU half of Layer 3, pmufw/swdt_monitor.c: a periodic callback that  *)
(* samples the heartbeat register, counts the samples that did not change,  *)
(* and recovers the system when there are MISS_THRESHOLD of them in a row.  *)
(*                                                                          *)
(* The PMU firmware is single-threaded, but the APU runs on while it works: *)
(* the callback reads the shared register once and is one step, whereas     *)
(* TriggerReset is a step per access to the outside.                        *)
(****************************************************************************)
EXTENDS Naturals

CONSTANT MISS_THRESHOLD

ASSUME ThresholdAssumption == MISS_THRESHOLD \in Nat \ {0}

VARIABLES
    HEARTBEAT,     \* TTC2 scratch register 0xFF130048, written by TF-A
    PrevHbVal, MissedCount, Armed,   \* module state
    pmu,           \* where the PMU is; "idle" between callbacks
    pl,            \* the PL: "configured" or "blank"
    procs          \* the PMU's power-state view of the APU cores

monVars == <<PrevHbVal, MissedCount, Armed, pmu, pl, procs>>

PmuSteps == {"startup", "unmonitored", "idle", "wipe", "forcedown", "clear",
             "reset"}

MonTypeOK ==
    /\ HEARTBEAT \in Nat
    /\ PrevHbVal \in Nat
    /\ MissedCount \in 0..MISS_THRESHOLD
    /\ Armed \in 0..1
    /\ pmu \in PmuSteps
    /\ pl \in {"configured", "blank"}
    /\ procs \in {"on", "off"}

(* Power on: the PL is blank and the APU cores are off.                      *)
MonInit ==
    /\ PrevHbVal = 0
    /\ MissedCount = 0
    /\ Armed = 0
    /\ pmu = "startup"
    /\ pl = "blank"
    /\ procs = "off"

(* The module is created and its task scheduled, or XPfw_CoreCreateMod       *)
(* returns NULL and there is no monitoring.                                  *)
SwdtMonitorInit ==
    /\ pmu = "startup"
    /\ pmu' \in {"idle", "unmonitored"}
    /\ UNCHANGED <<HEARTBEAT, PrevHbVal, MissedCount, Armed, pl,
                   procs>>

(* The test of an armed poll: any change counts, TF-A may have restarted.    *)
Advanced == HEARTBEAT # PrevHbVal

(* The three outcomes of SwdtMonitorCallback.                                *)
PollUnarmed ==
    /\ Armed = 0
    /\ IF HEARTBEAT # 0
       THEN Armed' = 1 /\ PrevHbVal' = HEARTBEAT
       ELSE UNCHANGED <<Armed, PrevHbVal>>
    /\ UNCHANGED <<MissedCount, pmu>>

(* Mutant of PollAdvanced: MissedCount is not reset.                         *)
PollAdvancedKeepsCount ==
    /\ Armed = 1
    /\ Advanced
    /\ PrevHbVal' = HEARTBEAT
    /\ UNCHANGED <<MissedCount, Armed, pmu>>

PollAdvanced ==
    /\ Armed = 1
    /\ Advanced
    /\ PrevHbVal' = HEARTBEAT
    /\ MissedCount' = 0
    /\ UNCHANGED <<Armed, pmu>>

PollMissed ==
    /\ Armed = 1
    /\ ~Advanced
    /\ MissedCount' = MissedCount + 1
    /\ pmu' = IF MissedCount' >= MISS_THRESHOLD THEN "wipe" ELSE pmu
    /\ UNCHANGED <<PrevHbVal, Armed>>

SwdtMonitorCallback ==
    /\ pmu = "idle"
    /\ PollUnarmed \/ PollAdvanced \/ PollMissed
    /\ UNCHANGED <<HEARTBEAT, pl, procs>>

(* Mutant of WipePl: the PL keeps its configuration.                         *)
WipePlForgotten ==
    /\ pmu = "wipe"
    /\ pmu' = "forcedown"
    /\ UNCHANGED <<HEARTBEAT, PrevHbVal, MissedCount, Armed, pl,
                   procs>>

(* TriggerReset 1: clock on, PROG_B asserted, a delay, PROG_B released.      *)
WipePl ==
    /\ pmu = "wipe"
    /\ pl' = "blank"
    /\ pmu' = "forcedown"
    /\ UNCHANGED <<HEARTBEAT, PrevHbVal, MissedCount, Armed, procs>>

(* TriggerReset 2: PmMasterFsm(APU, FORCE_DOWN).                             *)
ForceDown ==
    /\ pmu = "forcedown"
    /\ procs' = "off"
    /\ pmu' = "clear"
    /\ UNCHANGED <<HEARTBEAT, PrevHbVal, MissedCount, Armed, pl>>

(* Mutant of ClearState: the register is not cleared.                        *)
ClearStateKeepsHeartbeat ==
    /\ pmu = "clear"
    /\ PrevHbVal' = 0
    /\ MissedCount' = 0
    /\ Armed' = 0
    /\ pmu' = "reset"
    /\ UNCHANGED <<HEARTBEAT, pl, procs>>

(* TriggerReset 3a: clear the heartbeat and the module state.                *)
ClearState ==
    /\ pmu = "clear"
    /\ HEARTBEAT' = 0
    /\ PrevHbVal' = 0
    /\ MissedCount' = 0
    /\ Armed' = 0
    /\ pmu' = "reset"
    /\ UNCHANGED <<pl, procs>>

(* TriggerReset 3b: XPfw_ResetSystem.  The PMU itself is not reset; its      *)
(* scheduler goes on to call the callback.                                   *)
ResetSystem ==
    /\ pmu = "reset"
    /\ pmu' = "idle"
    /\ UNCHANGED <<HEARTBEAT, PrevHbVal, MissedCount, Armed, pl,
                   procs>>
=============================================================================

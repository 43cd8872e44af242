------------------------------- MODULE Layer3 -------------------------------
(****************************************************************************)
(* Layer 3 end to end: the heartbeat of TF-A as Heartbeat describes it, the *)
(* PMU monitor of SwdtMonitor, and around them the life of the APU: boot,   *)
(* hangs, death of TrustZone, an ordinary Linux reboot, and the recovery    *)
(* that TriggerReset starts.                                                *)
(*                                                                          *)
(* The timer and the PMU scheduler both have a period of about 2 s, from    *)
(* different clocks (3052 / 1525.9 Hz against 2000 ms).  Their phase drifts,*)
(* so an interval of the timer holds none, one or two polls: MaxPolls.      *)
(****************************************************************************)
EXTENDS SwdtMonitor

CONSTANTS
    NumCores,        \* cores that may run the heartbeat handler
    MaxPolls,        \* polls in one timer interval of a live TF-A, at most
    BootPolls,       \* polls while the APU boots up to zynqmp_swdt_init
    Faults,          \* which of "hang", "die", "reboot" may happen
    MaxTicks,        \* bound: timer intervals explored
    MaxReboots       \* bound: Linux reboots explored

ASSUME BoundsAssumption ==
    /\ NumCores \in Nat \ {0}
    /\ MaxPolls \in Nat \ {0}
    /\ BootPolls \in Nat
    /\ Faults \subseteq {"hang", "die", "reboot"}
    /\ MaxTicks \in Nat
    /\ MaxReboots \in Nat

VARIABLES
    started, beating, floor,   \* Heartbeat, with HEARTBEAT of SwdtMonitor
    tz,        \* TF-A on the APU
    polls,     \* polls in this interval, or in this boot
    ticks,     \* timer intervals elapsed
    reboots,   \* Linux reboots
    excuse     \* history: TF-A hung or died at some time since PrevHbVal was
               \* sampled

HB == INSTANCE Heartbeat

hbState == <<started, beating, floor>>
vars == <<started, beating, floor, HEARTBEAT, PrevHbVal, MissedCount, Armed,
          pmu, pl, procs, tz, polls, ticks, reboots, excuse>>

TzStates == {"alive", "hung", "dead", "down", "boot", "reboot"}

TypeOK ==
    /\ MonTypeOK
    /\ started \in BOOLEAN
    /\ beating \in BOOLEAN
    /\ floor \in Nat
    /\ tz \in TzStates
    /\ polls \in 0..(MaxPolls + BootPolls)
    /\ ticks \in 0..MaxTicks
    /\ reboots \in 0..MaxReboots
    /\ excuse \in BOOLEAN

Init ==
    /\ HB!HbInit
    /\ MonInit
    /\ tz = "boot"
    /\ polls = 0
    /\ ticks = 0
    /\ reboots = 0
    /\ excuse = FALSE

-----------------------------------------------------------------------------
(* The APU.                                                                  *)

(* The timer of a live TF-A elapses.                                         *)
Tick ==
    /\ tz = "alive"
    /\ ticks < MaxTicks
    /\ HB!Begin
    /\ ticks' = ticks + 1
    /\ polls' = 0
    /\ UNCHANGED <<monVars, tz, reboots, excuse>>

(* A handler publishes the heartbeat; the last one leaves.                   *)
Beat ==
    /\ tz = "alive"
    /\ HB!Publish \/ HB!Finish
    /\ UNCHANGED <<monVars, tz, polls, ticks, reboots, excuse>>

(* The timer is stopped for a while (as layer3_test does), or EL3 does not   *)
(* get to run; and the heartbeat comes back.                                 *)
Hang ==
    /\ "hang" \in Faults
    /\ tz = "alive"
    /\ tz' = "hung"
    /\ excuse' = TRUE
    /\ UNCHANGED <<hbState, HEARTBEAT, monVars, polls, ticks, reboots>>

Resume ==
    /\ tz = "hung"
    /\ tz' = "alive"
    /\ polls' = 0
    /\ UNCHANGED <<hbState, HEARTBEAT, monVars, ticks, reboots, excuse>>

(* TrustZone stops for good.                                                 *)
Die ==
    /\ "die" \in Faults
    /\ tz = "alive"
    /\ tz' = "dead"
    /\ excuse' = TRUE
    /\ UNCHANGED <<hbState, HEARTBEAT, monVars, polls, ticks, reboots>>

(* Linux reboots the APU (PSCI SYSTEM_RESET): the monitor on the PMU keeps   *)
(* its state, the register may or may not be reset with the TTC.             *)
Reboot ==
    /\ "reboot" \in Faults
    /\ tz = "alive"
    /\ pmu = "idle"
    /\ started
    /\ reboots < MaxReboots
    /\ reboots' = reboots + 1
    /\ tz' = "reboot"
    /\ polls' = 0
    /\ HEARTBEAT' \in {0, HEARTBEAT}
    /\ UNCHANGED <<hbState, monVars, ticks, excuse>>

(* FSBL and BL31 reach zynqmp_swdt_init, the PMU firmware being up already.  *)
(* After a forced reset that needs a blank PL and the APU cores off in the   *)
(* PMU's view (the header of swdt_monitor.c: else FSBL or the SMP bring-up   *)
(* hangs).                                                                   *)
Boot ==
    /\ pmu # "startup"
    /\ \/ tz = "reboot"
       \/ tz = "boot" /\ pl = "blank" /\ procs = "off"
    /\ tz' = "alive"
    /\ pl' = "configured"
    /\ procs' = "on"
    /\ started' = FALSE
    /\ beating' = FALSE
    /\ floor' = 0
    /\ polls' = 0
    /\ UNCHANGED <<HEARTBEAT, PrevHbVal, MissedCount, Armed, pmu,
                   ticks, reboots, excuse>>

-----------------------------------------------------------------------------
(* The PMU.                                                                  *)

Startup ==
    /\ SwdtMonitorInit
    /\ UNCHANGED <<hbState, tz, polls, ticks, reboots, excuse>>

(* Polls that the rates allow: MaxPolls to an interval, of which one may     *)
(* fall into the microseconds in which the handlers run at its start.        *)
(* Nothing paces the PMU against a TF-A that does not run.                   *)
PollAllowed ==
    /\ tz = "alive" => polls < IF beating THEN 1 ELSE MaxPolls
    /\ tz \in {"boot", "reboot"} => polls < BootPolls

Poll ==
    /\ PollAllowed
    /\ SwdtMonitorCallback
    /\ polls' = IF tz \in {"alive", "boot", "reboot"} THEN polls + 1 ELSE polls
    /\ excuse' = IF Advanced /\ tz = "alive" THEN FALSE ELSE excuse
    /\ UNCHANGED <<hbState, tz, ticks, reboots>>

Wipe ==
    /\ WipePl
    /\ UNCHANGED <<hbState, tz, polls, ticks, reboots, excuse>>

(* Powering the cores down stops TF-A wherever it is.                        *)
Down ==
    /\ ForceDown
    /\ tz' = IF procs' = "off" THEN "down" ELSE tz
    /\ UNCHANGED <<hbState, polls, ticks, reboots, excuse>>

Clear ==
    /\ ClearState
    /\ UNCHANGED <<hbState, tz, polls, ticks, reboots, excuse>>

Reset ==
    /\ ResetSystem
    /\ tz' = "boot"
    /\ polls' = 0
    /\ UNCHANGED <<hbState, ticks, reboots, excuse>>

TriggerReset == Wipe \/ Down \/ Clear \/ Reset

Next == \/ Tick \/ Beat \/ Hang \/ Resume \/ Die \/ Reboot \/ Boot
        \/ Startup \/ Poll \/ TriggerReset

(* The PMU scheduler runs its tasks, and a boot that can complete does.      *)
Fairness ==
    /\ WF_vars(Poll)
    /\ WF_vars(TriggerReset)
    /\ WF_vars(Boot)

Spec == Init /\ [][Next]_vars /\ Fairness

-----------------------------------------------------------------------------
Recovering == pmu \in {"wipe", "forcedown", "clear", "reset"}

(* "PMUFW polls it; while it advances, TrustZone is alive.  When it freezes  *)
(* (TrustZone dead), PMUFW recovers the system", swdt_monitor.c lines 5-6:   *)
(* the PMU resets only a system whose TrustZone hung or died since the       *)
(* sample it compares with.                                                  *)
NoFalseReset == Recovering => excuse

(* Until Linux first reboots the APU that is so: neither the updates lost    *)
(* between the cores nor the drift of the two clocks add up to               *)
(* MISS_THRESHOLD missed polls (TriggerReset is called from                  *)
(* SwdtMonitorCallback only then).                                           *)
NoFalseResetBeforeReboot == reboots = 0 => NoFalseReset

(* "hand the next boot a clean slate (avoid re-trigger before TF-A is back   *)
(* up)", swdt_monitor.c line 82: while the APU boots after a forced reset    *)
(* the monitor is unarmed and cannot start another one, even if TF-A came    *)
(* back to life and wrote the register while TriggerReset was running.       *)
CleanSlate == tz = "boot" => Armed = 0 /\ ~Recovering

(* A death of TrustZone that the monitor is armed for ends in a running      *)
(* system: the PMU notices, resets, and the boot gets through.  Not so when  *)
(* TriggerReset has already begun and a Linux reboot was under way in it:    *)
(* then FSBL may have configured the PL again after it was wiped.            *)
Recovers ==
    (tz = "dead" /\ Armed = 1 /\ (reboots = 0 \/ pmu = "idle")) ~> (tz = "alive")

-----------------------------------------------------------------------------
(* The inductive strengthening behind the two invariants.                    *)

(* Where the PMU and the APU can be together, and what TriggerReset has done *)
(* when it is over.                                                          *)
SlateInv ==
    /\ pmu = "startup" => tz = "boot"
    /\ pmu \in {"clear", "reset"} <=> tz = "down"
    /\ pmu = "reset" \/ tz = "boot" => Armed = 0 /\ HEARTBEAT = 0
    /\ tz = "boot" => ~Recovering
    /\ Armed = 0 => MissedCount = 0
    /\ MissedCount = MISS_THRESHOLD <=> pmu \in {"wipe", "forcedown", "clear"}
    /\ tz = "alive" => polls <= IF beating THEN 1 ELSE MaxPolls

Slate == TypeOK /\ SlateInv

(* Until Linux reboots the APU, what a forced reset needs to get through is  *)
(* there (the safety half of Recovers), ...                                  *)
Bootable == tz = "boot" => pl = "blank" /\ procs = "off"

(* ... and no boot starts from an old heartbeat.                             *)
BeatInv ==
    /\ tz # "reboot"
    /\ ~started => ~beating /\ floor = 0
    /\ tz \in {"alive", "hung", "dead"} =>
          /\ IF started THEN beating \/ HEARTBEAT \in HB!Window ELSE HEARTBEAT = 0
          /\ started \/ Armed = 0
          /\ HEARTBEAT <= floor + NumCores
    /\ tz \in {"hung", "dead"} => excuse
    /\ pmu \in {"forcedown", "clear", "reset"} => pl = "blank"
    /\ tz = "down" => procs = "off"
    /\ Bootable

(* How many polls can find the register at one value while TF-A beats.  The  *)
(* register can come back to the value in every interval whose window has    *)
(* it, which is NumCores - 1 intervals after the one of the sample; one more *)
(* poll is before the first beat of the interval after that.                 *)
StallPolls == IF NumCores = 1 THEN MaxPolls ELSE (NumCores - 1) * MaxPolls + 1

(* The intervals to come whose window can have PrevHbVal, and how many of    *)
(* them there are if it is in the register when the next one begins.         *)
Ahead == IF PrevHbVal > floor THEN PrevHbVal - (floor + 1) ELSE 0

Kept == IF Ahead <= HB!MaxLead THEN Ahead ELSE HB!MaxLead

(* Missed polls to come, at most: when the register stays at PrevHbVal until *)
(* the interval ends, ...                                                    *)
StayPolls == IF PrevHbVal > floor THEN (MaxPolls - polls) + Kept * MaxPolls + 1 ELSE 1 - polls

(* ... and when it does not and comes back to it in a later interval.        *)
BackPolls == (IF beating /\ polls = 0 THEN 1 ELSE 0) + Ahead * MaxPolls + 1

(* The missed polls and those to come are no more than StallPolls.           *)
StallInv ==
    tz = "alive" /\ Armed = 1 /\ ~excuse =>
        /\ PrevHbVal <= floor + NumCores
        /\ MissedCount <= StallPolls
        /\ HEARTBEAT = PrevHbVal \/ (beating /\ PrevHbVal > floor) =>
              MissedCount + StayPolls <= StallPolls
        /\ (beating \/ HEARTBEAT # PrevHbVal) /\ Ahead > 0 =>
              MissedCount + BackPolls <= StallPolls

IInv == Slate /\ (reboots = 0 => BeatInv /\ StallInv /\ NoFalseReset)
=============================================================================

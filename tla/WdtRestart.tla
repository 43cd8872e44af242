----------------------------- MODULE WdtRestart -----------------------------
(****************************************************************************)
(* The warm-restart protocol of TF-A that a watchdog event starts           *)
(* (plat/xilinx/zynqmp/pm_service/pm_svc_main.c, ZYNQMP_WDT_RESTART=1): the *)
(* PMU makes TTC3 fire, the primary core counts the cores that are on and   *)
(* sends them SGI 7, every core takes itself out of the count and parks,    *)
(* and the core that finds the count at zero asks the PMU for the restart.  *)
(*                                                                          *)
(* inc_lock guards one statement on active_cores in each of its two         *)
(* critical sections, which are therefore single steps; the test of         *)
(* active_cores is outside the lock and is a step of its own.               *)
(****************************************************************************)
EXTENDS Integers, FiniteSets

CONSTANTS
    NumCores,   \* PLATFORM_CORE_COUNT, the loops' bound (4 on the ZynqMP)
    Hotplug     \* TRUE: Linux may switch secondary cores off and on meanwhile

ASSUME WdtAssumption == NumCores \in Nat \ {0} /\ Hotplug \in BOOLEAN

Cores == 0..(NumCores - 1)
Primary == 0     \* the core that TTC3_1, as a secure SPI, is targeted at

VARIABLES
    ttc3,          \* IRQ_TTC3_1 pending at the GIC: a watchdog event
    power,         \* core -> "on" or "off", what pm_get_node_status reports
    pc,            \* core -> where it is
    i,             \* loop variable of trigger_wdt_restart
    target_cpu_list,
    sgi,           \* cores with SGI 7 pending
    active_cores,
    shutdowns      \* calls of pm_system_shutdown

vars == <<ttc3, power, pc, i, target_cpu_list, sgi, active_cores,
          shutdowns>>

Steps == {"lower", "psci", "status", "raise", "sgi", "test", "shutdown", "wfi"}

TypeOK ==
    /\ ttc3 \in BOOLEAN
    /\ power \in [Cores -> {"on", "off"}]
    /\ pc \in [Cores -> Steps]
    /\ i \in -1..NumCores
    /\ target_cpu_list \in SUBSET Cores
    /\ sgi \in SUBSET Cores
    /\ active_cores \in 0..NumCores
    /\ shutdowns \in Nat

Init ==
    /\ ttc3 = FALSE
    /\ power \in {p \in [Cores -> {"on", "off"}] : p[Primary] = "on"}
    /\ pc = [c \in Cores |-> "lower"]
    /\ i = 0
    /\ target_cpu_list = {}
    /\ sgi = {}
    /\ active_cores = 0
    /\ shutdowns = 0

Goto(c, step) == pc' = [pc EXCEPT ![c] = step]

(* A core below EL3 that the GIC can interrupt.                              *)
Interruptible(c) == pc[c] = "lower" /\ power[c] = "on"

(* The PMU's watchdog fires: it starts TTC3 to overflow at once.             *)
WdtEvent ==
    /\ ~ttc3
    /\ ttc3' = TRUE
    /\ UNCHANGED <<power, pc, i, target_cpu_list, sgi, active_cores, shutdowns>>

(* ttc_fiq_handler up to its call of trigger_wdt_restart: end of interrupt,  *)
(* the status read that clears the timer, interrupt disabled for good.  The  *)
(* line is configured edge-triggered and nobody acknowledges it, so it stays *)
(* pending at the GIC; only SGI 7, of equal priority and lower number, comes *)
(* before it when the primary leaves EL3.                                    *)
ttc_fiq_handler ==
    /\ ttc3
    /\ Primary \notin sgi
    /\ Interruptible(Primary)
    /\ i' = 0
    /\ target_cpu_list' = {}
    /\ Goto(Primary, "status")
    /\ UNCHANGED <<ttc3, power, sgi, active_cores, shutdowns>>

(* One round of the first loop: an IPI to the PMU for the state of core i.   *)
GetNodeStatus ==
    /\ pc[Primary] = "status"
    /\ i < NumCores
    /\ target_cpu_list' = IF power[i] = "on" THEN target_cpu_list \cup {i}
                          ELSE target_cpu_list
    /\ i' = i + 1
    /\ UNCHANGED <<ttc3, power, pc, sgi, active_cores, shutdowns>>

(* Mutant of SetActive: the primary does not count itself.                   *)
SetActiveOffByOne ==
    /\ pc[Primary] = "status"
    /\ i = NumCores
    /\ active_cores' = Cardinality(target_cpu_list) - 1
    /\ i' = NumCores - 1
    /\ Goto(Primary, "raise")
    /\ UNCHANGED <<ttc3, power, target_cpu_list, sgi, shutdowns>>

(* active_cores = core_count, under the lock.                                *)
SetActive ==
    /\ pc[Primary] = "status"
    /\ i = NumCores
    /\ active_cores' = Cardinality(target_cpu_list)
    /\ i' = NumCores - 1
    /\ Goto(Primary, "raise")
    /\ UNCHANGED <<ttc3, power, target_cpu_list, sgi, shutdowns>>

(* Mutant of RaiseSgi: the loop ends before core 0.                          *)
RaiseSgiNotToSelf ==
    /\ pc[Primary] = "raise"
    /\ IF i > 0
       THEN /\ sgi' = IF i \in target_cpu_list THEN sgi \cup {i} ELSE sgi
            /\ i' = i - 1
            /\ UNCHANGED pc
       ELSE Goto(Primary, "lower") /\ UNCHANGED <<sgi, i>>
    /\ UNCHANGED <<ttc3, power, target_cpu_list, active_cores, shutdowns>>

(* One round of the second loop; after the last one the handler returns.     *)
RaiseSgi ==
    /\ pc[Primary] = "raise"
    /\ IF i >= 0
       THEN /\ sgi' = IF i \in target_cpu_list THEN sgi \cup {i} ELSE sgi
            /\ i' = i - 1
            /\ UNCHANGED pc
       ELSE Goto(Primary, "lower") /\ UNCHANGED <<sgi, i>>
    /\ UNCHANGED <<ttc3, power, target_cpu_list, active_cores, shutdowns>>

trigger_wdt_restart == GetNodeStatus \/ SetActive \/ RaiseSgi

(* zynqmp_sgi7_irq: the FIQ is taken ...                                     *)
TakeSgi(c) ==
    /\ c \in sgi
    /\ Interruptible(c)
    /\ Goto(c, "sgi")
    /\ UNCHANGED <<ttc3, power, i, target_cpu_list, sgi, active_cores,
                   shutdowns>>

(* ... under the lock the core leaves the count and drops its pending SGIs   *)
(* (GICD_CPENDSGIR is banked: only those sent to this core) ...              *)
Decrement(c) ==
    /\ pc[c] = "sgi"
    /\ active_cores' = active_cores - 1
    /\ sgi' = sgi \ {c}
    /\ Goto(c, "test")
    /\ UNCHANGED <<ttc3, power, i, target_cpu_list, shutdowns>>

(* Mutant of Test: <= 1 instead of == 0.                                     *)
TestOnlyOne(c) ==
    /\ pc[c] = "test"
    /\ Goto(c, IF active_cores <= 1 THEN "shutdown" ELSE "wfi")
    /\ UNCHANGED <<ttc3, power, i, target_cpu_list, sgi, active_cores,
                   shutdowns>>

(* ... reads the count again, without the lock ...                           *)
Test(c) ==
    /\ pc[c] = "test"
    /\ Goto(c, IF active_cores = 0 THEN "shutdown" ELSE "wfi")
    /\ UNCHANGED <<ttc3, power, i, target_cpu_list, sgi, active_cores,
                   shutdowns>>

(* ... and at zero reads the restart scope and calls the PMU; then it waits. *)
Shutdown(c) ==
    /\ pc[c] = "shutdown"
    /\ shutdowns' = shutdowns + 1
    /\ Goto(c, "wfi")
    /\ UNCHANGED <<ttc3, power, i, target_cpu_list, sgi, active_cores>>

zynqmp_sgi7_irq(c) == TakeSgi(c) \/ Decrement(c) \/ Test(c) \/ Shutdown(c)

(* PSCI CPU_OFF: the core enters EL3, where FIQs are masked, disables its    *)
(* CPU interface and has the PMU power it down.                              *)
CpuOffCall(c) ==
    /\ Hotplug
    /\ c # Primary
    /\ Interruptible(c)
    /\ Goto(c, "psci")
    /\ UNCHANGED <<ttc3, power, i, target_cpu_list, sgi, active_cores,
                   shutdowns>>

zynqmp_pwr_domain_off(c) ==
    /\ pc[c] = "psci"
    /\ power' = [power EXCEPT ![c] = "off"]
    /\ Goto(c, "lower")
    /\ UNCHANGED <<ttc3, i, target_cpu_list, sgi, active_cores, shutdowns>>

(* PSCI CPU_ON from another core: the PMU wakes the core, which enables its  *)
(* CPU interface; an SGI pending for it at the distributor is still there.   *)
zynqmp_pwr_domain_on(c) ==
    /\ Hotplug
    /\ power[c] = "off"
    /\ \E d \in Cores : Interruptible(d)
    /\ power' = [power EXCEPT ![c] = "on"]
    /\ UNCHANGED <<ttc3, pc, i, target_cpu_list, sgi, active_cores,
                   shutdowns>>

Next == \/ WdtEvent
        \/ ttc_fiq_handler
        \/ trigger_wdt_restart
        \/ \E c \in Cores : \/ zynqmp_sgi7_irq(c)
                           \/ CpuOffCall(c)
                           \/ zynqmp_pwr_domain_off(c)
                           \/ zynqmp_pwr_domain_on(c)

(* A core executes its EL3 code to the end, and a pending FIQ is taken.      *)
Fairness ==
    /\ WF_vars(ttc_fiq_handler)
    /\ WF_vars(trigger_wdt_restart)
    /\ \A c \in Cores : /\ WF_vars(zynqmp_sgi7_irq(c))
                        /\ WF_vars(zynqmp_pwr_domain_off(c))

Spec == Init /\ [][Next]_vars /\ Fairness

-----------------------------------------------------------------------------
(* Cores that have taken themselves out of the count and never return.       *)
Parked(c) == pc[c] \in {"test", "shutdown", "wfi"}

(* The count has been set: the primary is past its critical section.         *)
Counting == \E c \in Cores : Parked(c) \/ pc[c] \in {"raise", "sgi"} \/ c \in sgi

(* active_cores is exactly the number of counted cores that still run: no    *)
(* decrement is lost, and none happens before the count is set.              *)
CountExact ==
    Counting => active_cores = Cardinality({c \in target_cpu_list : ~Parked(c)})

(* The restart is requested only when every core that was sent SGI 7 has     *)
(* left the rich OS for good.                                                *)
ShutdownAfterAll == shutdowns > 0 => \A c \in target_cpu_list : Parked(c)

(* Without CPU hotplug the restart is requested with no core still running   *)
(* (theorem NobodyRuns).                                                     *)
NoRunningCore ==
    shutdowns > 0 => \A c \in Cores : power[c] = "on" => Parked(c)

(* A watchdog event leads to the restart request.                            *)
RestartHappens == ttc3 ~> (shutdowns > 0)

(* It does, in spite of cores going off and on, unless a core that has been  *)
(* counted is powered down before it takes SGI 7: that is the only way in    *)
(* which the protocol can come to a halt.                                    *)
RestartUnlessLost ==
    ttc3 ~> (shutdowns > 0 \/ \E c \in sgi : power[c] = "off")

-----------------------------------------------------------------------------
(* The inductive strengthening behind the safety properties.                 *)

Live == {c \in target_cpu_list : ~Parked(c)}

(* Only the primary runs the TTC handler, and it is never switched off.      *)
PrimaryInv ==
    /\ power[Primary] = "on"
    /\ pc[Primary] # "psci"
    /\ \A c \in Cores : pc[c] \in {"status", "raise"} => c = Primary

(* While the primary asks for the cores' states nothing has been started.    *)
StatusInv ==
    /\ ~Counting => shutdowns = 0
    /\ pc[Primary] = "status" =>
          /\ ~Counting
          /\ i \in 0..NumCores
          /\ \A c \in target_cpu_list : c < i
          /\ i > 0 => Primary \in target_cpu_list

(* From then on SGI 7 goes to the counted cores, in descending order, and    *)
(* each of them has it pending until it parks: in particular the primary,    *)
(* so that the TTC interrupt, pending for ever, is not handled again.        *)
SgiInv ==
    /\ Counting => Primary \in target_cpu_list
    /\ \A c \in Cores :
          /\ c \in sgi \/ pc[c] = "sgi" \/ Parked(c) => c \in target_cpu_list
          /\ pc[c] = "sgi" => c \in sgi
          /\ Parked(c) => c \notin sgi
          /\ Counting /\ c \in target_cpu_list =>
                IF pc[Primary] = "raise" /\ c <= i
                THEN c \notin sgi /\ pc[c] # "sgi" /\ ~Parked(c)
                ELSE c \in sgi \/ Parked(c)

(* Zero, once seen, stays: nobody is left to change the count.               *)
ZeroInv ==
    (shutdowns > 0 \/ \E c \in Cores : pc[c] = "shutdown") => Live = {}

(* Without hotplug every core that is on is counted.                         *)
AllCountedInv ==
    ~Hotplug => \A c \in Cores :
                  /\ pc[c] # "psci"
                  /\ power[c] = "on" /\ (Counting \/ (pc[Primary] = "status" /\ c < i))
                     => c \in target_cpu_list

IInv == /\ TypeOK /\ PrimaryInv /\ StatusInv /\ SgiInv /\ CountExact /\ ZeroInv
        /\ AllCountedInv
=============================================================================

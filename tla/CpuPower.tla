------------------------------ MODULE CpuPower ------------------------------
(****************************************************************************)
(* PSCI on the ZynqMP: CPU_ON, CPU_OFF, CPU_SUSPEND and SYSTEM_SUSPEND of   *)
(* TF-A (lib/psci) with the hooks of the port (plat_psci.c, pm_client.c),   *)
(* of OP-TEE's dispatcher (opteed_pm.c) and of the GIC driver, down to the  *)
(* PMU that powers the cores, and what becomes of the heartbeat's IRQ 74.   *)
(*                                                                          *)
(* Steps are cut at the accesses that other cores can see.  What a core     *)
(* does to its own state or under a lock it holds is part of the step       *)
(* before.  The mailbox to the PMU is locked for a whole request, which is  *)
(* one step; so are the PSCI locks' acquisitions (BakeryLock).              *)
(*                                                                          *)
(* HW_ASSISTED_COHERENCY is 0: a core that goes down has its caches off and *)
(* invalidates the line of its own affinity state, so that a state another  *)
(* core has just written there and not yet flushed may be lost.             *)
(****************************************************************************)
EXTENDS Naturals, FiniteSets

CONSTANT NumCores    \* PLATFORM_CORE_COUNT (4 on the ZynqMP)

ASSUME PowerAssumption == NumCores \in Nat \ {0}

Cores == 0..(NumCores - 1)
Primary == 0
None == NumCores     \* no core

VARIABLES
    serial,        \* Linux has one hotplug operation at a time (its cpu_hotplug_lock)
    pc, tgt,       \* core -> where it is, and the target of its CPU_ON
    cpu,           \* core -> its psci_svc_cpu_data, contexts and requested cluster state
    unflushed,     \* core -> affinity state in another core's cache, or "none"
    node,          \* local_state of the cluster's power domain node
    pd_lock,       \* holder of the node's lock
    cpu_lock,      \* core -> holder of its cpu_lock
    PWRCTL, client_lock, val,   \* APU_PWRCTL, pm_client_secure_lock, core -> value read
    suspend_mode,
    pmu,           \* core -> its state at the PMU
    ram,           \* the core whose last suspend was to RAM, or None
    sources,       \* wake sources set for that suspend
    cpuif,         \* cores whose GIC CPU interface is enabled
    ttc2,          \* the distributor's view of IRQ_TTC2_0
    coherent,      \* the interconnect snoops the cluster
    resumed        \* history: the GIC was initialised again by a resume

psciVars == <<cpu, unflushed, node, pd_lock, cpu_lock>>
pmVars == <<PWRCTL, client_lock, val, suspend_mode, pmu, ram, sources>>
gicVars == <<cpuif, ttc2, coherent, resumed>>
vars == <<serial, pc, tgt, psciVars, pmVars, gicVars>>

OnSteps == {"on_flush", "on_check", "on_reflush", "on_status", "on_read", "on_write",
            "on_wake", "on_ctx", "on_undo", "on_unflush"}
OffSteps == {"off_read", "off_write", "off_ipi", "off_aff", "off_inv"}
SusSteps == {"last", "sus", "sus_read", "sus_write", "sus_ipi"}
BootSteps == {"warm", "on_fin", "fin_read", "fin_write", "fin_gic", "run"}
Steps == {"ns", "wfi", "spin", "down", "panic"} \cup OnSteps \cup OffSteps \cup SusSteps \cup BootSteps

Aff == {"ON", "ON_PENDING", "OFF"}
SpiState == [group : 0..1, targets : SUBSET Cores, enabled : BOOLEAN]
CpuData == [aff : Aff, local : {"RUN", "OFF"}, req : {"RUN", "OFF"},
            lvl : {"cpu", "system", "invalid"}, ctx : BOOLEAN,
            optee : {"ON", "OFF", "SUSPEND"}]

TypeOK ==
    /\ serial \in BOOLEAN
    /\ pc \in [Cores -> Steps]
    /\ tgt \in [Cores -> Cores]
    /\ cpu \in [Cores -> CpuData]
    /\ unflushed \in [Cores -> {"none", "ON_PENDING", "OFF"}]
    /\ node \in {"RUN", "OFF"}
    /\ pd_lock \in Cores \cup {None}
    /\ cpu_lock \in [Cores -> Cores \cup {None}]
    /\ PWRCTL \in SUBSET Cores
    /\ client_lock \in Cores \cup {None}
    /\ val \in [Cores -> SUBSET Cores]
    /\ suspend_mode \in {"STD", "POWER_OFF"}
    /\ pmu \in [Cores -> {"ACTIVE", "SUSPENDING", "SLEEP", "FORCEDOFF"}]
    /\ ram \in Cores \cup {None}
    /\ sources \in SUBSET {"TTC2", "LINUX", "EXTERN"}
    /\ cpuif \in SUBSET Cores
    /\ ttc2 \in SpiState
    /\ coherent \in BOOLEAN
    /\ resumed \in BOOLEAN

(* After psci_setup, the cold boot of the primary and zynqmp_swdt_init.      *)
Init ==
    /\ serial \in BOOLEAN
    /\ pc = [c \in Cores |-> IF c = Primary THEN "ns" ELSE "down"]
    /\ tgt = [c \in Cores |-> c]
    /\ cpu = [c \in Cores |->
                IF c = Primary
                THEN [aff |-> "ON", local |-> "RUN", req |-> "RUN", lvl |-> "invalid",
                      ctx |-> FALSE, optee |-> "ON"]
                ELSE [aff |-> "OFF", local |-> "OFF", req |-> "OFF", lvl |-> "invalid",
                      ctx |-> FALSE, optee |-> "OFF"]]
    /\ unflushed = [c \in Cores |-> "none"]
    /\ node = "RUN"
    /\ pd_lock = None
    /\ cpu_lock = [c \in Cores |-> None]
    /\ PWRCTL = {}
    /\ client_lock = None
    /\ val = [c \in Cores |-> {}]
    /\ suspend_mode = "STD"
    /\ pmu = [c \in Cores |-> IF c = Primary THEN "ACTIVE" ELSE "FORCEDOFF"]
    /\ ram = None
    /\ sources = {}
    /\ cpuif = {Primary}
    /\ ttc2 = [group |-> 0, targets |-> Cores, enabled |-> TRUE]
    /\ coherent = TRUE
    /\ resumed = FALSE

Goto(c, step) == pc' = [pc EXCEPT ![c] = step]

(* psci_get_aff_info_state_by_idx of a core with its caches on.              *)
AffState(t) == IF unflushed[t] = "none" THEN cpu[t].aff ELSE unflushed[t]

(* Linux starts a hotplug operation when the last one is complete: CPU_OFF   *)
(* when AFFINITY_INFO says OFF, CPU_ON when the target is up.                *)
Permitted ==
    serial => \A d \in Cores :
                 /\ pc[d] \in {"ns", "off_inv", "wfi", "spin", "down"}
                 /\ AffState(d) # "ON_PENDING"

-----------------------------------------------------------------------------
(* CPU_ON (psci_cpu_on_start).  The affinity state must be OFF, else the     *)
(* call returns ALREADY_ON or ON_PENDING and nothing has changed.            *)
CpuOn(c, t) ==
    /\ pc[c] = "ns"
    /\ Permitted
    /\ cpu_lock[t] = None
    /\ AffState(t) = "OFF"
    /\ cpu_lock' = [cpu_lock EXCEPT ![t] = c]
    /\ unflushed' = [unflushed EXCEPT ![t] = "ON_PENDING"]
    /\ tgt' = [tgt EXCEPT ![c] = t]
    /\ Goto(c, "on_flush")
    /\ UNCHANGED <<serial, cpu, node, pd_lock, pmVars, gicVars>>

(* Memory gets what the cache still has of the state.                        *)
FlushAff(t) ==
    /\ cpu' = [cpu EXCEPT ![t].aff = AffState(t)]
    /\ unflushed' = [unflushed EXCEPT ![t] = "none"]

OnFlush(c) ==
    /\ pc[c] \in {"on_flush", "on_reflush"}
    /\ FlushAff(tgt[c])
    /\ Goto(c, IF pc[c] = "on_flush" THEN "on_check" ELSE "on_status")
    /\ UNCHANGED <<serial, tgt, node, pd_lock, cpu_lock, pmVars, gicVars>>

(* Mutant of OnCheck: the update is not retried.                             *)
OnCheckNoRetry(c) ==
    /\ pc[c] = "on_check"
    /\ Goto(c, "on_status")
    /\ UNCHANGED <<serial, tgt, psciVars, pmVars, gicVars>>

(* The update is retried, once, if the target's invalidation has undone it.  *)
OnCheck(c) ==
    /\ pc[c] = "on_check"
    /\ IF AffState(tgt[c]) = "ON_PENDING"
       THEN Goto(c, "on_status") /\ UNCHANGED unflushed
       ELSE /\ unflushed' = [unflushed EXCEPT ![tgt[c]] = "ON_PENDING"]
            /\ Goto(c, "on_reflush")
    /\ UNCHANGED <<serial, tgt, cpu, node, pd_lock, cpu_lock, pmVars, gicVars>>

(* Mutant of OnStatus: the state at the PMU is not looked at.                *)
OnStatusIgnored(c) ==
    /\ pc[c] = "on_status"
    /\ Goto(c, "on_read")
    /\ UNCHANGED <<serial, tgt, psciVars, pmVars, gicVars>>

(* zynqmp_pwr_domain_on: the PMU says the target is still on its way down,   *)
(* or does not answer: INTERN_FAIL.                                          *)
OnStatus(c) ==
    /\ pc[c] = "on_status"
    /\ \/ pmu[tgt[c]] # "SUSPENDING" /\ Goto(c, "on_read")
       \/ Goto(c, "on_undo")
    /\ UNCHANGED <<serial, tgt, psciVars, pmVars, gicVars>>

(* The failed call restores the state, flushes it and returns.               *)
OnUndo(c) ==
    /\ pc[c] = "on_undo"
    /\ unflushed' = [unflushed EXCEPT ![tgt[c]] = "OFF"]
    /\ Goto(c, "on_unflush")
    /\ UNCHANGED <<serial, tgt, cpu, node, pd_lock, cpu_lock, pmVars, gicVars>>

OnUnflush(c) ==
    /\ pc[c] = "on_unflush"
    /\ FlushAff(tgt[c])
    /\ cpu_lock' = [cpu_lock EXCEPT ![tgt[c]] = None]
    /\ tgt' = [tgt EXCEPT ![c] = c]
    /\ Goto(c, "ns")
    /\ UNCHANGED <<serial, node, pd_lock, pmVars, gicVars>>

(* pm_req_wakeup: the PMU lets a sleeping core out of reset at the warm boot *)
(* entry; the suspend of a core that has not gone to sleep yet is aborted.   *)
OnWake(c) ==
    /\ pc[c] = "on_wake"
    /\ pmu' = [pmu EXCEPT ![tgt[c]] = "ACTIVE"]
    /\ pc' = [pc EXCEPT ![c] = "on_ctx",
                        ![tgt[c]] = IF pmu[tgt[c]] \in {"SLEEP", "FORCEDOFF"} THEN "warm" ELSE @]
    /\ UNCHANGED <<serial, tgt, psciVars, PWRCTL, client_lock, val, suspend_mode, ram, sources,
                   gicVars>>

(* The target's non-secure context is prepared, the lock is released.        *)
OnContext(c) ==
    /\ pc[c] = "on_ctx"
    /\ cpu' = [cpu EXCEPT ![tgt[c]].ctx = TRUE]
    /\ cpu_lock' = [cpu_lock EXCEPT ![tgt[c]] = None]
    /\ tgt' = [tgt EXCEPT ![c] = c]
    /\ Goto(c, "ns")
    /\ UNCHANGED <<serial, unflushed, node, pd_lock, pmVars, gicVars>>

-----------------------------------------------------------------------------
(* pm_client.c: a power-down request bit is changed under the client lock.   *)

(* Mutant of ClientRead: the lock is not taken.                              *)
ClientReadUnlocked(c) ==
    /\ pc[c] \in {"on_read", "off_read", "sus_read", "fin_read"}
    /\ val' = [val EXCEPT ![c] = PWRCTL]
    /\ Goto(c, CASE pc[c] = "on_read" -> "on_write"
                 [] pc[c] = "off_read" -> "off_write"
                 [] pc[c] = "sus_read" -> "sus_write"
                 [] OTHER -> "fin_write")
    /\ UNCHANGED <<serial, tgt, psciVars, PWRCTL, client_lock, suspend_mode, pmu, ram, sources,
                   gicVars>>

(* The lock is taken and the register read ...                               *)
ClientRead(c) ==
    /\ pc[c] \in {"on_read", "off_read", "sus_read", "fin_read"}
    /\ client_lock = None
    /\ client_lock' = c
    /\ val' = [val EXCEPT ![c] = PWRCTL]
    /\ Goto(c, CASE pc[c] = "on_read" -> "on_write"
                 [] pc[c] = "off_read" -> "off_write"
                 [] pc[c] = "sus_read" -> "sus_write"
                 [] OTHER -> "fin_write")
    /\ UNCHANGED <<serial, tgt, psciVars, PWRCTL, suspend_mode, pmu, ram, sources, gicVars>>

(* ... pm_client_wakeup clears the bit of the target or of the core itself ...*)
pm_client_wakeup(c) ==
    /\ pc[c] \in {"on_write", "fin_write"}
    /\ LET proc == IF pc[c] = "on_write" THEN tgt[c] ELSE c
       IN  PWRCTL' = val[c] \ {proc}
    /\ client_lock' = None
    /\ Goto(c, IF pc[c] = "on_write" THEN "on_wake" ELSE "fin_gic")
    /\ val' = [val EXCEPT ![c] = {}]
    /\ UNCHANGED <<serial, tgt, psciVars, suspend_mode, pmu, ram, sources, gicVars>>

(* The suspend in progress takes the cluster down with it.                   *)
ToRam(c) == pd_lock = c /\ node = "OFF"

(* pm_client_set_wakeup_sources: the nodes of all enabled SPIs, or for       *)
(* power-off only EXTERN unless the PMU refuses it.                          *)
WakeupSources ==
    (IF suspend_mode = "POWER_OFF" THEN {{"EXTERN"}} ELSE {})
    \cup {{"LINUX"} \cup IF ttc2.enabled THEN {"TTC2"} ELSE {}}

(* ... and pm_client_suspend sets its own.                                   *)
pm_client_suspend(c) ==
    /\ pc[c] \in {"off_write", "sus_write"}
    /\ IF pc[c] = "sus_write" /\ ToRam(c)
       THEN ram' = c /\ sources' \in WakeupSources
       ELSE UNCHANGED <<ram, sources>>
    /\ PWRCTL' = val[c] \cup {c}
    /\ client_lock' = None
    /\ Goto(c, IF pc[c] = "off_write" THEN "off_ipi" ELSE "sus_ipi")
    /\ val' = [val EXCEPT ![c] = {}]
    /\ UNCHANGED <<serial, tgt, psciVars, suspend_mode, pmu, gicVars>>

(* Bound: explored where hotplug is serialised.                              *)
pm_set_suspend_mode(c) ==
    /\ pc[c] = "ns"
    /\ serial
    /\ suspend_mode' \in {"STD", "POWER_OFF"}
    /\ UNCHANGED <<serial, pc, tgt, psciVars, PWRCTL, client_lock, val, pmu, ram, sources,
                   gicVars>>

-----------------------------------------------------------------------------
(* plat_get_target_pwr_state for the cluster, c having requested OFF.        *)
Coordinated(c) == IF \A d \in Cores \ {c} : cpu[d].req = "OFF" THEN "OFF" ELSE "RUN"

(* CPU_OFF (psci_do_cpu_off) up to pm_self_suspend: lock, OP-TEE told (it    *)
(* never refuses), states coordinated, CPU interface disabled.               *)
CpuOff(c) ==
    /\ pc[c] = "ns"
    /\ Permitted
    /\ pd_lock = None
    /\ pd_lock' = c
    /\ cpu' = [cpu EXCEPT ![c].optee = "OFF", ![c].req = "OFF", ![c].local = "OFF"]
    /\ node' = Coordinated(c)
    /\ cpuif' = cpuif \ {c}
    /\ Goto(c, "off_read")
    /\ UNCHANGED <<serial, tgt, unflushed, cpu_lock, pmVars, ttc2, coherent, resumed>>

(* The request to the PMU, then the lock is released ...                     *)
OffIpi(c) ==
    /\ pc[c] = "off_ipi"
    /\ pmu' = [pmu EXCEPT ![c] = "SUSPENDING"]
    /\ pd_lock' = None
    /\ Goto(c, "off_aff")
    /\ UNCHANGED <<serial, tgt, cpu, unflushed, node, cpu_lock, PWRCTL, client_lock, val,
                   suspend_mode, ram, sources, gicVars>>

(* ... the state is written to memory, caches being off ...                  *)
OffAff(c) ==
    /\ pc[c] = "off_aff"
    /\ cpu' = [cpu EXCEPT ![c].aff = "OFF"]
    /\ Goto(c, "off_inv")
    /\ UNCHANGED <<serial, tgt, unflushed, node, pd_lock, cpu_lock, pmVars, gicVars>>

(* ... and its line invalidated: what a cache had of it is gone, or is       *)
(* written back first.                                                       *)
OffInv(c) ==
    /\ pc[c] = "off_inv"
    /\ \/ UNCHANGED cpu
       \/ cpu' = [cpu EXCEPT ![c].aff = AffState(c)]
    /\ unflushed' = [unflushed EXCEPT ![c] = "none"]
    /\ Goto(c, "wfi")
    /\ UNCHANGED <<serial, tgt, node, pd_lock, cpu_lock, pmVars, gicVars>>

-----------------------------------------------------------------------------
(* CPU_SUSPEND to power down (psci_cpu_suspend_start at the CPU level, which *)
(* has no lock), up to pm_self_suspend.  With an interrupt pending, or for   *)
(* standby, the call returns and nothing has changed.                        *)
CpuSuspend(c) ==
    /\ pc[c] = "ns"
    /\ cpu' = [cpu EXCEPT ![c].local = "OFF", ![c].lvl = "cpu", ![c].optee = "SUSPEND",
                          ![c].ctx = TRUE]
    /\ Goto(c, "sus_read")
    /\ UNCHANGED <<serial, tgt, unflushed, node, pd_lock, cpu_lock, pmVars, gicVars>>

(* SYSTEM_SUSPEND: psci_is_last_on_cpu looks at one core after the other,    *)
(* tgt being its loop variable; a core that is not OFF denies the call.      *)
SystemSuspend(c) ==
    /\ pc[c] = "ns"
    /\ Permitted
    /\ tgt' = [tgt EXCEPT ![c] = 0]
    /\ Goto(c, "last")
    /\ UNCHANGED <<serial, psciVars, pmVars, gicVars>>

LastOnCpu(c) ==
    /\ pc[c] = "last"
    /\ Goto(c, IF tgt[c] # c /\ AffState(tgt[c]) # "OFF" THEN "ns"
               ELSE IF tgt[c] = NumCores - 1 THEN "sus" ELSE "last")
    /\ tgt' = [tgt EXCEPT ![c] = IF pc'[c] = "last" THEN @ + 1 ELSE c]
    /\ UNCHANGED <<serial, psciVars, pmVars, gicVars>>

(* psci_cpu_suspend_start at the system level; it returns if an interrupt is *)
(* pending when it has the lock.                                             *)
SuspendStart(c) ==
    /\ pc[c] = "sus"
    /\ pd_lock = None
    /\ \/ /\ pd_lock' = c
          /\ cpu' = [cpu EXCEPT ![c].req = "OFF", ![c].local = "OFF", ![c].lvl = "system",
                                ![c].optee = "SUSPEND", ![c].ctx = TRUE]
          /\ node' = Coordinated(c)
          /\ Goto(c, "sus_read")
       \/ Goto(c, "ns") /\ UNCHANGED <<pd_lock, cpu, node>>
    /\ UNCHANGED <<serial, tgt, unflushed, cpu_lock, pmVars, gicVars>>

(* Mutant of SuspendIpi: the lock is not released.                           *)
SuspendIpiLocked(c) ==
    /\ pc[c] = "sus_ipi"
    /\ pmu' = [pmu EXCEPT ![c] = "SUSPENDING"]
    /\ coherent' = IF ToRam(c) THEN FALSE ELSE coherent
    /\ Goto(c, "wfi")
    /\ UNCHANGED <<serial, tgt, psciVars, PWRCTL, client_lock, val, suspend_mode, ram, sources,
                   cpuif, ttc2, resumed>>

(* zynqmp_pwr_domain_suspend: the request to the PMU, the cluster leaves the *)
(* coherent interconnect if it goes down, the lock is released if held.      *)
SuspendIpi(c) ==
    /\ pc[c] = "sus_ipi"
    /\ pmu' = [pmu EXCEPT ![c] = "SUSPENDING"]
    /\ coherent' = IF ToRam(c) THEN FALSE ELSE coherent
    /\ pd_lock' = IF pd_lock = c THEN None ELSE pd_lock
    /\ Goto(c, "wfi")
    /\ UNCHANGED <<serial, tgt, cpu, unflushed, node, cpu_lock, PWRCTL, client_lock, val,
                   suspend_mode, ram, sources, cpuif, ttc2, resumed>>

-----------------------------------------------------------------------------
(* The PMU and the hardware.                                                 *)

(* A core in wfi with its request bit set is powered down.                   *)
PowerDown(c) ==
    /\ pc[c] = "wfi"
    /\ c \in PWRCTL
    /\ pmu[c] = "SUSPENDING"
    /\ pmu' = [pmu EXCEPT ![c] = "SLEEP"]
    /\ Goto(c, "down")
    /\ UNCHANGED <<serial, tgt, psciVars, PWRCTL, client_lock, val, suspend_mode, ram, sources,
                   gicVars>>

(* An interrupt for a core that still listens makes wfi return, and          *)
(* psci_power_down_wfi falls into the loop of plat_panic_handler.  A suspend *)
(* leaves the CPU interface on, and has looked for pending interrupts only   *)
(* when it began (SuspendStart).                                             *)
WfiReturns(c) ==
    /\ pc[c] = "wfi"
    /\ c \in cpuif
    /\ Goto(c, "spin")
    /\ UNCHANGED <<serial, tgt, psciVars, pmVars, gicVars>>

(* The loop is another wfi, which holds once a running core has taken the    *)
(* interrupt.                                                                *)
InterruptTaken(c) ==
    /\ pc[c] = "spin"
    /\ \E d \in cpuif : pc[d] = "ns"
    /\ Goto(c, "wfi")
    /\ UNCHANGED <<serial, tgt, psciVars, pmVars, gicVars>>

(* Suspended to RAM, the APU loses power and the GIC its registers.          *)
ApuDown ==
    /\ ram # None
    /\ \A c \in Cores : pmu[c] \in {"SLEEP", "FORCEDOFF"}
    /\ ttc2' = [group |-> 0, targets |-> {}, enabled |-> FALSE]
    /\ cpuif' = {}
    /\ UNCHANGED <<serial, pc, tgt, psciVars, pmVars, coherent, resumed>>

Wake(c) ==
    /\ pc[c] = "down"
    /\ pmu[c] = "SLEEP"
    /\ pmu' = [pmu EXCEPT ![c] = "ACTIVE"]
    /\ IF ram = c THEN ram' = None /\ sources' = {} ELSE UNCHANGED <<ram, sources>>
    /\ Goto(c, "warm")
    /\ UNCHANGED <<serial, tgt, psciVars, PWRCTL, client_lock, val, suspend_mode, gicVars>>

(* TTC2 runs on in the low-power domain and wakes the system within 2 s if   *)
(* it is a wake source; every other wake-up may or may not come.             *)
WakeByHeartbeat(c) == ram = c /\ "TTC2" \in sources /\ Wake(c)

WakeByOther(c) == (IF ram = c THEN sources # {} ELSE c \in cpuif) /\ Wake(c)

-----------------------------------------------------------------------------
(* psci_warmboot_entrypoint: a state of OFF is a panic; with the lock of the *)
(* node, unless suspended at the CPU level, go to the finisher.              *)
WarmBoot(c) ==
    /\ pc[c] = "warm"
    /\ IF AffState(c) = "OFF"
       THEN Goto(c, "panic") /\ UNCHANGED pd_lock
       ELSE /\ IF cpu[c].lvl = "cpu"
               THEN UNCHANGED pd_lock
               ELSE pd_lock = None /\ pd_lock' = c
            /\ Goto(c, IF AffState(c) = "ON_PENDING" THEN "on_fin" ELSE "fin_read")
    /\ UNCHANGED <<serial, tgt, cpu, unflushed, node, cpu_lock, pmVars, gicVars>>

(* Mutant of OnFinish: no synchronisation with psci_cpu_on_start.            *)
OnFinishAtOnce(c) ==
    /\ pc[c] = "on_fin"
    /\ cpuif' = cpuif \cup {c}
    /\ cpu' = [cpu EXCEPT ![c].optee = "ON"]
    /\ Goto(c, "run")
    /\ UNCHANGED <<serial, tgt, unflushed, node, pd_lock, cpu_lock, pmVars, ttc2, coherent,
                   resumed>>

(* Mutant of OnFinish: the CPU interface is not enabled.                     *)
OnFinishDeaf(c) ==
    /\ pc[c] = "on_fin"
    /\ cpu_lock[c] = None
    /\ cpu' = [cpu EXCEPT ![c].optee = "ON"]
    /\ Goto(c, "run")
    /\ UNCHANGED <<serial, tgt, unflushed, node, pd_lock, cpu_lock, pmVars, gicVars>>

(* psci_cpu_on_finish: the CPU interface is enabled, cpu_lock taken and      *)
(* released to wait for the context, OP-TEE initialised on this core.        *)
OnFinish(c) ==
    /\ pc[c] = "on_fin"
    /\ cpu_lock[c] = None
    /\ cpuif' = cpuif \cup {c}
    /\ cpu' = [cpu EXCEPT ![c].optee = "ON"]
    /\ Goto(c, "run")
    /\ UNCHANGED <<serial, tgt, unflushed, node, pd_lock, cpu_lock, pmVars, ttc2, coherent,
                   resumed>>

(* plat_arm_gic_init: every SPI goes to Group 1, then those of the property  *)
(* table are secured again; IRQ_TTC2_0 is not one of them.                   *)
plat_arm_gic_init(c) ==
    /\ ttc2' = [ttc2 EXCEPT !.group = 1]
    /\ cpuif' = cpuif \cup {c}
    /\ resumed' = TRUE

(* Mutant of SuspendFinish: the cluster stays out of the interconnect.       *)
SuspendFinishIncoherent(c) ==
    /\ pc[c] = "fin_gic"
    /\ IF ToRam(c) THEN plat_arm_gic_init(c)
       ELSE cpuif' = cpuif \cup {c} /\ UNCHANGED <<ttc2, resumed>>
    /\ cpu' = [cpu EXCEPT ![c].optee = "ON", ![c].lvl = "invalid"]
    /\ Goto(c, "run")
    /\ UNCHANGED <<serial, tgt, unflushed, node, pd_lock, cpu_lock, pmVars, coherent>>

(* zynqmp_pwr_domain_suspend_finish after pm_client_wakeup, and the rest of  *)
(* psci_cpu_suspend_finish.                                                  *)
SuspendFinish(c) ==
    /\ pc[c] = "fin_gic"
    /\ coherent' = TRUE
    /\ IF ToRam(c) THEN plat_arm_gic_init(c)
       ELSE cpuif' = cpuif \cup {c} /\ UNCHANGED <<ttc2, resumed>>
    /\ cpu' = [cpu EXCEPT ![c].optee = "ON", ![c].lvl = "invalid"]
    /\ Goto(c, "run")
    /\ UNCHANGED <<serial, tgt, unflushed, node, pd_lock, cpu_lock, pmVars>>

(* Mutant of Run: the cluster state this core asks for is not reset.         *)
RunStillOff(c) ==
    /\ pc[c] = "run"
    /\ IF pd_lock = c THEN node' = "RUN" /\ pd_lock' = None ELSE UNCHANGED <<node, pd_lock>>
    /\ cpu' = [cpu EXCEPT ![c].aff = "ON", ![c].local = "RUN", ![c].ctx = FALSE]
    /\ unflushed' = [unflushed EXCEPT ![c] = "none"]
    /\ Goto(c, "ns")
    /\ UNCHANGED <<serial, tgt, cpu_lock, pmVars, gicVars>>

(* psci_set_pwr_domains_to_run up to the level of the lock, which is then    *)
(* released; the core leaves EL3 with the context prepared for it.           *)
Run(c) ==
    /\ pc[c] = "run"
    /\ IF pd_lock = c THEN node' = "RUN" /\ pd_lock' = None ELSE UNCHANGED <<node, pd_lock>>
    /\ cpu' = [cpu EXCEPT ![c].aff = "ON", ![c].local = "RUN", ![c].ctx = FALSE,
                          ![c].req = IF pd_lock = c THEN "RUN" ELSE @]
    /\ unflushed' = [unflushed EXCEPT ![c] = "none"]
    /\ Goto(c, "ns")
    /\ UNCHANGED <<serial, tgt, cpu_lock, pmVars, gicVars>>

-----------------------------------------------------------------------------
psci_cpu_on_start(c) ==
    \/ OnFlush(c) \/ OnCheck(c) \/ OnStatus(c) \/ OnUndo(c) \/ OnUnflush(c) \/ OnWake(c)
    \/ OnContext(c)

psci_do_cpu_off(c) == OffIpi(c) \/ OffAff(c) \/ OffInv(c)

psci_cpu_suspend_start(c) == LastOnCpu(c) \/ SuspendStart(c) \/ SuspendIpi(c)

psci_warmboot_entrypoint(c) == WarmBoot(c) \/ OnFinish(c) \/ SuspendFinish(c) \/ Run(c)

(* The steps of a core in EL3.                                               *)
El3(c) == \/ psci_cpu_on_start(c) \/ psci_do_cpu_off(c) \/ psci_cpu_suspend_start(c)
          \/ psci_warmboot_entrypoint(c)
          \/ ClientRead(c) \/ pm_client_wakeup(c) \/ pm_client_suspend(c)

(* The PSCI and PM calls of the normal world.                                *)
Smc(c) == \/ \E t \in Cores : CpuOn(c, t)
          \/ CpuOff(c) \/ CpuSuspend(c) \/ SystemSuspend(c) \/ pm_set_suspend_mode(c)

Next == \/ \E c \in Cores : \/ Smc(c) \/ El3(c)
                           \/ PowerDown(c) \/ WfiReturns(c) \/ InterruptTaken(c)
                           \/ WakeByHeartbeat(c) \/ WakeByOther(c)
        \/ ApuDown

(* A core runs its EL3 code; the spin and bakery locks it waits for are not  *)
(* denied to it for ever (BakeryLock implements Mutex).  The PMU powers down  *)
(* what asks for it, and TTC2 fires.                                         *)
Fairness == /\ \A c \in Cores : /\ SF_vars(El3(c))
                                /\ WF_vars(PowerDown(c))
            /\ WF_vars(\E c \in Cores : WakeByHeartbeat(c))

Spec == Init /\ [][Next]_vars /\ Fairness

-----------------------------------------------------------------------------
(* The panics and assertions of the code about another core's doing hold:    *)
(* one retry of ON_PENDING is enough (psci_on.c line 134), nobody wakes with *)
(* an affinity state of OFF (psci_common.c line 780), a core turned on is    *)
(* ON_PENDING when it looks again (psci_on.c line 211), a resumed one ON and *)
(* locally off (psci_suspend.c line 285), and OP-TEE is in the state its     *)
(* dispatcher expects (opteed_pm.c lines 36, 69, 103, 138).                  *)
AssertionsHold ==
    \A c \in Cores :
        /\ pc[c] # "panic"
        /\ pc[c] \in {"on_status", "on_read", "on_write", "on_wake"} =>
              AffState(tgt[c]) = "ON_PENDING"
        /\ pc[c] = "on_fin" => AffState(c) = "ON_PENDING" /\ cpu[c].optee = "OFF"
        /\ pc[c] \in {"fin_read", "fin_write", "fin_gic"} =>
              /\ AffState(c) = "ON"
              /\ cpu[c].local = "OFF"
              /\ cpu[c].optee = "SUSPEND"
        /\ pc[c] = "ns" => AffState(c) = "ON" /\ cpu[c].optee = "ON"

(* A core leaves EL3 only with the context that this power-up was given,     *)
(* although CPU_ON prepares it after it has woken the core up.               *)
ContextReady == \A c \in Cores : pc[c] = "run" => cpu[c].ctx

(* No read-modify-write of APU_PWRCTL undoes another one: a core on its way  *)
(* down keeps its request until it is powered down, and a running core has   *)
(* none, so that an idle wfi does not power it off.                          *)
RequestStands ==
    \A c \in Cores :
        /\ pc[c] \in {"off_ipi", "off_aff", "off_inv", "sus_ipi", "wfi", "spin"} => c \in PWRCTL
        /\ pc[c] = "ns" => c \notin PWRCTL

(* The cluster's node says RUN whenever a core runs: coordination never      *)
(* takes the cluster down under a core that has come up.                     *)
ClusterRuns == \A c \in Cores : pc[c] = "ns" => node = "RUN" /\ cpu[c].req = "RUN"

(* Given Linux's serialisation of hotplug, no core runs while the cluster is *)
(* out of the coherent interconnect: SYSTEM_SUSPEND has the system to itself *)
(* although psci_is_last_on_cpu holds no lock.                               *)
CoherentWhileRunning == serial => \A c \in Cores : pc[c] = "ns" => coherent

(* A core that runs takes the heartbeat interrupt to EL3.                    *)
HeartbeatRouted ==
    \A c \in Cores : pc[c] = "ns" =>
        ttc2.group = 0 /\ ttc2.enabled /\ c \in ttc2.targets \cap cpuif

(* "Route to ANY CPU so whichever core is running takes the FIQ to EL3",     *)
(* zynqmp_swdt.c line 108: holds through hotplug and idle, until the APU has *)
(* been suspended to RAM.                                                    *)
HeartbeatUntilResume == serial /\ ~resumed => HeartbeatRouted

(* A CPU_ON that has woken its target brings it up: it cannot overtake the   *)
(* target's CPU_OFF, nor leave it in wfi without the power-down request.     *)
OnMeansUp ==
    \A t \in Cores :
        (\E c \in Cores : pc[c] = "on_ctx" /\ tgt[c] = t) ~> (pc[t] = "ns")

(* A suspend to RAM with the heartbeat among its wake sources does not last: *)
(* TTC2 is made one by pm_client_set_wakeup_sources like any enabled SPI, so *)
(* a core that has gone down is back within a period.  The exception is an   *)
(* interrupt that arrives before the power is off: it leaves the core in     *)
(* plat_panic_handler.                                                       *)
HeartbeatWakes ==
    (ram # None /\ "TTC2" \in sources) ~>
        (\A c \in Cores : cpu[c].lvl = "system" => pc[c] = "spin")

-----------------------------------------------------------------------------
(* The inductive strengthening behind the invariants.                        *)

(* A core that runs, in the normal world or in the calls that do not take it *)
(* down.                                                                     *)
UpSteps == {"ns", "last", "sus"} \cup OnSteps

SuspendSteps == {"sus_read", "sus_write", "sus_ipi"}
ResumeSteps == {"fin_read", "fin_write", "fin_gic"}
WriteSteps == {"on_write", "off_write", "sus_write", "fin_write"}

(* OP-TEE's view of a core tells a core that was switched off from one that  *)
(* is suspended; only the latter has a level of suspend.                     *)
PhaseInv ==
    \A d \in Cores :
        /\ pc[d] # "panic"
        /\ pc[d] \in UpSteps \cup {"run"} => cpu[d].optee = "ON"
        /\ pc[d] \in OffSteps \cup {"on_fin"} => cpu[d].optee = "OFF"
        /\ pc[d] \in SuspendSteps \cup ResumeSteps \cup {"spin"} => cpu[d].optee = "SUSPEND"
        /\ pc[d] \in {"wfi", "down", "warm"} => cpu[d].optee # "ON"
        /\ cpu[d].optee = "SUSPEND" <=> cpu[d].lvl # "invalid"
        /\ cpu[d].optee = "SUSPEND" => cpu[d].local = "OFF"

(* The state at the PMU follows from where the core is.                      *)
PmuInv ==
    \A d \in Cores :
        /\ pc[d] \in {"off_aff", "off_inv", "wfi", "spin"} => pmu[d] = "SUSPENDING"
        /\ pc[d] = "down" => pmu[d] \in {"SLEEP", "FORCEDOFF"}
        /\ pc[d] \notin {"off_aff", "off_inv", "wfi", "spin", "down"} => pmu[d] = "ACTIVE"

(* From the write of OFF to the finisher of CPU_ON, other cores may change   *)
(* the affinity state.                                                       *)
Off(d) ==
    cpu[d].optee = "OFF" /\ pc[d] \in {"off_inv", "wfi", "down", "warm", "on_fin"}

AffInv ==
    \A d \in Cores :
        /\ Off(d) => cpu[d].aff # "ON"
        /\ ~Off(d) => /\ cpu_lock[d] = None
                      /\ cpu[d].aff # "OFF"
                      /\ pc[d] # "run" => cpu[d].aff = "ON"
        /\ cpu_lock[d] = None => unflushed[d] = "none"
        /\ Off(d) /\ pc[d] \in {"warm", "on_fin"} =>
              unflushed[d] = "none" /\ cpu[d].aff = "ON_PENDING"

(* Where the target of a CPU_ON can be, and which of its states is in memory *)
(* or in the caller's cache.  An ON_PENDING that is lost before its flush    *)
(* was lost to the target's one invalidation, so the retry gets through.     *)
TargetInv(c, t) ==
    /\ cpu_lock[t] = c
    /\ Off(t)
    /\ pc[c] = "on_ctx" <=> pc[t] \in {"warm", "on_fin"}
    /\ pc[c] \in {"on_read", "on_write", "on_wake"} => pc[t] = "down"
    /\ pc[c] = "on_flush" =>
          unflushed[t] = "ON_PENDING" \/ (unflushed[t] = "none" /\ pc[t] # "off_inv")
    /\ pc[c] = "on_check" =>
          unflushed[t] = "none" /\ (cpu[t].aff = "ON_PENDING" \/ pc[t] # "off_inv")
    /\ pc[c] = "on_reflush" => unflushed[t] = "ON_PENDING" /\ pc[t] # "off_inv"
    /\ pc[c] \in {"on_status", "on_read", "on_write", "on_wake", "on_ctx", "on_undo"} =>
          unflushed[t] = "none" /\ cpu[t].aff = "ON_PENDING"

CallInv ==
    /\ \A c \in Cores : pc[c] \in OnSteps => TargetInv(c, tgt[c])
    /\ \A c, t \in Cores : cpu_lock[t] = c => pc[c] \in OnSteps /\ tgt[c] = t

(* A context was saved by the suspend, or is given by the CPU_ON that still  *)
(* has the lock.                                                             *)
ContextInv ==
    \A d \in Cores :
        /\ cpu[d].optee = "SUSPEND" \/ pc[d] = "run" => cpu[d].ctx
        /\ pc[d] \in {"warm", "on_fin"} /\ cpu_lock[d] = None => cpu[d].ctx

(* The client lock is held from the read to the write, so what was read is   *)
(* what the register has.                                                    *)
ClientInv ==
    \A d \in Cores :
        /\ pc[d] \in WriteSteps <=> client_lock = d
        /\ client_lock = d => val[d] = PWRCTL

RequestInv ==
    \A d \in Cores :
        /\ pc[d] \in {"off_ipi", "off_aff", "off_inv", "sus_ipi", "wfi", "spin"} => d \in PWRCTL
        /\ pc[d] \in UpSteps \cup {"run", "on_fin", "fin_gic", "off_read", "off_write",
                                   "sus_read", "sus_write"} => d \notin PWRCTL
        /\ pc[d] = "warm" /\ cpu[d].optee = "OFF" => d \notin PWRCTL
        /\ pc[d] = "on_wake" => tgt[d] \notin PWRCTL

(* The cluster's lock is held while its state is coordinated, and from warm  *)
(* boot to the report of RUN, except for a suspend at the CPU level.         *)
Holding(d) ==
    \/ pc[d] \in {"off_read", "off_write", "off_ipi", "on_fin"}
    \/ cpu[d].lvl = "system" /\ pc[d] \in SuspendSteps \cup ResumeSteps

ClusterInv ==
    /\ \A d \in Cores :
          /\ Holding(d) => pd_lock = d
          /\ pd_lock = d => Holding(d) \/ pc[d] = "run"
          /\ pc[d] = "run" /\ pd_lock # d => cpu[d].req = "RUN" /\ cpu[d].aff = "ON"
          /\ pc[d] \in UpSteps \/ cpu[d].lvl = "cpu" => cpu[d].req = "RUN"
          /\ cpu[d].optee = "OFF" => cpu[d].req = "OFF"
    /\ node = "OFF" => \A d \in Cores : cpu[d].req = "OFF"

(* A core that is off takes no interrupts, and only a core suspended at the  *)
(* system level is suspended to RAM.                                         *)
WakeInv ==
    \A d \in Cores :
        /\ pc[d] \in UpSteps \cup {"run"} => d \in cpuif
        /\ cpu[d].optee = "OFF" => d \notin cpuif
        /\ ram = d => cpu[d].lvl = "system" /\ pc[d] \in {"sus_ipi", "wfi", "spin", "down"}

(* With one hotplug operation at a time: a core is off and stays off, ...    *)
Down(d) ==
    /\ cpu[d].optee = "OFF"
    /\ pc[d] \in {"off_inv", "wfi", "down"}
    /\ cpu[d].aff = "OFF"
    /\ cpu_lock[d] = None

(* ... or does nothing but idle.                                             *)
Calm(d) ==
    \/ Down(d)
    \/ pc[d] = "ns"
    \/ cpu[d].lvl = "cpu"
    \/ pc[d] = "run" /\ pd_lock # d

(* The last core that SYSTEM_SUSPEND has found is the last one indeed.       *)
AloneInv ==
    serial => \A c \in Cores :
        /\ pc[c] = "last" => \A d \in Cores \ {c} : Calm(d) /\ (d < tgt[c] => Down(d))
        /\ pc[c] = "sus" \/ cpu[c].lvl = "system" => \A d \in Cores \ {c} : Down(d)
        /\ cpu[c].lvl = "system" => node = "OFF"

(* The interconnect and the GIC are out of order only while a core is        *)
(* suspended at the system level.                                            *)
RamInv ==
    /\ serial /\ ~coherent => \E c \in Cores : cpu[c].lvl = "system"
    /\ serial /\ ~resumed =>
          \/ ttc2 = [group |-> 0, targets |-> Cores, enabled |-> TRUE]
          \/ \E c \in Cores : cpu[c].lvl = "system"

IInv == /\ TypeOK /\ PhaseInv /\ PmuInv /\ AffInv /\ CallInv /\ ContextInv /\ ClientInv
        /\ RequestInv /\ ClusterInv /\ WakeInv /\ AloneInv /\ RamInv
=============================================================================

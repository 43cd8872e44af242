# Verification of the TrustZone watchdog

TLA+ models of the watchdog layers of this repository for the Xilinx ZynqMP
(ZCU102), the TLC runs that check them on small instances, and TLAPS proofs of
their main properties for every number of cores.

Source paths below are relative to `src/`; `zynqmp/` abbreviates
`arm-trusted-firmware/plat/xilinx/zynqmp/`. Which definition stands for which
lines is recorded in `PROJECT.json` under `map`.

## 1. The system

Most of the repository is upstream TF-A, OP-TEE and OP-TEE examples. Its own
logic is a layered watchdog and a secure update path for the FPGA fabric (PL).

| Part | Code | State | Operations | What can go wrong |
|---|---|---|---|---|
| Layer 1: TMR watchdog | `pl/tmr_wdt_core.v` | three down-counters | count, reload on kick or disable, 2-of-3 vote | false alarm from a single upset, RELOAD never set; alarm lost at zero |
| Layer 1: AXI slave | `pl/tmr_wdt_v1_0_S00_AXI.v` | 8 registers, handshake flip-flops | write and read channels, kick pulses, read multiplexer | write to the wrong register, response lost or doubled, bus stuck |
| Layer 1 user | `pl/tmr_wdt_test` | none | configure, feed, starve one dog, stop feeding | |
| Warm restart | `zynqmp/pm_service/pm_svc_main.c` | `active_cores`, `inc_lock`, pending SGIs, TTC3 interrupt | TTC3 handler, SGI 7 handler | restart while a core runs; restart never requested; races on the count and with CPU hotplug |
| PSCI | `zynqmp/plat_psci.c`, `arm-trusted-firmware/lib/psci` | affinity and local state of each core, requested and actual state of the cluster, contexts, GIC set-up | CPU_ON, CPU_OFF, CPU_SUSPEND, SYSTEM_SUSPEND, warm boot; SYSTEM_RESET | cores racing each other up and down, writes lost to cache maintenance, state of the GIC after a resume |
| PM client | `zynqmp/pm_service/pm_client.c`, `pm_api_sys.c` | `APU_PWRCTL`, suspend mode, wake sources | set and clear power-down requests, requests to the PMU | lost updates of the register, a wake-up that comes too early |
| Bakery lock | `arm-trusted-firmware/lib/locks/bakery` | choosing flag and ticket of each core | get, release | two cores in, a core waiting for ever |
| Layer 3: heartbeat | `zynqmp/zynqmp_swdt.c`, `zynqmp/bl31_zynqmp_setup.c` | `ttc2_hb_seq`, TTC2 scratch register | TTC2 interrupt taken by every core, dispatcher, handler | lost updates, spurious interrupts, register standing still |
| Layer 3: monitor | `pmufw/swdt_monitor.c` | `PrevHbVal`, `MissedCount`, `Armed` | periodic poll, recovery in four steps | reset of a live system; recovery that does not get through; second reset during boot |
| FPGA update | `optee_os/core/pta/zynqmp/fpga_mgr.c`, `core/drivers/zynqmp_csu_pcap.c`, `zynqmp_csu_secure.c`, `zynqmp_csudma.c` | PCAP, AES and DMA registers, decouplers | validate, decouple, stream blocks, couple | errors of single blocks, timeouts with the DMA running |
| Bitstream download | `optee_examples/bs_downloader/ta/bs_downloader_ta.c` | PTA session, buffer | download over TCP, hand to the PTA | continuing after a failed download |

How they interact. The cores of the APU run TF-A at EL3; the TTC2 interval
interrupt (IRQ 74) makes it publish a counter in a scratch register of TTC2. The
PMU, a separate processor, polls that register about as often as it changes, and
after `MISS_THRESHOLD` (8) polls without a change it blanks the PL, forces the
APU down and resets the system; the PMU itself goes on running. When instead the
PMU's watchdog for the APU fires, TTC3 interrupts the primary core, which sends
SGI 7 to all running cores; they count themselves out and the last asks the PMU
for a warm restart. Cores go up and down through PSCI: TF-A sets a core's power-down
request in `APU_PWRCTL`, tells the PMU, and the PMU cuts the power in `wfi` and lets
the core out of reset again; a suspend to RAM takes the GIC with it, through which
the heartbeat's interrupt is routed. In the PL, three counters fed by Linux over AXI vote on
whether Linux is alive. Layer 2 (from the vote to a restart of the PS) is not in
the code yet: the voter's output has no handler.

## 2. Modules

| Module | Models | Used by |
|---|---|---|
| `Ttc2Heartbeat` | TTC2 interrupt, EL3 dispatcher and handler on all cores | `MCTtc2Heartbeat`, `Ttc2HeartbeatProofs` |
| `Heartbeat` | abstract specification: what the heartbeat promises its reader | refined by `Ttc2Heartbeat`, composed in `Layer3` |
| `SwdtMonitor` | the PMU's monitor | `Layer3` |
| `Layer3` | heartbeat, monitor and life cycle of the APU together | `MCLayer3`, `Layer3Proofs` |
| `WdtRestart` | warm restart over SGI 7, with CPU hotplug | `MCWdtRestart`, `WdtRestartProofs` |
| `BakeryLock` | TF-A's bakery lock, access by access | `MCBakeryLock`, `BakeryLockProofs` |
| `Mutex` | abstract specification: the atomic lock its callers rely on | implemented by `BakeryLock`, assumed by `CpuPower` |
| `CpuPower` | PSCI on this platform, the PM client, the power side of the PMU, the route of IRQ 74 | `MCCpuPower`, `CpuPowerProofs` |
| `TmrWdtCore` | registers, counters and voter, one clock cycle as an operator | `TmrWdt`, `TmrWdtAxi` |
| `TmrWdt` | Layer 1 fed by Linux, with single-event upsets | `MCTmrWdt`, `TmrWdtProofs` |
| `TmrWdtAxi` | the AXI4-Lite slave against an arbitrary master | `MCTmrWdtAxi`, `TmrWdtAxiProofs` |
| `FpgaMgr` | the FPGA manager PTA, the block loop, AES and DMA drivers, with the hardware beside them | `BsDownloader` |
| `BsDownloader` | the downloader TA on top of `FpgaMgr` | `MCBsDownloader`, `BsDownloaderProofs` |

Operators whose comment starts with "Mutant of" are deliberately wrong versions
of a definition; they are used by no specification and serve to show that the
properties can fail (`PROJECT.json`, `mutants`).

### Ttc2Heartbeat and Heartbeat

`zynqmp_swdt_init` routes IRQ 74 to all cores, and the dispatcher
`rdo_el3_interrupt_handler` reads HPPIR but never acknowledges. The line is level
sensitive, so until the first handler reads `TTC2_ISR_0` every core that can takes
the FIQ, and several execute `mmio_write_32(TTC2_HEARTBEAT, ++ttc2_hb_seq)`
without a lock. An action is one access to shared state: `TakeFiq`, `Dispatch`
(HPPIR is 74 while the line is high, else spurious and the dispatcher returns),
`ReadIsr`, `LoadSeq`, `StoreSeq`, `WriteHb`; `Tick` is the timer. `Tick` waits for the
handlers of the last interval (`Quiet`): they take microseconds, the interval is
2 s. Counters are natural numbers; the 32-bit counter of the code wraps after
centuries at one beat per 2 s, decades with four cores.

`layer3_test` line 11 says that TF-A increments the counter every 2 s. With the lost
updates below that is not so: over an interval the register can stand still, or go
back (two cores, the slower one storing and publishing an old value last).

With lost updates the register is not monotone: a slow core may publish, or store,
a value other cores have passed. What is left is `Heartbeat`: in each interval
the register takes values in a window above the floor (the counter when the
interval began), the floor rises each time, and it is at most
`MaxLead = max(NumCores - 2, 0)` below the register.

### SwdtMonitor and Layer3

`SwdtMonitorCallback` reads the shared register once and is one action with three
outcomes (not armed yet, advanced, missed). `TriggerReset` is one action per effect
on the outside (`WipePl`, `ForceDown`, `ClearState`, `ResetSystem`), because the APU
runs on until it is forced down. `Layer3` adds the APU: it boots, beats as
`Heartbeat` allows, hangs and resumes, dies, or is rebooted by Linux. A boot after
a forced reset gets through only with a blank PL and the cores off in the PMU's
view; that is what the header of `swdt_monitor.c` says of FSBL and of Linux, and
is external to the repository. `excuse` is a history variable: TF-A hung or died at
some time since the PMU last saw the register change. A Linux reboot is no excuse.
If its polls reach the threshold, and FSBL configures the PL again while
`TriggerReset` is between the wipe and the force-down, the boot after the forced reset
hangs; `Recovers` leaves out a death in such a recovery.

Timer and PMU scheduler have periods of 2.0001 s and 2 s from different clocks:
`MaxPolls` bounds the polls in one interval. A poll can fall into the microseconds of
the handlers at the interval's start (`beating`).

The debug beacons are left out. One of them, `DBG_MISS_ADDR` (`swdt_monitor.c` line
120), is written only on a missed poll and keeps the last count after the heartbeat
is back, which a reader of `layer3_test` line 18 should know.

### WdtRestart

`ttc_fiq_handler` and `trigger_wdt_restart` run on the primary core: one action per
IPI for a node status, one for setting the count, one per SGI. `zynqmp_sgi7_irq` runs
on every core: take the FIQ, decrement and clear the pending SGIs under the lock,
test the count outside the lock, shut down or park. CPU_OFF is two actions (FIQs are
masked from the first on), CPU_ON one. IRQ_TTC3_1 is configured edge-triggered
(`zynqmp/include/platform_def.h`) and, as with TTC2, nothing acknowledges it: it stays
pending at the GIC. What keeps the primary from handling it again and setting the
count a second time is that its own SGI 7 has the same priority and a lower number.
`SgiInv` is the statement of this.

The unlocked test lets two cores that have both left the count request the restart;
TLC shows this with two cores (`shutdowns` reaches 2). The properties below hold
regardless: a repeated request comes as late as the first.

Without hotplug the restart always comes, and with no core running (`NobodyRuns`).
With it, `RestartUnlessLost` says what can go wrong and that nothing else can: a core
that was counted is powered down with SGI 7 pending. `wdt_lost` shows that this
happens.

### BakeryLock and Mutex

One action is one access to `lock_data`, which lies in coherent memory
(`USE_COHERENT_MEM=1`): flag that the ticket is being chosen, read the others' tickets
one by one, publish the ticket, look at the contenders one by one, `wfe` and look
again, enter, drop the ticket, `sev`. The event register remembers a `sev` that comes
before the `wfe`. The 15 bits of a ticket are kept (`TICKET_BITS`); `MaxTicket` bounds
those explored, and `TicketsLeft` keeps a core from starting if the bound could be
passed. Tickets start again at 1 whenever nobody holds one, so runs of the model do
not end. `Mutex` is the lock as one step; `RefinesMutex` includes its fairness, which
is what the strong fairness of `CpuPower` rests on.

### CpuPower

The calls that take a core down or bring one up, cut where another core, the PMU or
the interconnect can see a difference. `pc` is the place in the code of `lib/psci` and
the hooks it calls; `cpu` holds what the code keeps per core. CPU_ON: validate, write
ON_PENDING, flush, look again and retry once, ask the PMU for the target's state,
clear its request, wake it, write its context. CPU_OFF and suspend: coordinate the
cluster's state under its lock, set the request in `APU_PWRCTL` under the client lock
(read and write are two steps), tell the PMU; CPU_OFF then writes OFF with its caches
off and invalidates the line. Warm boot: go to the finisher for the state found, and
report RUN.

Three modelling decisions:

- `unflushed[t]` is a state of `t` that another core has written and not yet flushed.
  `OffInv` drops it or writes it back, which is the case the retry of `psci_on.c` line
  121 is for. Only `aff_info_state` is treated so: the other fields are private to
  the core or under a lock.
- The PMU and the hardware are external: a core in `wfi` with its request set is
  powered down, with all cores down and a suspend to RAM the GIC loses its state, a
  wake-up request to a core that is not yet asleep cancels its suspend. What the PMU
  answers may be a failure (`OnStatus`). Until its power is off, an interrupt makes
  `wfi` return on a core whose CPU interface is on, as it is in a suspend
  (`WfiReturns`): the core is in `plat_panic_handler`, whose `wfi` holds again once
  another core has taken the interrupt (`InterruptTaken`). Nothing tells the model when
  interrupts arrive, so this can happen at any time.
- `serial` is chosen at the start: TRUE for Linux, whose hotplug lock lets one operation run
  at a time, FALSE for a normal world that does not care. The invariants hold in
  both, except that `CoherentWhileRunning` and `HeartbeatUntilResume` are about TRUE:
  `psci_is_last_on_cpu` takes no lock, and with three cores coming and going
  freely TLC finds a SYSTEM_SUSPEND that takes the cluster out of the interconnect
  under a core that is coming up. The suspend mode changes only where `serial` is
  TRUE, which halves the state space and leaves out nothing that is particular to FALSE.

Three things the model shows beside its properties. A CPU_ON that fails because its
target is still on the way down restores OFF without a retry; if the target's
invalidation comes between that write and its flush, the state stays ON_PENDING, and
CPU_ON of that core is refused from then on (`psci_on.c` line 154). A suspend looks for
pending interrupts when it begins (`psci_suspend.c` line 185) and not again; one that comes
between that and the loss of power leaves the core in `plat_panic_handler`, and if no
other core is up, for ever, although the comment on `psci_power_down_wfi` says "It
should not exit the wfi". And since TTC2 is a
wake source like every enabled SPI (`pm_client.c` line 220), a standard suspend to RAM
that has not met this fate lasts at most one heartbeat (`HeartbeatWakes`); after it, IRQ 74 is in Group 1, goes to
the normal world as an IRQ nobody there handles, and the register stands still
(`power_resume`). Eight polls later `SwdtMonitor` resets a healthy system.

### TmrWdtCore, TmrWdt, TmrWdtAxi

`TmrWdtCore!Cycle(w)` is one rising edge with write `w` on the bus. `TmrWdt` lets
Linux issue the writes of `tmr_wdt_test` in any order under one obligation, to feed
at least two dogs every `KickPeriod` cycles, and upsets put any value up to the
longest reload into one counter (a greater one would only bark later, and the dog that
was hit counts as out of order anyway). `TmrWdtAxi` computes every flip-flop of the slave from the always blocks,
and closes it with a master that may do anything AXI allows. Byte strobes are all
or none. Words are numbers; only the bits the logic looks at matter. The counters'
width is not modelled because they only count down to zero; the mutant
`NextCounterWraps` is what would go wrong. A read granted while the last word is
still up is never answered, because `axi_arready` does not look at `axi_rvalid`; the
comment at lines 375 to 380 says otherwise. `ReadAnswered` is that comment, and
`SingleReadAnswered` what holds: the same for a master with one read at a time.
`BusLive` follows each access from its offer to its grant and on to its own answer,
except for such a read, which is granted and no more.

### FpgaMgr and BsDownloader

`FpgaMgr` follows a call of `pta_zynqmp_fpga_write` (`pc`, and within a block `part`)
through `zynqmp_csu_secure_pcap_write` and `aes_transfer_dec`, every `goto out` and
early return included. Beside it run the DMA and the PCAP, which are external:
`DmaCompletes` ends the oldest transfer and sets DONE, `PcapDrains` makes the PCAP
idle. That transfers started on top of one that is still running end in order is an
assumption about the hardware; it matters only after a timeout. The image is not
kept: whether a tag is right and how long the next block is are chosen when the code
reads them, so every image, good or bad, is covered up to `MaxLen` words. The MMIO
regions are taken to be mapped, and lengths are numbers of words without the wrap of
the 32-bit sums. Three things the code does and the model keeps:

- the error of a block other than the last is only logged (`ret` is overwritten by
  the next wait for the key), so `SuccessMeansStreamed` speaks of calls in which every
  block was decrypted (`~failed`);
- DONE is cleared only by a wait that saw it, and a timed-out transfer is not stopped,
  so after a timeout the next wait can be satisfied by the old transfer:
  `SyncMeansDone` and `IsolatedInTime` are about calls without a timeout, and run
  `fpga_late` shows what happens with one;
- on errors after line 119 of `zynqmp_csu_secure.c` `AES_KUP_WR` stays set.

`BsDownloader` adds the TA: it has one instance, kept alive, with one session at a
time, and the PTA is not concurrent either, so commands do not overlap. After a failed
connection or download it calls the PTA all the same. The receive loop never tests
`res`; it ends on a length of 0, and a failed `recv` may report another. `Recv` has the
three cases of a length that is not 0: bytes of the image; an RPC that failed, after which
`socket_recv` copies what the shared memory holds (`"shm"`, whatever the normal world
left there); and no shared memory at all, when libutee hands back the length that went
in and the buffer is untouched. Only where the start of the buffer is from is kept
(`ptr`), because that is where the header is; a hole further on makes a bad image,
which `FpgaMgr` has anyway. `heap` is what earlier buffers left in memory, and
`OnlyReceivedWritten` says that it does not reach the PL again. It does not say that
what was received is the server's: that is for the tags of the image. Nor does the
loop know where the buffer ends. More than `BufChunks` chunks break the heap, which is
undefined behaviour: the model lets it go unnoticed, or end the TA at any later step
(`Panic`); overwritten data of the TA other than that is not modelled. After a failed
`recv` the socket stays open (`sockets`).

## 3. Runs

| Run | Instance | Shows |
|---|---|---|
| `heartbeat` | 4 cores, 5 intervals | `BeatsEveryTick`, `LeadBounded`, `BoundedStall`, and `RefinesHeartbeat`: the racing handlers implement `Heartbeat` |
| `layer3` | 4 cores, threshold 8, 2 polls per interval, 2 per boot, hangs, deaths, one reboot | `NoFalseResetBeforeReboot`, `CleanSlate`, `Recovers` |
| `layer3_reboot` (violation) | the same, with nothing but one reboot | the PMU resets a healthy system after a Linux reboot, against `swdt_monitor.c` lines 5 and 6 (`NoFalseReset`) |
| `wdt_restart` | 4 cores, any secondary off, going off or coming on | `CountExact`, `ShutdownAfterAll`, `RestartUnlessLost` |
| `wdt_lost` (violation) | 2 cores, hotplug | a counted core that is in CPU_OFF never leaves the count: the restart is not requested |
| `tmr` | RELOAD 0, 3 or 5, default 4, feeding every 2 cycles, 2 upsets | `NoFalseAlarm`, `AlarmInTime`, `DeadReported` |
| `axi` | two registers, two words, up to 2 reads outstanding | `WritesLand`, `WriteAnswered`, `SingleReadAnswered`, `ReadDataStable`, `BusLive` |
| `fpga` | images of up to 2 words, a buffer of 1 chunk and downloads of up to 2, 1 DMA timeout, any number of commands | `IsolatedInTime`, `SyncMeansDone`, `CleanAfterCall`, `IvSwapped`, `SuccessMeansStreamed`, `OnlyReceivedWritten`, `PtaReturns` |
| `fpga_late` (violation) | 1 word, 1 DMA timeout | the RPs are coupled again while a transfer that outlived its wait still feeds the PL, against the comment at `fpga_mgr.c` lines 89 to 92 |
| `bakery` | 3 cores, tickets up to 5 | `MutualExclusion`, `ServedInOrder`, `RefinesMutex` |
| `power` | 3 cores, hotplug serialised or not | `AssertionsHold`, `ContextReady`, `RequestStands`, `ClusterRuns`, `CoherentWhileRunning`, `HeartbeatUntilResume`, `OnMeansUp`, `HeartbeatWakes` |
| `power_resume` (violation) | 2 cores | after a resume from RAM the heartbeat's interrupt does not reach EL3 any more, against `zynqmp_swdt.c` line 108 |

Bounds. Two cores show the lost update and three the first stall; four are the
hardware's. A stall of `MaxLead = 2` intervals needs three intervals to build up, and
five leave room for two. In `layer3` the threshold is exactly sufficient: with 7,
`NoFalseResetBeforeReboot` fails within five intervals (the value that was sampled is back in
three more intervals with two polls each, and one poll is before the first beat of the
next). `Layer3Proofs` has the general bound. After a reboot it does not hold: the monitor
stays armed with the old `PrevHbVal`, so the polls during the boot count as missed if the
register survives it, and polls that meet the restarted counter at the old value count
on. In the behaviour `layer3_reboot` finds, two polls are missed before the reboot,
two while the APU boots, two before the first beat, and two in the interval whose beat
is again the value remembered. Two polls while booting are 4 s, less than a boot may
take. In `tmr` the reloads lie on both sides of the
default, and RELOAD may be 0 or changed at any time; two upsets allow one after
another is cured. In `axi` two addresses and two words tell apart a write to the
wrong register, of the wrong word, and a lost one. In `fpga` two words make an image
of no, one or two data blocks, of the announced length, too short or too long; the
number of calls is not bounded, so what one leaves behind meets the next; a second chunk
is both one that does not fit and one that follows a hole. In `bakery`
three cores let one be passed by while another releases and comes back, and tickets
above 3 need a chain of cores that never lets the lock rest. In `power` three cores are
two that race for a third, or one that suspends the system while a second switches a
third on; the number of calls is not bounded. `CHECK_DEADLOCK FALSE` is used
where the model ends at a bound, in `WdtRestart`, where the cores do park for good, and
in `CpuPower`, where all cores may be off or suspended with nothing to wake them.

Fairness. `BakeryLock`: a core runs its EL3 code, critical section included, which
waits for nothing but the PMU's answer. `CpuPower`: the same, strong because a core
waits for locks that others may take in between and `Mutex` grants strong fairness;
the PMU powers down what asks for it, and TTC2 fires. No call of the normal world and
no other wake-up is fair. `WdtRestart`: a core in EL3 runs to its next step and a pending FIQ is
eventually taken, which is how the processor works; hotplug calls and the watchdog
event are not fair. `Layer3`: the PMU's scheduler calls its task, `TriggerReset`
proceeds, and a boot that can get through does; nothing is assumed about the APU.
`TmrWdt`, `TmrWdtAxi`: the clock runs; in the latter the master raises BREADY and
RREADY again and again and does not withhold half of a write, without which no AXI
slave can be live. `BsDownloader`: the PTA's software proceeds, the DMA ends its
transfers and the PCAP drains; nothing is assumed about the server, and the TA need
not do anything. Without the PCAP's progress the loop at `zynqmp_csu_secure.c` line
114, which has no timeout, would hang the call.

## 4. Proofs

`Ttc2HeartbeatProofs` proves, for every finite non-empty set of cores and every
`MaxTicks`: `TypeCorrect`, `HeartbeatBeats`, `LeadIsBounded`, `StallIsBounded` and the
`Refinement` of `Heartbeat`. `BeatsEveryTick` is not inductive: one must know what
each core in the handler may still store. The invariant is `IInv`: each core that
has loaded the counter can have raised it by one, so all values lie between
`tickSeq + 1` and `Top = tickSeq + Cardinality(loaded)`, and (`ValueInv`) the value
`Top` is reached only if the cores passed the counter on one after another without
losing an update (`Chain`). The second part gives the bound on the lead: if the
register shows `Top` the counter is `Top` too, so the difference is at most
`Cardinality(Cores) - 2`.

`WdtRestartProofs` proves, for every number of cores: `TypeCorrect` (so
`active_cores` does not fall below zero), `CountIsExact`, `RestartAfterAll`, and, under
the assumption that there is no hotplug, `NobodyRuns`. The strengthening says
where SGIs are pending while the primary sends them in descending order (`SgiInv`),
that nothing has been started while it still asks for node states (`StatusInv`),
that zero once reached stays (`ZeroInv`), and without hotplug that every core that is
on is counted (`AllCountedInv`).

`BakeryLockProofs` proves, for every number of cores that fits into the eight bits of
the priority and every bound on the tickets that fits into their width: `TypeCorrect`,
`Exclusion` (`MutualExclusion`), `Order` (`ServedInOrder`), and `Refinement`, that the
accesses implement the safety part of `Mutex` (`MutexSafety`). Exclusion says nothing of the
cores on their way in, so it is not inductive. The strengthening, also called `IInv`, says
that what a core has published is what it knows (`ChoosingInv`, `DataInv`), that every core
drawing a ticket may still raise the highest by one (`TicketInv`), and, the heart of it,
that each contender the loop has passed is behind (`OrderInv` with `Ahead`): it has the later
ticket, or is drawing one and has counted this core's in or has it still to read. For
the contender a core waits for this holds as soon as the ticket it saw has changed, which
is why waiting for a change, to whatever value, is enough.

`Layer3Proofs` proves, for every number of cores, threshold, number of polls to an interval
and set of faults: `TypeCorrect` and `SlateIsClean` (`CleanSlate`); and, until Linux first
reboots the APU, `ResetBoots`: a forced reset finds the PL blank and the cores
off (`Bootable`), which is the safety half of `Recovers`. With the hypothesis `Margin`, that
`MISS_THRESHOLD > StallPolls`, `NoFalseResets` (`NoFalseResetBeforeReboot`). `StallPolls` is the number of polls that
can find the register at one value while TF-A beats: `(NumCores - 1) * MaxPolls + 1` for two cores
and more, `MaxPolls` for one. The bound is tight: with `MISS_THRESHOLD = StallPolls` TLC finds a false
reset in each instance tried (1 to 4 cores, 1 to 3 polls). On the board it is 7, the threshold 8.
`NoFalseReset` says nothing of how many polls are still to be missed, so it is not inductive;
`StallInv` says that those missed and those that may come add up to no more than `StallPolls`. Those
to come are bounded in two ways, because a value that stays in the register to the end of the interval
(`StayPolls`) can meet at most `MaxLead` more windows, while one that is overwritten after the
sample was taken (`BackPolls`) uses up no more polls in this interval but may come back in `NumCores - 1`
later ones. `BeatInv` says where the register is relative to the floor, `SlateInv` where the PMU
and the APU can be together.

`TmrWdtProofs` proves, for every set of reload values longer than the feeding period and any number
of upsets: `TypeCorrect`, `QuietWhileFed` (`NoFalseAlarm`) and `BarksInTime` (`AlarmInTime`). The strengthening:
no dog has been given a period it could miss while fed (`ReloadInv`), a dog that no upset has hit is exactly
as far down as its silence says (`CounterInv`), and one dog at most is out of order (`SingleFault`),
which together with the other two is what the voter needs.

`TmrWdtAxiProofs` proves, for every set of words and every number of outstanding reads: `TypeCorrect`,
`WritesArrive` (`WritesLand`), `OneResponse` (`WriteAnswered`), `ReadsAnswered` (`SingleReadAnswered`) and the
action property `DataStable` (`ReadDataStable`). The properties compare registers with what the master was
promised a cycle earlier; the strengthening says that what is being granted is still offered and its
address latched, and that `aw_en`, `axi_awready` and `axi_bvalid` exclude each other (`WriteInv`, `ReadInv`).

`BsDownloaderProofs` proves, for images of every length and any number of waits that time out:
`TypeCorrect`, `IsolatedUntilTimeout` (`IsolatedInTime`), `NothingLeftOver` (`SyncMeansDone`), `CleanCalls`
(`CleanAfterCall`), `IvInOrder` (`IvSwapped`), `SuccessIsStreamed` (`SuccessMeansStreamed`) and `NothingOldWritten`
(`OnlyReceivedWritten`). Two parts of the strengthening carry the argument: transfers under way and unread
DONEs together are no more than the waits that timed out and the one being waited in (`DmaInv`), so in
time a DONE is that of the last transfer (`EngineInv`); and what has been streamed is what the blocks so
far have announced (`StreamInv`), so that the comparison of lengths at the last block is one of what
was streamed. `TaInv` says that the PTA works only on a buffer whose start
`recv` of the same command has written, and that nothing old is ever in one.

`CpuPowerProofs` proves, for every number of cores: `TypeCorrect`, `NoPanic` (`AssertionsHold`), `LeavesWithContext`
(`ContextReady`), `RequestsStand` (`RequestStands`), `ClusterStaysUp` (`ClusterRuns`), `CoherentRunning`
(`CoherentWhileRunning`) and `HeartbeatReaches` (`HeartbeatUntilResume`). Each property is about a core at one point of
its code and depends on what other cores may have done to it since, so none is inductive. The strengthening `IInv`
goes through the shared state piece by piece. `PhaseInv` and `PmuInv` tie OP-TEE's and the PMU's view of a core to where it
is. `AffInv` says from when to when other cores may write a core's affinity state, and `CallInv`, with `TargetInv`
for a caller and its target, what a CPU_ON knows at each of its steps: the `cpu_lock` keeps out a second caller, and an
ON_PENDING lost before its flush was lost to the target's single invalidation, after which nothing undoes the
retry. `ContextInv`, `ClientInv` and `RequestInv` are about the context and the read-modify-write of `APU_PWRCTL`,
`ClusterInv` about who holds the node's lock and which state was asked for, `WakeInv` about who can wake at all.
`AloneInv` carries the last two theorems: with one hotplug operation at a time, a core that the unlocked loop of
`psci_is_last_on_cpu` has passed is down and stays down (`Down`), the others only idle (`Calm`), and so a core suspended at
the system level is the only one up; `RamInv` says that interconnect and GIC are out of order only then.

The assumptions are those of the modules (`CoresAssumption`, `MaxTicksAssumption`, `WdtAssumption`,
`BakeryAssumption`, `ThresholdAssumption`, `BoundsAssumption`, `ReloadAssumption`, `PeriodAssumption`,
`BusAssumption`, `PowerAssumption`, `FpgaAssumption`, `DownloadAssumption`) and, where a theorem names it,
`Margin`. Only model-checked: what `layer3_reboot` and the other violations show;
and all liveness (`Recovers`,
`RestartUnlessLost`, `DeadReported`, `BusLive`, `PtaReturns`, the fairness in `RefinesMutex`, `OnMeansUp`,
`HeartbeatWakes`), because liveness under fairness is out of reach of the prover used here, as are ENABLED
and induction over recursively defined data.

## 5. Not modelled

Of PSCI: standby states, MIGRATE, SYSTEM_OFF, the statistics. `pm_client_abort_suspend`,
which Linux does not call; it clears the request of core 0 whoever calls it. Whether
core 0 is switched off during a warm restart: TTC3's interrupt is targeted at
the core that set up the GIC, so `WdtRestart` keeps it on. `validateBitstream` and `zynqmp_csu_pcap_write`, which nothing
calls, and the DMA's destination channel.
The PM SMC interface of TF-A, a pass-through to the PMU. The wrapper
`tmr_wdt_v1_0.v`, `pblocks.xdc`, the build files and scripts. `fpga_updater`, which is
the hello-world example under another name. Everything upstream, except where the
code above depends on it: that is PSCI, the bakery lock and parts of the GIC driver. The rest
of TF-A and OP-TEE (other platforms, mbedTLS, drivers for boards this
repository does not build, the TEE core's session and thread management) is by far the
larger part of the tree and not this project's subject.

## 6. Plan

1. Done: heartbeat, its abstraction, monitor and Layer 3; warm restart; Layer 1 core
   and bus; the FPGA update from download to PL; CPU power, suspend and resume; the
   bakery lock and the atomic lock it implements; the proofs of section 4.
2. An abstract specification of the PL update (isolate, rewrite, connect) that
   `FpgaMgr` implements as long as no DMA wait times out.
3. OP-TEE's session management (`core/kernel/tee_ta_manager.c`), on which the one-session
   assumption of `BsDownloader` rests.

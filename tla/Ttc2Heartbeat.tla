---------------------------- MODULE Ttc2Heartbeat ----------------------------
(****************************************************************************)
(* The EL3 half of Layer 3: the TTC2 interval interrupt and its handler in  *)
(* TF-A (plat/xilinx/zynqmp/zynqmp_swdt.c), dispatched by                   *)
(* rdo_el3_interrupt_handler (bl31_zynqmp_setup.c).                         *)
(*                                                                          *)
(* IRQ 74 is routed to ANY core and the dispatcher only looks at HPPIR, it  *)
(* never acknowledges the interrupt.  So for one timer tick every core that *)
(* sees the level-sensitive line high enters the handler, and the handlers  *)
(* interleave on `++ttc2_hb_seq', which is a load, an add and a store.      *)
(****************************************************************************)
EXTENDS Naturals, FiniteSets

CONSTANTS
    Cores,      \* APU cores that may take the FIQ (4 on the ZCU102)
    MaxTicks    \* bound: number of timer intervals explored

ASSUME CoresAssumption == IsFiniteSet(Cores) /\ Cores # {}
ASSUME MaxTicksAssumption == MaxTicks \in Nat

VARIABLES
    isr,          \* TTC2_ISR_0 latched, i.e. the level of IRQ 74
    pc,           \* where each core is in the FIQ path
    tmp,          \* per core: the register holding the value of ++ttc2_hb_seq
    ttc2_hb_seq,  \* the counter in BL31 memory
    HEARTBEAT,    \* TTC2 scratch register 0xFF130048
    ticks,        \* timer intervals elapsed
    tickSeq,      \* history: ttc2_hb_seq when the current interval began
    lastHb,       \* history: HEARTBEAT when the current interval began
    loaded,       \* history: cores that loaded ttc2_hb_seq in this interval
    stalled       \* history: consecutive intervals that left HEARTBEAT as it was

hist == <<tickSeq, lastHb, stalled>>
vars == <<isr, pc, tmp, ttc2_hb_seq, HEARTBEAT, ticks, loaded, tickSeq, lastHb,
          stalled>>

(* "lower": below EL3; "dispatch": FIQ taken, HPPIR not read yet; the rest   *)
(* are the statements of ttc2_fiq_handler still to be executed.              *)
Steps == {"lower", "dispatch", "isr", "load", "store", "write"}

TypeOK ==
    /\ isr \in BOOLEAN
    /\ pc \in [Cores -> Steps]
    /\ tmp \in [Cores -> Nat]
    /\ ttc2_hb_seq \in Nat
    /\ HEARTBEAT \in Nat
    /\ ticks \in Nat
    /\ tickSeq \in Nat
    /\ lastHb \in Nat
    /\ loaded \in SUBSET Cores
    /\ stalled \in Nat

(* State after zynqmp_swdt_init: BSS and the scratch register are zero, the  *)
(* handler is registered, ttc2_hw_init has read ISR and started the counter. *)
Init ==
    /\ isr = FALSE
    /\ pc = [c \in Cores |-> "lower"]
    /\ tmp = [c \in Cores |-> 0]
    /\ ttc2_hb_seq = 0
    /\ HEARTBEAT = 0
    /\ ticks = 0
    /\ tickSeq = 0
    /\ lastHb = 0
    /\ loaded = {}
    /\ stalled = 0

(* No beat is in progress: the last interrupt has been handled everywhere.   *)
Quiet == ~isr /\ \A c \in Cores : pc[c] = "lower"

(* The interval elapses (3052 ticks at 1526 Hz).  The handlers take          *)
(* microseconds and the interval 2 s, so the previous beat is over: Quiet.   *)
Tick ==
    /\ ticks < MaxTicks
    /\ Quiet
    /\ isr' = TRUE
    /\ ticks' = ticks + 1
    /\ tickSeq' = ttc2_hb_seq
    /\ lastHb' = HEARTBEAT
    /\ loaded' = {}
    /\ stalled' = IF ticks > 0 /\ HEARTBEAT = lastHb THEN stalled + 1 ELSE 0
    /\ UNCHANGED <<pc, tmp, ttc2_hb_seq, HEARTBEAT>>

(* The GIC signals the Group 0 interrupt to every target core; this one      *)
(* leaves its lower exception level for EL3.                                 *)
TakeFiq(c) ==
    /\ pc[c] = "lower"
    /\ isr
    /\ pc' = [pc EXCEPT ![c] = "dispatch"]
    /\ UNCHANGED <<isr, tmp, ttc2_hb_seq, HEARTBEAT, ticks, loaded, hist>>

(* Mutant of Dispatch: the spurious id is not compared with MAX_INTR_EL3.    *)
DispatchUnchecked(c) ==
    /\ pc[c] = "dispatch"
    /\ pc' = [pc EXCEPT ![c] = IF isr THEN "isr" ELSE "beyond the table"]
    /\ UNCHANGED <<isr, tmp, ttc2_hb_seq, HEARTBEAT, ticks, loaded, hist>>

(* rdo_el3_interrupt_handler: HPPIR gives 74 while the line is high; once    *)
(* another core has read ISR it gives a spurious id, which is >= MAX_INTR_EL3*)
(* and the dispatcher returns.                                               *)
Dispatch(c) ==
    /\ pc[c] = "dispatch"
    /\ pc' = [pc EXCEPT ![c] = IF isr THEN "isr" ELSE "lower"]
    /\ UNCHANGED <<isr, tmp, ttc2_hb_seq, HEARTBEAT, ticks, loaded, hist>>

(* (void)mmio_read_32(TTC2_ISR_0): read-to-clear.                            *)
ReadIsr(c) ==
    /\ pc[c] = "isr"
    /\ isr' = FALSE
    /\ pc' = [pc EXCEPT ![c] = "load"]
    /\ UNCHANGED <<tmp, ttc2_hb_seq, HEARTBEAT, ticks, loaded, hist>>

(* Mutant of LoadSeq: the counter is incremented twice.                      *)
LoadSeqByTwo(c) ==
    /\ pc[c] = "load"
    /\ tmp' = [tmp EXCEPT ![c] = ttc2_hb_seq + 2]
    /\ pc' = [pc EXCEPT ![c] = "store"]
    /\ loaded' = loaded \cup {c}
    /\ UNCHANGED <<isr, ttc2_hb_seq, HEARTBEAT, ticks, hist>>

(* ++ttc2_hb_seq, first half: load and add.                                  *)
LoadSeq(c) ==
    /\ pc[c] = "load"
    /\ tmp' = [tmp EXCEPT ![c] = ttc2_hb_seq + 1]
    /\ pc' = [pc EXCEPT ![c] = "store"]
    /\ loaded' = loaded \cup {c}
    /\ UNCHANGED <<isr, ttc2_hb_seq, HEARTBEAT, ticks, hist>>

(* Mutant of StoreSeq: ttc2_hb_seq + 1 is published, not stored.             *)
StoreSeqForgotten(c) ==
    /\ pc[c] = "store"
    /\ pc' = [pc EXCEPT ![c] = "write"]
    /\ UNCHANGED <<isr, tmp, ttc2_hb_seq, HEARTBEAT, ticks, loaded, hist>>

(* ++ttc2_hb_seq, second half: the store to the volatile.                    *)
StoreSeq(c) ==
    /\ pc[c] = "store"
    /\ ttc2_hb_seq' = tmp[c]
    /\ pc' = [pc EXCEPT ![c] = "write"]
    /\ UNCHANGED <<isr, tmp, HEARTBEAT, ticks, loaded, hist>>

(* mmio_write_32 of the value of ++ttc2_hb_seq to the scratch register, the  *)
(* debug beacon (left out), end of interrupt and return to the lower level,  *)
(* where the value is dead (0 here).                                         *)
WriteHb(c) ==
    /\ pc[c] = "write"
    /\ HEARTBEAT' = tmp[c]
    /\ tmp' = [tmp EXCEPT ![c] = 0]
    /\ pc' = [pc EXCEPT ![c] = "lower"]
    /\ UNCHANGED <<isr, ttc2_hb_seq, ticks, loaded, hist>>

ttc2_fiq_handler(c) == ReadIsr(c) \/ LoadSeq(c) \/ StoreSeq(c) \/ WriteHb(c)

CoreStep(c) == TakeFiq(c) \/ Dispatch(c) \/ ttc2_fiq_handler(c)

Next == Tick \/ \E c \in Cores : CoreStep(c)

Spec == Init /\ [][Next]_vars

-----------------------------------------------------------------------------
(* The promise made to the PMU, over the state of this module.               *)
Abs == INSTANCE Heartbeat WITH
    NumCores <- Cardinality(Cores),
    started <- ticks > 0,
    beating <- ~Quiet,
    floor <- tickSeq

(* Lost updates let HEARTBEAT run ahead of the counter by at most this much. *)
MaxLead == Abs!MaxLead

(* Every interval beats: when the handlers of a tick are done, the counter   *)
(* and the heartbeat register are both above the counter's value when the    *)
(* tick came, whatever updates the racing cores lost.                        *)
BeatsEveryTick ==
    Quiet /\ ticks > 0 => ttc2_hb_seq > tickSeq /\ HEARTBEAT > tickSeq

(* Between beats the register is ahead of the counter by at most MaxLead: a  *)
(* store of a stale ++ttc2_hb_seq can set the counter back below what        *)
(* another core has already published, but not arbitrarily far.              *)
LeadBounded == Quiet => HEARTBEAT <= ttc2_hb_seq + MaxLead

(* What PMUFW relies on: the register cannot keep its value over more than   *)
(* MaxLead consecutive intervals, so a live TrustZone is seen to change it.  *)
BoundedStall == stalled <= MaxLead

(* The racing handlers implement the abstract heartbeat.                     *)
RefinesHeartbeat == Abs!HbSpec

-----------------------------------------------------------------------------
(* The inductive strengthening behind the properties above.                  *)

Pending == {c \in Cores : pc[c] = "store"}

Holds(c) == pc[c] \in {"store", "write"}

(* Each core that has loaded the counter can have raised it by one.          *)
Top == tickSeq + Cardinality(loaded)

(* The cores passed the counter on one after the other, losing no update.    *)
Chain == \/ ttc2_hb_seq = Top /\ Pending = {}
         \/ /\ ttc2_hb_seq + 1 = Top
            /\ \E p \in Cores : Pending = {p} /\ tmp[p] = Top

(* Who has loaded the counter, and that a high line means nobody has yet.    *)
LoadedInv ==
    /\ \A c \in Cores :
          /\ Holds(c) => c \in loaded
          /\ pc[c] \in {"dispatch", "isr", "load"} => c \notin loaded
          /\ isr => pc[c] \in {"lower", "dispatch", "isr"}
    /\ isr => loaded = {}

(* Before the first interval nothing has happened; in one, a beat is under   *)
(* way or done.                                                              *)
ProgressInv ==
    /\ ticks > 0 => isr \/ loaded # {} \/ \E c \in Cores : pc[c] = "load"
    /\ ticks = 0 => /\ Quiet
                    /\ loaded = {}
                    /\ ttc2_hb_seq = 0 /\ HEARTBEAT = 0 /\ tickSeq = 0
                    /\ lastHb = 0 /\ stalled = 0

(* Only the chain without a lost update reaches Top.                         *)
ValueInv ==
    /\ ttc2_hb_seq \in tickSeq..Top
    /\ (\E c \in loaded : pc[c] # "store") => ttc2_hb_seq > tickSeq
    /\ ttc2_hb_seq = Top => Chain
    /\ \A c \in Cores :
          Holds(c) => /\ tmp[c] \in (tickSeq + 1)..Top
                      /\ (tmp[c] = Top => Chain)
    /\ (\E c \in loaded : pc[c] = "lower")
       => /\ HEARTBEAT \in (tickSeq + 1)..Top
          /\ (HEARTBEAT = Top => Chain)

StallInv == /\ lastHb + stalled <= tickSeq + MaxLead
            /\ stalled <= MaxLead

IInv == TypeOK /\ LoadedInv /\ ProgressInv /\ ValueInv /\ StallInv
=============================================================================

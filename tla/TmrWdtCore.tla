----------------------------- MODULE TmrWdtCore -----------------------------
(****************************************************************************)
(* Layer 1, the watchdog in the PL, one clock cycle at a time: the register *)
(* file and user logic of pl/tmr_wdt_v1_0_S00_AXI.v around the three        *)
(* down-counters and the majority voter of pl/tmr_wdt_core.v.  How a write  *)
(* reaches the registers over AXI is TmrWdtAxi's matter.                    *)
(****************************************************************************)
EXTENDS Naturals

CONSTANT RELOAD_DEFAULT   \* cycles used while RELOAD is 0 (100_000_000)

ASSUME ReloadAssumption == RELOAD_DEFAULT \in Nat \ {0}

VARIABLES
    slv_reg,   \* register number -> word
    counter    \* dog -> cycles left

Dogs == 0..2             \* A, B, C: the bits of a KICK and of STATUS
RegNums == 0..7
CTRL == 0
RELOAD == 1
KICK == 2
STATUS == 3
CNT_A == 4
CNT_C == 6
None == 8                \* no register is written in this cycle

Bit(word, b) == (word \div 2^b) % 2 = 1

(* What the bus presents in one cycle.                                       *)
NoWrite == [addr |-> None, data |-> 0, strb |-> FALSE]

enable == Bit(slv_reg[CTRL], 0)

(* Mutant of reload_eff: RELOAD is used as it is.                            *)
reload_effUnsafe == slv_reg[RELOAD]

(* The safety net for a RELOAD that was never set.                           *)
reload_eff == IF slv_reg[RELOAD] # 0 THEN slv_reg[RELOAD] ELSE RELOAD_DEFAULT

(* A write to KICK pulses the dogs of its bits; the strobes play no part.    *)
kick(w, d) == w.addr = KICK /\ Bit(w.data, d)

(* Mutant of NextCounter: the counter starts again at 0.                     *)
NextCounterWraps(w, d) ==
    IF ~enable \/ kick(w, d) THEN reload_eff
    ELSE IF counter[d] = 0 THEN reload_eff ELSE counter[d] - 1

(* The three always blocks.                                                  *)
NextCounter(w, d) ==
    IF ~enable \/ kick(w, d) THEN reload_eff
    ELSE IF counter[d] = 0 THEN 0 ELSE counter[d] - 1

to(d) == enable /\ counter[d] = 0

maj_2of3 == \E d, e \in Dogs : d # e /\ to(d) /\ to(e)

all_3 == \A d \in Dogs : to(d)

CoreInit ==
    /\ slv_reg = [r \in RegNums |-> 0]
    /\ counter = [d \in Dogs |-> RELOAD_DEFAULT]

(* One rising edge of the clock with write w on the bus.                     *)
Cycle(w) ==
    /\ counter' = [d \in Dogs |-> NextCounter(w, d)]
    /\ slv_reg' = IF w.addr # None /\ w.strb
                  THEN [slv_reg EXCEPT ![w.addr] = w.data] ELSE slv_reg

(* reg_data_out: what a read of register r sees in this cycle.               *)
Read(r) ==
    CASE r = STATUS ->
           (IF to(0) THEN 1 ELSE 0) + (IF to(1) THEN 2 ELSE 0)
           + (IF to(2) THEN 4 ELSE 0) + (IF maj_2of3 THEN 8 ELSE 0)
           + (IF all_3 THEN 16 ELSE 0)
      [] r \in CNT_A..CNT_C -> counter[r - CNT_A]
      [] OTHER -> slv_reg[r]
=============================================================================

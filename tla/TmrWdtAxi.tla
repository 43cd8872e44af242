------------------------------ MODULE TmrWdtAxi ------------------------------
(****************************************************************************)
(* The AXI4-Lite slave of pl/tmr_wdt_v1_0_S00_AXI.v, cycle by cycle, around *)
(* the registers and dogs of TmrWdtCore, driven by any master that obeys    *)
(* AXI: a VALID, once up, stays up with its payload until the handshake.    *)
(*                                                                          *)
(* axi_wready is assigned on the same condition as axi_awready, so the two  *)
(* are always equal (tied together in `Slave' and checked by TypeOK).       *)
(****************************************************************************)
EXTENDS TmrWdtCore

CONSTANTS
    Addrs,           \* registers the master accesses
    Words,           \* words it writes
    MaxReads         \* reads it has outstanding at most: above 1, it may ask for
                     \* the next word before it has taken the last

ASSUME BusAssumption ==
    /\ Addrs \subseteq RegNums
    /\ Words \subseteq Nat
    /\ MaxReads \in Nat \ {0}

VARIABLES
    axi_awready, axi_wready, aw_en, axi_awaddr, axi_bvalid,   \* slave, write
    axi_arready, axi_araddr, axi_rvalid, axi_rdata,           \* slave, read
    aw, w, bready,       \* master: AW and W channel, BREADY
    ar, rready,          \* master: AR channel, RREADY
    shadow,      \* history: the registers after the writes the master was granted
    wOut, rOut,  \* history: granted writes and reads not yet answered
    rExpect,     \* history: what the granted read should return
    overtaken    \* history: a read was granted while the last word was still up

slave == <<axi_awready, axi_wready, aw_en, axi_awaddr, axi_bvalid,
           axi_arready, axi_araddr, axi_rvalid, axi_rdata>>
master == <<aw, w, bready, ar, rready>>
vars == <<slv_reg, counter, slave, master, shadow, wOut, rOut, rExpect, overtaken>>

(* A channel: idle, or valid with its payload.                               *)
Idle == [valid |-> FALSE, addr |-> 0, data |-> 0, strb |-> FALSE]
AddrChan == {Idle} \cup {[Idle EXCEPT !.valid = TRUE, !.addr = a] : a \in Addrs}
DataChan == {Idle} \cup
    {[valid |-> TRUE, addr |-> 0, data |-> n, strb |-> s] : n \in Words, s \in BOOLEAN}

TypeOK ==
    /\ axi_awready \in BOOLEAN /\ axi_wready = axi_awready
    /\ aw_en \in BOOLEAN /\ axi_bvalid \in BOOLEAN
    /\ axi_arready \in BOOLEAN /\ axi_rvalid \in BOOLEAN
    /\ axi_awaddr \in RegNums /\ axi_araddr \in RegNums
    /\ slv_reg \in [RegNums -> Words \cup {0}]
    /\ \A d \in Dogs : \E n \in Words \cup {RELOAD_DEFAULT} : counter[d] \in 0..n
    /\ axi_rdata \in Nat /\ rExpect \in Nat
    /\ aw \in AddrChan /\ ar \in AddrChan /\ w \in DataChan
    /\ bready \in BOOLEAN /\ rready \in BOOLEAN
    /\ wOut \in Nat /\ rOut \in 0..MaxReads /\ overtaken \in BOOLEAN

Init ==
    /\ CoreInit
    /\ axi_awready = FALSE /\ axi_wready = FALSE /\ aw_en = TRUE
    /\ axi_awaddr = 0 /\ axi_bvalid = FALSE
    /\ axi_arready = FALSE /\ axi_araddr = 0
    /\ axi_rvalid = FALSE /\ axi_rdata = 0
    /\ aw = Idle /\ w = Idle /\ bready = FALSE /\ ar = Idle /\ rready = FALSE
    /\ shadow = slv_reg
    /\ wOut = 0 /\ rOut = 0 /\ rExpect = 0 /\ overtaken = FALSE

-----------------------------------------------------------------------------
(* The slave: what its always blocks compute at a rising edge.               *)

(* Mutant of slv_reg_wren: the readies are not awaited.                      *)
slv_reg_wrenUnready == w.valid /\ aw.valid

slv_reg_wren == axi_wready /\ w.valid /\ axi_awready /\ aw.valid

(* Mutant of slv_reg_rden: axi_arready is not awaited.                       *)
slv_reg_rdenUnready == ar.valid /\ ~axi_rvalid

slv_reg_rden == axi_arready /\ ar.valid /\ ~axi_rvalid

(* Mutant of AcceptWrite: aw_en plays no part.                               *)
AcceptWriteWithoutEn == ~axi_awready /\ aw.valid /\ w.valid

AcceptWrite == ~axi_awready /\ aw.valid /\ w.valid /\ aw_en

AcceptRead == ~axi_arready /\ ar.valid

(* The write the registers and the kick pulses see in this cycle.            *)
BusWrite == IF slv_reg_wren
            THEN [addr |-> axi_awaddr, data |-> w.data, strb |-> w.strb]
            ELSE NoWrite

(* Mutant of NextAwEn: never set again.                                      *)
NextAwEnStuck == IF AcceptWrite THEN FALSE ELSE aw_en

NextAwEn == IF AcceptWrite THEN FALSE
            ELSE IF bready /\ axi_bvalid THEN TRUE ELSE aw_en

WriteChannel ==
    /\ axi_awready' = AcceptWrite
    /\ axi_wready' = AcceptWrite
    /\ aw_en' = NextAwEn
    /\ axi_awaddr' = IF AcceptWrite THEN aw.addr ELSE axi_awaddr
    /\ axi_bvalid' = IF slv_reg_wren /\ ~axi_bvalid THEN TRUE
                     ELSE IF bready /\ axi_bvalid THEN FALSE ELSE axi_bvalid

(* Mutant of ReadData: loaded on every grant.                                *)
ReadDataUngated == IF axi_arready /\ ar.valid THEN Read(axi_araddr) ELSE axi_rdata

ReadData == IF slv_reg_rden THEN Read(axi_araddr) ELSE axi_rdata

ReadChannel ==
    /\ axi_arready' = AcceptRead
    /\ axi_araddr' = IF AcceptRead THEN ar.addr ELSE axi_araddr
    /\ axi_rvalid' = IF slv_reg_rden THEN TRUE
                     ELSE IF axi_rvalid /\ rready THEN FALSE ELSE axi_rvalid
    /\ axi_rdata' = ReadData

Slave == Cycle(BusWrite) /\ WriteChannel /\ ReadChannel

-----------------------------------------------------------------------------
(* The master.  A channel whose handshake happens in this cycle, or that is  *)
(* idle, may present anything next.                                          *)

awGrant == aw.valid /\ axi_awready
wGrant == w.valid /\ axi_wready
arGrant == ar.valid /\ axi_arready
bDone == axi_bvalid /\ bready
rDone == axi_rvalid /\ rready

Master ==
    /\ IF aw.valid /\ ~awGrant THEN UNCHANGED aw ELSE aw' \in AddrChan
    /\ IF w.valid /\ ~wGrant THEN UNCHANGED w ELSE w' \in DataChan
    /\ IF ar.valid /\ ~arGrant THEN UNCHANGED ar
       ELSE /\ ar' \in AddrChan
            /\ ar'.valid => rOut' < MaxReads
    /\ bready' \in BOOLEAN
    /\ rready' \in BOOLEAN

(* What the master may conclude from the handshakes it sees.                 *)
History ==
    /\ wOut' = wOut + (IF awGrant THEN 1 ELSE 0) - (IF bDone THEN 1 ELSE 0)
    /\ rOut' = rOut + (IF arGrant THEN 1 ELSE 0) - (IF rDone THEN 1 ELSE 0)
    /\ shadow' = IF awGrant /\ w.strb THEN [shadow EXCEPT ![aw.addr] = w.data]
                 ELSE shadow
    /\ rExpect' = IF arGrant THEN Read(ar.addr) ELSE rExpect
    /\ overtaken' = (overtaken \/ (arGrant /\ axi_rvalid))

(* One cycle of S_AXI_ACLK.                                                  *)
Clock == Slave /\ History /\ Master

Next == Clock

(* The clock runs, and the master takes the answers and does not withhold    *)
(* one half of a write.                                                      *)
Spec == /\ Init /\ [][Next]_vars /\ WF_vars(Clock)
        /\ []<>bready /\ []<>rready
        /\ []<>(aw.valid => w.valid) /\ []<>(w.valid => aw.valid)

-----------------------------------------------------------------------------
(* Every write the master was granted, and nothing else, has reached the     *)
(* register it was addressed to: the latched address, the write enable and   *)
(* the data of the same transaction meet in one cycle.                       *)
WritesLand == slv_reg = shadow

(* A granted write owes exactly one response, which is up at once; a second  *)
(* write is not granted before the response is taken (aw_en).                *)
WriteAnswered == wOut = IF axi_bvalid THEN 1 ELSE 0

(* A granted read has its data up, and it is the addressed register's value  *)
(* in the cycle of the grant.  The comment on axi_rvalid (lines 375 to 380)  *)
(* promises it for every read: asserted when S_AXI_ARVALID and axi_arready   *)
(* both are.                                                                 *)
ReadAnswered ==
    /\ rOut = IF axi_rvalid THEN 1 ELSE 0
    /\ axi_rvalid => axi_rdata = rExpect

(* So it is for a master that takes each word before the next read is        *)
(* granted.                                                                  *)
SingleReadAnswered == ~overtaken => ReadAnswered

(* AXI: data once valid does not change until it is taken, even if the next  *)
(* read is granted and the register read (STATUS, a counter) changes: the    *)
(* ~axi_rvalid of slv_reg_rden.                                              *)
ReadDataStable ==
    [][axi_rvalid /\ ~rready => axi_rvalid' /\ axi_rdata' = axi_rdata]_vars

(* A write that is offered is granted, and its own response taken: none is   *)
(* up when it is granted (AcceptWrite waits for aw_en).  A read that is      *)
(* offered is granted, and its own word taken if the last one is not still   *)
(* up; one that is granted while a word is up gets no word (line 392), which *)
(* this does not promise.                                                    *)
BusLive == /\ aw.valid ~> awGrant
           /\ awGrant ~> bDone
           /\ ar.valid ~> arGrant
           /\ (arGrant /\ ~axi_rvalid) ~> rDone

-----------------------------------------------------------------------------
(* The inductive strengthening behind the safety properties.                 *)

(* A write that is being granted is still offered, its address is latched,   *)
(* and no earlier one awaits its answer: aw_en, axi_awready and axi_bvalid   *)
(* exclude each other.                                                       *)
WriteInv ==
    /\ axi_awready => /\ aw.valid /\ w.valid
                      /\ axi_awaddr = aw.addr
                      /\ ~aw_en /\ ~axi_bvalid
    /\ axi_bvalid => ~aw_en

(* A read that is being granted is still offered and its address latched;    *)
(* the master counts every word that is up.                                  *)
ReadInv ==
    /\ axi_arready => ar.valid /\ axi_araddr = ar.addr
    /\ ar.valid => rOut < MaxReads
    /\ axi_rvalid => rOut > 0

IInv == /\ TypeOK /\ WriteInv /\ ReadInv
        /\ WritesLand /\ WriteAnswered /\ SingleReadAnswered
=============================================================================

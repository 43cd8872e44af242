------------------------------- MODULE FpgaMgr -------------------------------
(****************************************************************************)
(* Writing an encrypted partial bitstream to the PL in OP-TEE:              *)
(* pta_zynqmp_fpga_write (core/pta/zynqmp/fpga_mgr.c) around the block loop *)
(* of zynqmp_csu_secure_pcap_write, aes_transfer_dec and the CSU DMA driver.*)
(*                                                                          *)
(* The pseudo TA has no TA_FLAG_CONCURRENT, so one call runs at a time, but *)
(* DMA, AES engine and PCAP work beside it, and every wait of the software  *)
(* but one has a timeout.  The image is not kept: what it makes the engine  *)
(* report (is the tag right, how long is the next block) is chosen when the *)
(* software reads it.  The MMIO regions are taken to be mapped.             *)
(****************************************************************************)
EXTENDS Naturals, Sequences

CONSTANTS
    MaxLen,        \* bound: longest image and block, in words
    MaxTimeouts    \* bound: DMA waits that time out

ASSUME FpgaAssumption == MaxLen \in Nat /\ MaxTimeouts \in Nat

VARIABLES
    pc,             \* where the call is; "idle" between calls
    part,           \* the part of a block that aes_transfer_dec is at
    ret,            \* TRUE: the C variable ret is TEE_SUCCESS
    BlockType, NextBlkLen, CurrentImgLen, UnEncDataLen,
    bs_iv,          \* where the IV comes from: the "image" or the "engine"
    decoupled,      \* both DFX decouplers are closed
    swap,           \* ENDIAN bit of the DMA's source channel
    kup_wr,         \* AES_KUP_WR: what the DMA moves goes to key and IV
    dma,            \* transfers under way, oldest first
    done,           \* DONE bit of the DMA's interrupt status
    pcap_busy,      \* not WR_IDLE: the PCAP still feeds the PL
    AES_IV3,        \* length of the next block, from the last secure header
    streamed,       \* history: words of this call that went to the PCAP
    failed,         \* history: a block of this call was not decrypted
    timeouts        \* DMA waits that timed out

call == <<part, ret, BlockType, NextBlkLen, CurrentImgLen, UnEncDataLen, bs_iv,
          failed>>
engine == <<dma, done, pcap_busy, AES_IV3, streamed>>
mgrVars == <<pc, call, decoupled, swap, kup_wr, engine, timeouts>>

Parts == {"iv", "data", "hdr", "tag"}
Steps == {"idle", "init", "decouple", "setup", "send", "sync", "pcap", "out",
          "next", "waitdone", "pldone", "couple"}

MgrTypeOK ==
    /\ pc \in Steps
    /\ part \in Parts
    /\ ret \in BOOLEAN
    /\ BlockType \in {"header", "data"}
    /\ NextBlkLen \in 0..MaxLen
    /\ UnEncDataLen \in 0..MaxLen
    /\ CurrentImgLen \in 0..(2 * MaxLen)
    /\ bs_iv \in {"image", "engine"}
    /\ decoupled \in BOOLEAN /\ swap \in BOOLEAN /\ kup_wr \in BOOLEAN
    /\ dma \in Seq([part : Parts, len : 0..MaxLen])
    /\ Len(dma) <= MaxTimeouts + 1
    /\ done \in BOOLEAN /\ pcap_busy \in BOOLEAN
    /\ AES_IV3 \in 0..MaxLen
    /\ streamed \in Nat
    /\ failed \in BOOLEAN
    /\ timeouts \in 0..MaxTimeouts

MgrInit ==
    /\ pc = "idle" /\ part = "iv" /\ ret = TRUE
    /\ BlockType = "header"
    /\ NextBlkLen = 0 /\ CurrentImgLen = 0 /\ UnEncDataLen = 0
    /\ bs_iv = "image"
    /\ decoupled = FALSE /\ swap = FALSE /\ kup_wr = FALSE
    /\ dma = <<>> /\ done = FALSE /\ pcap_busy = FALSE
    /\ AES_IV3 = 0
    /\ streamed = 0 /\ failed = FALSE /\ timeouts = 0

-----------------------------------------------------------------------------
(* The hardware.                                                             *)

(* The oldest transfer ends.  A data block goes through the AES engine on to *)
(* the PCAP; with AES_KUP_WR set, the key and IV registers are loaded.       *)
DmaCompletes ==
    /\ dma # <<>>
    /\ dma' = Tail(dma)
    /\ done' = TRUE
    /\ streamed' = streamed + Head(dma).len
    /\ pcap_busy' = (pcap_busy \/ Head(dma).part = "data")
    /\ AES_IV3' \in IF kup_wr THEN 0..MaxLen ELSE {AES_IV3}
    /\ UNCHANGED <<pc, call, decoupled, swap, kup_wr, timeouts>>

PcapDrains ==
    /\ pcap_busy
    /\ pcap_busy' = FALSE
    /\ UNCHANGED <<pc, call, decoupled, swap, kup_wr, dma, done, AES_IV3,
                   streamed, timeouts>>

-----------------------------------------------------------------------------
(* pta_zynqmp_fpga_write up to the PCAP.                                     *)

(* A header in order (format, no authentication, key source): what stays of  *)
(* it is its IV.                                                             *)
validateSecureBitstream == bs_iv' = "image"

(* The parameters and the header of the image are in order.                  *)
Accept ==
    /\ pc = "idle"
    /\ validateSecureBitstream
    /\ UnEncDataLen' \in 0..MaxLen
    /\ streamed' = 0
    /\ failed' = FALSE
    /\ pc' = "init"
    /\ UNCHANGED <<part, ret, BlockType, NextBlkLen, CurrentImgLen, decoupled,
                   swap, kup_wr, dma, done, pcap_busy, AES_IV3, timeouts>>

(* zynqmp_csu_pcap_init fails: the PL has no power, or, after the reset of   *)
(* the PCAP, does not initialise in time.                                    *)
PcapInitFails ==
    /\ pc = "init"
    /\ pcap_busy' \in {pcap_busy, FALSE}
    /\ ret' = FALSE
    /\ pc' = "idle"
    /\ UNCHANGED <<part, BlockType, NextBlkLen, CurrentImgLen, UnEncDataLen,
                   bs_iv, failed, decoupled, swap, kup_wr, dma, done, AES_IV3,
                   streamed, timeouts>>

zynqmp_csu_pcap_init ==
    /\ pc = "init"
    /\ pcap_busy' = FALSE
    /\ pc' = "decouple"
    /\ UNCHANGED <<call, decoupled, swap, kup_wr, dma, done, AES_IV3, streamed,
                   timeouts>>

Decouple ==
    /\ pc = "decouple"
    /\ decoupled' = TRUE
    /\ pc' = "setup"
    /\ UNCHANGED <<call, swap, kup_wr, engine, timeouts>>

zynqmp_csudma_prepare == swap' = TRUE

(* zynqmp_csu_secure_pcap_write before its loop: stream switch, AES reset,   *)
(* key load (a timeout is only logged), byte swapping on.                    *)
SetupAes ==
    /\ pc = "setup"
    /\ AES_IV3' \in {0, AES_IV3}
    /\ zynqmp_csudma_prepare
    /\ ret' = TRUE
    /\ BlockType' = "header"
    /\ NextBlkLen' = 0
    /\ CurrentImgLen' = 0
    /\ part' = "iv"
    /\ pc' = "send"
    /\ UNCHANGED <<UnEncDataLen, bs_iv, failed, decoupled, kup_wr, dma, done,
                   pcap_busy, streamed, timeouts>>

-----------------------------------------------------------------------------
(* aes_transfer_dec: the IV, the data (except of the first block), the next  *)
(* secure header and the tag go to the engine, each with a transfer and a    *)
(* wait for its end.                                                         *)

KeyWrite == kup_wr' = (part = "hdr" \/ kup_wr)

zynqmp_csudma_transfer(len) == dma' = Append(dma, [part |-> part, len |-> len])

Send ==
    /\ pc = "send"
    /\ zynqmp_csudma_transfer(IF part = "data" THEN NextBlkLen ELSE 0)
    /\ KeyWrite
    /\ pc' = "sync"
    /\ UNCHANGED <<call, decoupled, swap, done, pcap_busy, AES_IV3, streamed,
                   timeouts>>

(* zynqmp_csudma_transfer refuses an address in the image that is not        *)
(* aligned; the IV is.                                                       *)
SendFails ==
    /\ pc = "send"
    /\ part # "iv"
    /\ KeyWrite
    /\ ret' = FALSE
    /\ pc' = "out"
    /\ UNCHANGED <<part, BlockType, NextBlkLen, CurrentImgLen, UnEncDataLen,
                   bs_iv, failed, decoupled, swap, engine, timeouts>>

(* What follows when zynqmp_csudma_sync has seen DONE: byte swapping on      *)
(* after the IV, key write off after the header, tag status after the tag.   *)
AfterSync ==
    /\ swap' = (part = "iv" \/ swap)
    /\ kup_wr' = (part # "hdr" /\ kup_wr)
    /\ \/ part = "iv" /\ pc' = "send" /\ ret' = ret
          /\ part' = IF BlockType = "data" THEN "data" ELSE "hdr"
       \/ part = "data" /\ pc' = "pcap" /\ UNCHANGED <<part, ret>>
       \/ part = "hdr" /\ pc' = "send" /\ part' = "tag" /\ ret' = ret
       \/ part = "tag" /\ pc' = "out" /\ part' = part /\ ret' \in BOOLEAN
    /\ UNCHANGED <<BlockType, NextBlkLen, CurrentImgLen, UnEncDataLen, bs_iv,
                   failed, decoupled, dma, pcap_busy, AES_IV3, streamed,
                   timeouts>>

(* Mutant of csudma_clear_intr: it is left out.                              *)
ClearIntrForgotten == done' = done

csudma_clear_intr == done' = FALSE

Sync == pc = "sync" /\ done /\ csudma_clear_intr /\ AfterSync

(* DONE does not come within three seconds, or just after the last look.     *)
SyncTimesOut ==
    /\ pc = "sync"
    /\ timeouts < MaxTimeouts
    /\ timeouts' = timeouts + 1
    /\ ret' = FALSE
    /\ pc' = "out"
    /\ UNCHANGED <<part, BlockType, NextBlkLen, CurrentImgLen, UnEncDataLen,
                   bs_iv, failed, decoupled, swap, kup_wr, engine>>

(* Mutant of PcapIdle: there is no wait after a data block.                  *)
PcapIdleUnchecked == TRUE

(* The wait for the PCAP after a data block, which has no timeout.           *)
PcapIdle == ~pcap_busy

WaitPcap ==
    /\ pc = "pcap"
    /\ PcapIdle
    /\ part' = "hdr"
    /\ pc' = "send"
    /\ UNCHANGED <<ret, BlockType, NextBlkLen, CurrentImgLen, UnEncDataLen,
                   bs_iv, failed, decoupled, swap, kup_wr, engine, timeouts>>

(* The end of every path: byte swapping off, and if all went well the wait   *)
(* for the engine, which may time out.                                       *)
BlockEnds ==
    /\ pc = "out"
    /\ ret' \in IF ret THEN BOOLEAN ELSE {FALSE}
    /\ failed' = (failed \/ ~ret')
    /\ pc' = "next"
    /\ UNCHANGED <<part, BlockType, NextBlkLen, CurrentImgLen, UnEncDataLen,
                   bs_iv, decoupled, kup_wr, engine, timeouts>>

(* Mutant of zynqmp_csudma_unprepare: it is left out.                        *)
UnprepareForgotten == swap' = swap

zynqmp_csudma_unprepare == swap' = FALSE

Out == zynqmp_csudma_unprepare /\ BlockEnds

aes_transfer_dec == Send \/ SendFails \/ Sync \/ SyncTimesOut \/ WaitPcap \/ Out

-----------------------------------------------------------------------------
(* The loop of zynqmp_csu_secure_pcap_write after the decryption of a block, *)
(* whose error is only logged.                                               *)

Total == CurrentImgLen + AES_IV3

(* Mutant of IsLast: an empty block does not end the image.                  *)
IsLastNever == FALSE

IsLast == AES_IV3 = 0

(* Mutant of LengthsAgree: the length of the image is not compared.          *)
LengthsAgreeUnchecked == TRUE

LengthsAgree == Total = UnEncDataLen

TooLong == Total > UnEncDataLen

NextBlock ==
    /\ pc = "next"
    /\ NextBlkLen' = AES_IV3
    /\ CurrentImgLen' = Total
    /\ \/ /\ IsLast
          /\ ret' = (ret /\ LengthsAgree)
          /\ pc' = IF ret' THEN "waitdone" ELSE "couple"
          /\ UNCHANGED <<part, BlockType, bs_iv>>
       \/ /\ ~IsLast
          /\ TooLong
          /\ ret' = FALSE
          /\ pc' = "couple"
          /\ UNCHANGED <<part, BlockType, bs_iv>>
       \/ /\ ~IsLast
          /\ ~TooLong
          /\ \/ ret' = FALSE /\ pc' = "couple"     \* the key load times out
                /\ UNCHANGED <<part, BlockType, bs_iv>>
             \/ ret' = TRUE /\ pc' = "send" /\ part' = "iv"
                /\ BlockType' = "data" /\ bs_iv' = "engine"
    /\ UNCHANGED <<UnEncDataLen, failed, decoupled, swap, kup_wr, engine,
                   timeouts>>

pcap_waitForDone ==
    /\ pc = "waitdone"
    /\ \/ ~pcap_busy /\ pc' = "pldone" /\ ret' = ret
       \/ pc' = "couple" /\ ret' = FALSE
    /\ UNCHANGED <<part, BlockType, NextBlkLen, CurrentImgLen, UnEncDataLen,
                   bs_iv, failed, decoupled, swap, kup_wr, engine, timeouts>>

pcap_waitForPLDone ==
    /\ pc = "pldone"
    /\ \/ ret' = ret /\ pcap_busy' = FALSE
       \/ ret' = FALSE /\ pcap_busy' = pcap_busy
    /\ pc' = "couple"
    /\ UNCHANGED <<part, BlockType, NextBlkLen, CurrentImgLen, UnEncDataLen,
                   bs_iv, failed, decoupled, swap, kup_wr, dma, done, AES_IV3,
                   streamed, timeouts>>

zynqmp_csu_secure_pcap_write ==
    SetupAes \/ aes_transfer_dec \/ NextBlock \/ pcap_waitForDone
    \/ pcap_waitForPLDone

Returns ==
    /\ pc = "couple"
    /\ pc' = "idle"
    /\ UNCHANGED <<call, swap, kup_wr, engine, timeouts>>

(* Mutant of Couple: a failed write returns before the decouplers.           *)
CoupleOnSuccess == decoupled' = ~ret /\ Returns

Couple == decoupled' = FALSE /\ Returns

(* The steps of a call that has been accepted.                               *)
PtaStep ==
    PcapInitFails \/ zynqmp_csu_pcap_init \/ Decouple
    \/ zynqmp_csu_secure_pcap_write \/ Couple

-----------------------------------------------------------------------------
Streaming == pcap_busy \/ \E k \in 1..Len(dma) : dma[k].part = "data"

(* fpga_mgr.c lines 12 to 14 and 89 to 92: the RPs are isolated while they   *)
(* are rewritten, else the garbage on their AXI interfaces reaches the       *)
(* static region and its TMR watchdog.                                       *)
Isolated == Streaming => decoupled

(* So they are as long as no DMA wait has timed out, whatever else fails:    *)
(* no error path opens the decouplers while data is on its way to the PL.    *)
(* (The wait without timeout after each data block sees to the PCAP.)        *)
IsolatedInTime == timeouts = 0 => Isolated

(* A successful zynqmp_csudma_sync means that the transfer waited for has    *)
(* ended: no DONE is left over for the next wait, and no transfer under way, *)
(* as long as no wait has timed out.                                         *)
SyncMeansDone == timeouts = 0 /\ pc # "sync" => dma = <<>> /\ ~done

(* After every call, successful or not, and whatever timed out, the RPs are  *)
(* coupled again and the DMA's byte swapping is off for its other users.     *)
CleanAfterCall == pc \in {"idle", "init"} => ~decoupled /\ ~swap

(* An IV from the image is big-endian and goes to the engine with byte       *)
(* swapping, one from the engine's registers without.  Swapping is switched  *)
(* in two functions of two files for it, on every path round the loop.       *)
IvSwapped == part = "iv" /\ pc \in {"send", "sync"} => (swap <=> bs_iv = "image")

(* A call that returns success with every block decrypted has sent the       *)
(* number of words the image header announces to the PCAP.                   *)
SuccessMeansStreamed ==
    pc = "couple" /\ ret /\ ~failed /\ timeouts = 0 => streamed = UnEncDataLen

(* Every accepted call returns: the loop over the blocks ends.               *)
PtaReturns == pc # "idle" ~> pc = "idle"

-----------------------------------------------------------------------------
(* The inductive strengthening behind the safety properties.                 *)

(* Where the RPs are isolated and byte swapping is off; the IV of the image  *)
(* is the one of the first block.                                            *)
CleanInv ==
    /\ decoupled <=> pc \notin {"idle", "init", "decouple"}
    /\ pc \notin {"send", "sync", "pcap", "out"} => ~swap
    /\ pc \in {"init", "decouple", "setup"} => bs_iv = "image"
    /\ IvSwapped

(* The image is no longer than its header says, or the loop ends.            *)
LengthInv ==
    pc \in {"send", "sync", "pcap", "out", "next"} => CurrentImgLen <= UnEncDataLen

(* A transfer under way or an unread DONE beyond the one being waited for    *)
(* is owed to a wait that timed out.                                         *)
DmaInv ==
    Len(dma) + (IF done THEN 1 ELSE 0) <= timeouts + (IF pc = "sync" THEN 1 ELSE 0)

Transfer == [part |-> part, len |-> IF part = "data" THEN NextBlkLen ELSE 0]

(* With every wait in time: what is under way is what is waited for, and the *)
(* PCAP is busy only from a data block to the wait after it.                 *)
EngineInv ==
    timeouts = 0 => /\ pc = "sync" => dma \in {<<>>, <<Transfer>>}
                    /\ pcap_busy => pc \in {"sync", "pcap"} /\ part = "data"

(* The block announced last has not been sent yet.                           *)
Ahead ==
    /\ pc \in {"send", "sync"}
    /\ part = "iv" \/ (part = "data" /\ (pc = "send" \/ dma # <<>>))

(* With every wait in time, what has been streamed is what the blocks so far *)
(* have announced, as long as none has failed.                               *)
StreamInv ==
    timeouts = 0 =>
        /\ pc \in {"init", "decouple", "setup"} => streamed = 0
        /\ BlockType = "header" /\ pc \in {"send", "sync", "pcap"} =>
              NextBlkLen = 0 /\ part # "data"
        /\ pc = "pcap" => part = "data"
        /\ ~failed => /\ Ahead => streamed + NextBlkLen = CurrentImgLen
                      /\ pc \in {"send", "sync", "pcap", "next"} /\ ~Ahead =>
                            streamed = CurrentImgLen
                      /\ pc = "out" /\ ret => streamed = CurrentImgLen
                      /\ pc \in {"waitdone", "pldone", "couple"} /\ ret =>
                            streamed = UnEncDataLen

MgrInv == MgrTypeOK /\ CleanInv /\ LengthInv /\ DmaInv /\ EngineInv /\ StreamInv
=============================================================================

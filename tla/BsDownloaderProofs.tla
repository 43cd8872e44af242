-------------------------- MODULE BsDownloaderProofs --------------------------
(****************************************************************************)
(* Proofs about BsDownloader and the FPGA manager below it, for images and  *)
(* blocks of every length and any number of DMA waits that time out.        *)
(****************************************************************************)
EXTENDS BsDownloader, SequenceTheorems, TLAPS

(* The types as the provers need them.                                       *)
LEMMA Types ==
    ASSUME MgrTypeOK
    PROVE  /\ pc \in Steps /\ part \in Parts
           /\ NextBlkLen \in Nat /\ UnEncDataLen \in Nat /\ CurrentImgLen \in Nat
           /\ AES_IV3 \in Nat /\ streamed \in Nat /\ timeouts \in Nat
           /\ dma \in Seq([part : Parts, len : 0..MaxLen]) /\ Len(dma) \in Nat
           /\ MaxLen \in Nat /\ MaxTimeouts \in Nat
           /\ dma = <<>> <=> Len(dma) = 0
<1>1. dma = <<>> <=> Len(dma) = 0
  BY EmptySeq DEF MgrTypeOK
<1> QED BY <1>1, FpgaAssumption DEF MgrTypeOK

(* One lemma for each step of the call and of the hardware beside it.        *)

LEMMA PcapInitFailsStep ==
    ASSUME MgrInv, PcapInitFails
    PROVE  MgrInv'
<1>1. MgrTypeOK /\ CleanInv /\ LengthInv /\ DmaInv /\ EngineInv /\ StreamInv
  BY DEF MgrInv
<1>2. MgrTypeOK'
  BY <1>1, Types DEF MgrTypeOK, Steps, Parts, LengthInv, DmaInv, PcapInitFails, call, engine
<1>3. CleanInv'
  BY <1>1, Types DEF CleanInv, IvSwapped, PcapInitFails, call, engine
<1>4. LengthInv'
  BY <1>1, Types DEF LengthInv, PcapInitFails, call, engine
<1>5. DmaInv'
  BY <1>1, Types DEF DmaInv, PcapInitFails, call, engine
<1>6. EngineInv'
  BY <1>1, Types DEF DmaInv, EngineInv, Transfer, PcapInitFails, call, engine
<1>7. StreamInv'
  BY <1>1, Types DEF DmaInv, EngineInv, StreamInv, Ahead, PcapInitFails, call, engine
<1> QED BY <1>2, <1>3, <1>4, <1>5, <1>6, <1>7 DEF MgrInv

LEMMA zynqmp_csu_pcap_initStep ==
    ASSUME MgrInv, zynqmp_csu_pcap_init
    PROVE  MgrInv'
<1>1. MgrTypeOK /\ CleanInv /\ LengthInv /\ DmaInv /\ EngineInv /\ StreamInv
  BY DEF MgrInv
<1>2. MgrTypeOK'
  BY <1>1, Types DEF MgrTypeOK, Steps, Parts, LengthInv, DmaInv, zynqmp_csu_pcap_init, call
<1>3. CleanInv'
  BY <1>1, Types DEF CleanInv, IvSwapped, zynqmp_csu_pcap_init, call
<1>4. LengthInv'
  BY <1>1, Types DEF LengthInv, zynqmp_csu_pcap_init, call
<1>5. DmaInv'
  BY <1>1, Types DEF DmaInv, zynqmp_csu_pcap_init, call
<1>6. EngineInv'
  BY <1>1, Types DEF DmaInv, EngineInv, Transfer, zynqmp_csu_pcap_init, call
<1>7. StreamInv'
  BY <1>1, Types DEF DmaInv, EngineInv, StreamInv, Ahead, zynqmp_csu_pcap_init, call
<1> QED BY <1>2, <1>3, <1>4, <1>5, <1>6, <1>7 DEF MgrInv

LEMMA DecoupleStep ==
    ASSUME MgrInv, Decouple
    PROVE  MgrInv'
<1>1. MgrTypeOK /\ CleanInv /\ LengthInv /\ DmaInv /\ EngineInv /\ StreamInv
  BY DEF MgrInv
<1>2. MgrTypeOK'
  BY <1>1, Types DEF MgrTypeOK, Steps, Parts, LengthInv, DmaInv, Decouple, call, engine
<1>3. CleanInv'
  BY <1>1, Types DEF CleanInv, IvSwapped, Decouple, call, engine
<1>4. LengthInv'
  BY <1>1, Types DEF LengthInv, Decouple, call, engine
<1>5. DmaInv'
  BY <1>1, Types DEF DmaInv, Decouple, call, engine
<1>6. EngineInv'
  BY <1>1, Types DEF DmaInv, EngineInv, Transfer, Decouple, call, engine
<1>7. StreamInv'
  BY <1>1, Types DEF DmaInv, EngineInv, StreamInv, Ahead, Decouple, call, engine
<1> QED BY <1>2, <1>3, <1>4, <1>5, <1>6, <1>7 DEF MgrInv

LEMMA SetupAesStep ==
    ASSUME MgrInv, SetupAes
    PROVE  MgrInv'
<1>1. MgrTypeOK /\ CleanInv /\ LengthInv /\ DmaInv /\ EngineInv /\ StreamInv
  BY DEF MgrInv
<1>2. MgrTypeOK'
  BY <1>1, Types DEF MgrTypeOK, Steps, Parts, LengthInv, DmaInv, SetupAes, zynqmp_csudma_prepare
<1>3. CleanInv'
  BY <1>1, Types DEF CleanInv, IvSwapped, SetupAes, zynqmp_csudma_prepare
<1>4. LengthInv'
  BY <1>1, Types DEF LengthInv, SetupAes, zynqmp_csudma_prepare
<1>5. DmaInv'
  BY <1>1, Types DEF DmaInv, SetupAes, zynqmp_csudma_prepare
<1>6. EngineInv'
  BY <1>1, Types DEF DmaInv, EngineInv, Transfer, SetupAes, zynqmp_csudma_prepare
<1>7. StreamInv'
  BY <1>1, Types DEF DmaInv, EngineInv, StreamInv, Ahead, SetupAes, zynqmp_csudma_prepare
<1> QED BY <1>2, <1>3, <1>4, <1>5, <1>6, <1>7 DEF MgrInv

(* Nothing else is under way when a transfer is started in time.             *)
LEMMA SendStep ==
    ASSUME MgrInv, Send
    PROVE  MgrInv'
<1>1. MgrTypeOK /\ CleanInv /\ LengthInv /\ DmaInv /\ EngineInv /\ StreamInv
  BY DEF MgrInv
<1>2. MgrTypeOK'
  BY <1>1, Types DEF MgrTypeOK, Steps, Parts, LengthInv, DmaInv, Send, zynqmp_csudma_transfer, KeyWrite, call
<1>3. CleanInv'
  BY <1>1, Types DEF CleanInv, IvSwapped, Send, zynqmp_csudma_transfer, KeyWrite, call
<1>4. LengthInv'
  BY <1>1, Types DEF LengthInv, Send, zynqmp_csudma_transfer, KeyWrite, call
<1>5. DmaInv'
  BY <1>1, Types DEF DmaInv, Send, zynqmp_csudma_transfer, KeyWrite, call
<1>6. EngineInv'
  <2>1. timeouts = 0 => dma = <<>>
    BY <1>1, Types DEF DmaInv, Send
  <2>2. dma = <<>> => dma' = <<Transfer>>
    BY <1>1 DEF Send, zynqmp_csudma_transfer, Transfer
  <2>3. Transfer' = Transfer /\ UNCHANGED timeouts /\ pc' = "sync" /\ UNCHANGED <<pcap_busy, part>>
    BY DEF Send, Transfer, call
  <2>4. timeouts = 0 => ~pcap_busy
    BY <1>1 DEF EngineInv, Send
  <2> QED BY <2>1, <2>2, <2>3, <2>4 DEF EngineInv
<1>7. StreamInv'
  BY <1>1, Types DEF DmaInv, EngineInv, StreamInv, Ahead, Send, zynqmp_csudma_transfer, KeyWrite, call
<1> QED BY <1>2, <1>3, <1>4, <1>5, <1>6, <1>7 DEF MgrInv

LEMMA SendFailsStep ==
    ASSUME MgrInv, SendFails
    PROVE  MgrInv'
<1>1. MgrTypeOK /\ CleanInv /\ LengthInv /\ DmaInv /\ EngineInv /\ StreamInv
  BY DEF MgrInv
<1>2. MgrTypeOK'
  BY <1>1, Types DEF MgrTypeOK, Steps, Parts, LengthInv, DmaInv, SendFails, KeyWrite, engine
<1>3. CleanInv'
  BY <1>1, Types DEF CleanInv, IvSwapped, SendFails, KeyWrite, engine
<1>4. LengthInv'
  BY <1>1, Types DEF LengthInv, SendFails, KeyWrite, engine
<1>5. DmaInv'
  BY <1>1, Types DEF DmaInv, SendFails, KeyWrite, engine
<1>6. EngineInv'
  BY <1>1, Types DEF DmaInv, EngineInv, Transfer, SendFails, KeyWrite, engine
<1>7. StreamInv'
  BY <1>1, Types DEF DmaInv, EngineInv, StreamInv, Ahead, SendFails, KeyWrite, engine
<1> QED BY <1>2, <1>3, <1>4, <1>5, <1>6, <1>7 DEF MgrInv

(* DONE is that of the transfer waited for, if every wait was in time.       *)
LEMMA SyncStep ==
    ASSUME MgrInv, Sync
    PROVE  MgrInv'
<1>1. MgrTypeOK /\ CleanInv /\ LengthInv /\ DmaInv /\ EngineInv /\ StreamInv
  BY DEF MgrInv
<1>2. MgrTypeOK'
  BY <1>1, Types DEF MgrTypeOK, Steps, Parts, LengthInv, DmaInv, Sync, AfterSync, csudma_clear_intr
<1>3. CleanInv'
  BY <1>1, Types DEF CleanInv, IvSwapped, Sync, AfterSync, csudma_clear_intr
<1>4. LengthInv'
  BY <1>1, Types DEF LengthInv, Sync, AfterSync, csudma_clear_intr
<1>5. DmaInv'
  BY <1>1, Types DEF DmaInv, Sync, AfterSync, csudma_clear_intr
<1>6. EngineInv'
  BY <1>1, Types DEF DmaInv, EngineInv, Transfer, Sync, AfterSync, csudma_clear_intr
<1>7. StreamInv'
  <2>1. timeouts = 0 => dma = <<>>
    BY <1>1, Types DEF DmaInv, Sync
  <2>2. /\ pc = "sync"
        /\ UNCHANGED <<BlockType, NextBlkLen, CurrentImgLen, failed, dma, streamed, timeouts>>
        /\ \/ part = "iv" /\ pc' = "send" /\ part' = IF BlockType = "data" THEN "data" ELSE "hdr"
           \/ part = "data" /\ pc' = "pcap" /\ part' = part
           \/ part = "hdr" /\ pc' = "send" /\ part' = "tag"
           \/ part = "tag" /\ pc' = "out" /\ part' = part
    BY DEF Sync, AfterSync
  <2>3. BlockType \in {"header", "data"}
    BY <1>1 DEF MgrTypeOK
  <2> QED BY <1>1, <2>1, <2>2, <2>3, Types DEF StreamInv, Ahead
<1> QED BY <1>2, <1>3, <1>4, <1>5, <1>6, <1>7 DEF MgrInv

(* From here on the engine is owed a DONE.                                   *)
LEMMA SyncTimesOutStep ==
    ASSUME MgrInv, SyncTimesOut
    PROVE  MgrInv'
<1>1. MgrTypeOK /\ CleanInv /\ LengthInv /\ DmaInv /\ EngineInv /\ StreamInv
  BY DEF MgrInv
<1>2. MgrTypeOK'
  <2>1. (timeouts \in 0..MaxTimeouts)' /\ (Len(dma) <= MaxTimeouts + 1)'
    BY <1>1, Types DEF SyncTimesOut, MgrTypeOK, engine
  <2> QED BY <1>1, <2>1 DEF MgrTypeOK, Steps, SyncTimesOut, engine
<1>3. CleanInv'
  BY <1>1, Types DEF CleanInv, IvSwapped, SyncTimesOut, engine
<1>4. LengthInv'
  BY <1>1, Types DEF LengthInv, SyncTimesOut, engine
<1>5. DmaInv'
  BY <1>1, Types DEF DmaInv, SyncTimesOut, engine
<1>6. EngineInv'
  BY <1>1, Types DEF DmaInv, EngineInv, Transfer, SyncTimesOut, engine
<1>7. StreamInv'
  BY <1>1, Types DEF DmaInv, EngineInv, StreamInv, Ahead, SyncTimesOut, engine
<1> QED BY <1>2, <1>3, <1>4, <1>5, <1>6, <1>7 DEF MgrInv

LEMMA WaitPcapStep ==
    ASSUME MgrInv, WaitPcap
    PROVE  MgrInv'
<1>1. MgrTypeOK /\ CleanInv /\ LengthInv /\ DmaInv /\ EngineInv /\ StreamInv
  BY DEF MgrInv
<1>2. MgrTypeOK'
  BY <1>1, Types DEF MgrTypeOK, Steps, Parts, LengthInv, DmaInv, WaitPcap, PcapIdle, engine
<1>3. CleanInv'
  BY <1>1, Types DEF CleanInv, IvSwapped, WaitPcap, PcapIdle, engine
<1>4. LengthInv'
  BY <1>1, Types DEF LengthInv, WaitPcap, PcapIdle, engine
<1>5. DmaInv'
  BY <1>1, Types DEF DmaInv, WaitPcap, PcapIdle, engine
<1>6. EngineInv'
  BY <1>1, Types DEF DmaInv, EngineInv, Transfer, WaitPcap, PcapIdle, engine
<1>7. StreamInv'
  BY <1>1, Types DEF DmaInv, EngineInv, StreamInv, Ahead, WaitPcap, PcapIdle, engine
<1> QED BY <1>2, <1>3, <1>4, <1>5, <1>6, <1>7 DEF MgrInv

LEMMA OutStep ==
    ASSUME MgrInv, Out
    PROVE  MgrInv'
<1>1. MgrTypeOK /\ CleanInv /\ LengthInv /\ DmaInv /\ EngineInv /\ StreamInv
  BY DEF MgrInv
<1>2. MgrTypeOK'
  BY <1>1, Types DEF MgrTypeOK, Steps, Parts, LengthInv, DmaInv, Out, zynqmp_csudma_unprepare, BlockEnds, engine
<1>3. CleanInv'
  BY <1>1, Types DEF CleanInv, IvSwapped, Out, zynqmp_csudma_unprepare, BlockEnds, engine
<1>4. LengthInv'
  BY <1>1, Types DEF LengthInv, Out, zynqmp_csudma_unprepare, BlockEnds, engine
<1>5. DmaInv'
  BY <1>1, Types DEF DmaInv, Out, zynqmp_csudma_unprepare, BlockEnds, engine
<1>6. EngineInv'
  BY <1>1, Types DEF DmaInv, EngineInv, Transfer, Out, zynqmp_csudma_unprepare, BlockEnds, engine
<1>7. StreamInv'
  BY <1>1, Types DEF DmaInv, EngineInv, StreamInv, Ahead, Out, zynqmp_csudma_unprepare, BlockEnds, engine
<1> QED BY <1>2, <1>3, <1>4, <1>5, <1>6, <1>7 DEF MgrInv

(* The loop ends well only if the blocks add up to the image.                *)
LEMMA NextBlockStep ==
    ASSUME MgrInv, NextBlock
    PROVE  MgrInv'
<1>1. MgrTypeOK /\ CleanInv /\ LengthInv /\ DmaInv /\ EngineInv /\ StreamInv
  BY DEF MgrInv
<1>2. MgrTypeOK'
  <2>1. (CurrentImgLen \in 0..(2 * MaxLen))' /\ (NextBlkLen \in 0..MaxLen)'
    BY <1>1, Types DEF MgrTypeOK, LengthInv, NextBlock, Total
  <2>2. (pc \in Steps)' /\ (part \in Parts)' /\ (BlockType \in {"header", "data"})'
          /\ (bs_iv \in {"image", "engine"})'
    BY <1>1 DEF MgrTypeOK, Steps, Parts, NextBlock
  <2>3. (ret \in BOOLEAN)'
    BY DEF NextBlock
  <2> QED BY <1>1, <2>1, <2>2, <2>3 DEF MgrTypeOK, NextBlock, engine
<1>3. CleanInv'
  BY <1>1, Types DEF CleanInv, IvSwapped, NextBlock, IsLast, LengthsAgree, TooLong, Total, engine
<1>4. LengthInv'
  BY <1>1, Types DEF LengthInv, NextBlock, IsLast, LengthsAgree, TooLong, Total, engine
<1>5. DmaInv'
  BY <1>1, Types DEF DmaInv, NextBlock, IsLast, LengthsAgree, TooLong, Total, engine
<1>6. EngineInv'
  BY <1>1, Types DEF DmaInv, EngineInv, Transfer, NextBlock, IsLast, LengthsAgree, TooLong, Total, engine
<1>7. StreamInv'
  <2>1. /\ pc = "next"
        /\ NextBlkLen' = AES_IV3 /\ CurrentImgLen' = CurrentImgLen + AES_IV3
        /\ UNCHANGED <<UnEncDataLen, failed, dma, streamed, timeouts>>
    BY DEF NextBlock, Total, engine
  <2>2. CASE AES_IV3 = 0 /\ ret' = (ret /\ LengthsAgree) /\ pc' \in {"waitdone", "couple"}
    <3>a. ret' => LengthsAgree
      BY <2>2, Zenon
    <3>b. LengthsAgree => CurrentImgLen = UnEncDataLen
      BY <1>1, <2>2, Types DEF LengthsAgree, Total
    <3>1. ret' => CurrentImgLen = UnEncDataLen
      BY <3>a, <3>b, Zenon
    <3>2. timeouts = 0 /\ ~failed => streamed = CurrentImgLen
      BY <1>1, <2>1 DEF StreamInv, Ahead
    <3> QED BY <2>1, <2>2, <3>1, <3>2 DEF StreamInv, Ahead
  <2>3. CASE ret' = FALSE /\ pc' = "couple"
    BY <1>1, <2>1, <2>3, Types DEF StreamInv, Ahead
  <2>4. CASE pc' = "send" /\ part' = "iv" /\ BlockType' = "data"
    BY <1>1, <2>1, <2>4, Types DEF StreamInv, Ahead
  <2> QED BY <2>2, <2>3, <2>4 DEF NextBlock, IsLast
<1> QED BY <1>2, <1>3, <1>4, <1>5, <1>6, <1>7 DEF MgrInv

LEMMA pcap_waitForDoneStep ==
    ASSUME MgrInv, pcap_waitForDone
    PROVE  MgrInv'
<1>1. MgrTypeOK /\ CleanInv /\ LengthInv /\ DmaInv /\ EngineInv /\ StreamInv
  BY DEF MgrInv
<1>2. MgrTypeOK'
  BY <1>1, Types DEF MgrTypeOK, Steps, Parts, LengthInv, DmaInv, pcap_waitForDone, engine
<1>3. CleanInv'
  BY <1>1, Types DEF CleanInv, IvSwapped, pcap_waitForDone, engine
<1>4. LengthInv'
  BY <1>1, Types DEF LengthInv, pcap_waitForDone, engine
<1>5. DmaInv'
  BY <1>1, Types DEF DmaInv, pcap_waitForDone, engine
<1>6. EngineInv'
  BY <1>1, Types DEF DmaInv, EngineInv, Transfer, pcap_waitForDone, engine
<1>7. StreamInv'
  BY <1>1, Types DEF DmaInv, EngineInv, StreamInv, Ahead, pcap_waitForDone, engine
<1> QED BY <1>2, <1>3, <1>4, <1>5, <1>6, <1>7 DEF MgrInv

LEMMA pcap_waitForPLDoneStep ==
    ASSUME MgrInv, pcap_waitForPLDone
    PROVE  MgrInv'
<1>1. MgrTypeOK /\ CleanInv /\ LengthInv /\ DmaInv /\ EngineInv /\ StreamInv
  BY DEF MgrInv
<1>2. MgrTypeOK'
  BY <1>1, Types DEF MgrTypeOK, Steps, Parts, LengthInv, DmaInv, pcap_waitForPLDone
<1>3. CleanInv'
  BY <1>1, Types DEF CleanInv, IvSwapped, pcap_waitForPLDone
<1>4. LengthInv'
  BY <1>1, Types DEF LengthInv, pcap_waitForPLDone
<1>5. DmaInv'
  BY <1>1, Types DEF DmaInv, pcap_waitForPLDone
<1>6. EngineInv'
  BY <1>1, Types DEF DmaInv, EngineInv, Transfer, pcap_waitForPLDone
<1>7. StreamInv'
  BY <1>1, Types DEF DmaInv, EngineInv, StreamInv, Ahead, pcap_waitForPLDone
<1> QED BY <1>2, <1>3, <1>4, <1>5, <1>6, <1>7 DEF MgrInv

LEMMA CoupleStep ==
    ASSUME MgrInv, Couple
    PROVE  MgrInv'
<1>1. MgrTypeOK /\ CleanInv /\ LengthInv /\ DmaInv /\ EngineInv /\ StreamInv
  BY DEF MgrInv
<1>2. MgrTypeOK'
  BY <1>1, Types DEF MgrTypeOK, Steps, Parts, LengthInv, DmaInv, Couple, Returns, call, engine
<1>3. CleanInv'
  BY <1>1, Types DEF CleanInv, IvSwapped, Couple, Returns, call, engine
<1>4. LengthInv'
  BY <1>1, Types DEF LengthInv, Couple, Returns, call, engine
<1>5. DmaInv'
  BY <1>1, Types DEF DmaInv, Couple, Returns, call, engine
<1>6. EngineInv'
  BY <1>1, Types DEF DmaInv, EngineInv, Transfer, Couple, Returns, call, engine
<1>7. StreamInv'
  BY <1>1, Types DEF DmaInv, EngineInv, StreamInv, Ahead, Couple, Returns, call, engine
<1> QED BY <1>2, <1>3, <1>4, <1>5, <1>6, <1>7 DEF MgrInv

LEMMA AcceptStep ==
    ASSUME MgrInv, Accept
    PROVE  MgrInv'
<1>1. MgrTypeOK /\ CleanInv /\ LengthInv /\ DmaInv /\ EngineInv /\ StreamInv
  BY DEF MgrInv
<1>2. MgrTypeOK'
  BY <1>1, Types DEF MgrTypeOK, Steps, Parts, LengthInv, DmaInv, Accept, validateSecureBitstream
<1>3. CleanInv'
  BY <1>1, Types DEF CleanInv, IvSwapped, Accept, validateSecureBitstream
<1>4. LengthInv'
  BY <1>1, Types DEF LengthInv, Accept, validateSecureBitstream
<1>5. DmaInv'
  BY <1>1, Types DEF DmaInv, Accept, validateSecureBitstream
<1>6. EngineInv'
  BY <1>1, Types DEF DmaInv, EngineInv, Transfer, Accept, validateSecureBitstream
<1>7. StreamInv'
  BY <1>1, Types DEF DmaInv, EngineInv, StreamInv, Ahead, Accept, validateSecureBitstream
<1> QED BY <1>2, <1>3, <1>4, <1>5, <1>6, <1>7 DEF MgrInv

(* With every wait in time the transfer that ends is the one waited for.     *)
LEMMA DmaCompletesStep ==
    ASSUME MgrInv, DmaCompletes
    PROVE  MgrInv'
<1>1. MgrTypeOK /\ CleanInv /\ LengthInv /\ DmaInv /\ EngineInv /\ StreamInv
  BY DEF MgrInv
<1>2. MgrTypeOK'
  <2>1. /\ Tail(dma) \in Seq([part : Parts, len : 0..MaxLen])
        /\ Len(Tail(dma)) = Len(dma) - 1 /\ Head(dma) \in [part : Parts, len : 0..MaxLen]
    BY <1>1, Types, HeadTailProperties DEF DmaCompletes
  <2>2. (dma \in Seq([part : Parts, len : 0..MaxLen]) /\ Len(dma) <= MaxTimeouts + 1)'
    BY <1>1, <2>1, Types DEF DmaCompletes, MgrTypeOK
  <2>3. (streamed \in Nat)'
    BY <1>1, <2>1, Types DEF DmaCompletes
  <2>4. (done \in BOOLEAN /\ pcap_busy \in BOOLEAN /\ AES_IV3 \in 0..MaxLen)'
    BY <1>1 DEF DmaCompletes, MgrTypeOK
  <2> QED BY <1>1, <2>2, <2>3, <2>4 DEF DmaCompletes, MgrTypeOK, call
<1>3. CleanInv'
  BY <1>1, Types DEF CleanInv, IvSwapped, DmaCompletes, call
<1>4. LengthInv'
  BY <1>1, Types DEF LengthInv, DmaCompletes, call
<1>5. DmaInv'
  BY <1>1, Types DEF DmaInv, DmaCompletes, call
<1>6. EngineInv'
  <2>1. timeouts = 0 => pc = "sync" /\ dma = <<Transfer>>
    BY <1>1, Types DEF DmaInv, EngineInv, DmaCompletes
  <2>2. dma = <<Transfer>> => dma' = <<>> /\ pcap_busy' = (pcap_busy \/ part = "data")
    BY DEF DmaCompletes, Transfer
  <2>3. UNCHANGED <<pc, part, timeouts>>
    BY DEF DmaCompletes, call
  <2> QED BY <1>1, <2>1, <2>2, <2>3 DEF EngineInv
<1>7. StreamInv'
  <2>1. timeouts = 0 => pc = "sync" /\ dma = <<Transfer>>
    BY <1>1, Types DEF DmaInv, EngineInv, DmaCompletes
  <2>2. dma = <<Transfer>> =>
           dma' = <<>> /\ streamed' = streamed + (IF part = "data" THEN NextBlkLen ELSE 0)
    BY DEF DmaCompletes, Transfer
  <2>3. UNCHANGED <<pc, call, timeouts>>
    BY DEF DmaCompletes, call
  <2> SUFFICES ASSUME timeouts = 0 PROVE StreamInv'
    BY <2>3 DEF StreamInv
  <2>4. CASE part = "data"
    <3>1. streamed' = streamed + NextBlkLen /\ dma # <<>> /\ ~Ahead'
      BY <2>1, <2>2, <2>3, <2>4 DEF Ahead, call
    <3>2. ~failed => streamed + NextBlkLen = CurrentImgLen
      BY <1>1, <2>1, <2>4, <3>1 DEF StreamInv, Ahead
    <3> QED BY <1>1, <2>1, <2>3, <2>4, <3>1, <3>2 DEF StreamInv, call
  <2>5. CASE part # "data"
    <3>1. streamed' = streamed /\ Ahead' = Ahead
      BY <1>1, <2>1, <2>2, <2>3, <2>5, Types DEF Ahead, call
    <3> QED BY <1>1, <2>1, <2>3, <2>5, <3>1 DEF StreamInv, call
  <2> QED BY <2>4, <2>5
<1> QED BY <1>2, <1>3, <1>4, <1>5, <1>6, <1>7 DEF MgrInv

LEMMA PcapDrainsStep ==
    ASSUME MgrInv, PcapDrains
    PROVE  MgrInv'
<1>1. MgrTypeOK /\ CleanInv /\ LengthInv /\ DmaInv /\ EngineInv /\ StreamInv
  BY DEF MgrInv
<1>2. MgrTypeOK'
  BY <1>1, Zenon DEF MgrTypeOK, PcapDrains, call
<1>3. CleanInv'
  BY <1>1, Types DEF CleanInv, IvSwapped, PcapDrains, call
<1>4. LengthInv'
  BY <1>1, Types DEF LengthInv, PcapDrains, call
<1>5. DmaInv'
  BY <1>1, Types DEF DmaInv, PcapDrains, call
<1>6. EngineInv'
  BY <1>1, Types DEF DmaInv, EngineInv, Transfer, PcapDrains, call
<1>7. StreamInv'
  BY <1>1, Types DEF DmaInv, EngineInv, StreamInv, Ahead, PcapDrains, call
<1> QED BY <1>2, <1>3, <1>4, <1>5, <1>6, <1>7 DEF MgrInv

(* Every step of the call and of the hardware preserves the invariant.       *)
LEMMA PtaStepInv == MgrInv /\ PtaStep => MgrInv'
  BY PcapInitFailsStep, zynqmp_csu_pcap_initStep, DecoupleStep, SetupAesStep, SendStep,
     SendFailsStep, SyncStep, SyncTimesOutStep, WaitPcapStep, OutStep, NextBlockStep,
     pcap_waitForDoneStep, pcap_waitForPLDoneStep, CoupleStep
  DEF PtaStep, zynqmp_csu_secure_pcap_write, aes_transfer_dec

LEMMA MgrInit_Inv == MgrInit => MgrInv
<1> SUFFICES ASSUME MgrInit PROVE MgrInv
  OBVIOUS
<1>1. dma \in Seq([part : Parts, len : 0..MaxLen]) /\ Len(dma) = 0
  BY EmptySeq DEF MgrInit
<1>2. MgrTypeOK
  <2>1. /\ ret \in BOOLEAN /\ failed \in BOOLEAN /\ decoupled \in BOOLEAN
        /\ swap \in BOOLEAN /\ done \in BOOLEAN /\ pcap_busy \in BOOLEAN
        /\ kup_wr \in BOOLEAN
    BY Zenon DEF MgrInit
  <2> QED BY <1>1, <2>1, FpgaAssumption DEF MgrInit, MgrTypeOK, Steps, Parts
<1>3. CleanInv /\ LengthInv
  BY DEF MgrInit, CleanInv, IvSwapped, LengthInv
<1>4. DmaInv /\ EngineInv /\ StreamInv
  BY <1>1 DEF MgrInit, DmaInv, EngineInv, StreamInv, Ahead
<1> QED BY <1>2, <1>3, <1>4 DEF MgrInv

LEMMA MgrStutter == MgrInv /\ UNCHANGED mgrVars => MgrInv'
<1> SUFFICES ASSUME MgrInv, UNCHANGED mgrVars PROVE MgrInv'
  OBVIOUS
<1>1. UNCHANGED <<pc, part, ret, BlockType, NextBlkLen, CurrentImgLen, UnEncDataLen, bs_iv,
                  failed, decoupled, swap, kup_wr, dma, done, pcap_busy, AES_IV3, streamed,
                  timeouts>>
  BY DEF mgrVars, call, engine
<1>2. MgrTypeOK'
  BY <1>1 DEF MgrInv, MgrTypeOK
<1>3. CleanInv' /\ LengthInv' /\ DmaInv'
  BY <1>1 DEF MgrInv, CleanInv, IvSwapped, LengthInv, DmaInv
<1>4. EngineInv' /\ StreamInv'
  BY <1>1 DEF MgrInv, EngineInv, Transfer, StreamInv, Ahead
<1> QED BY <1>2, <1>3, <1>4 DEF MgrInv

(* What TypeOK says of the TA, but for its Boolean.                          *)
TaTypes ==
    /\ ta \in {"closed", "open", "connect", "recv", "invoke", "pta"}
    /\ ptr \in Contents \cup {"null"}
    /\ heap \in {"zero", "old", "broken"}
    /\ got \in 0..MaxChunks
    /\ sockets \in 0..(MaxSockets + 1)

(* The TA changes nothing of the manager but by calling it.                  *)
LEMMA TaStep ==
    ASSUME IInv, Ta
    PROVE  IInv'
<1>1. MgrInv /\ TypeOK /\ TaInv
  BY DEF IInv
<1>2. MgrInv'
  <2>1. UNCHANGED mgrVars \/ Accept
    BY DEF Ta, TA_OpenSessionEntryPoint, TA_CloseSessionEntryPoint, downlaod_bs, tcp_connect,
           Recv, RecvEnds, Invoke, InvokeRefused, InvokeReturns, Panic
  <2> QED BY <1>1, <2>1, MgrStutter, AcceptStep
<1>3. session' \in BOOLEAN
  <2>1. CASE TA_OpenSessionEntryPoint
    BY <1>1, <2>1, Zenon DEF TypeOK, TA_OpenSessionEntryPoint
  <2>2. CASE UNCHANGED session
    BY <1>1, <2>2, Zenon DEF TypeOK
  <2>3. CASE Panic
    BY <2>3, Zenon DEF Panic
  <2> QED BY <2>1, <2>2, <2>3 DEF Ta, TA_CloseSessionEntryPoint, downlaod_bs, tcp_connect, Recv,
             RecvEnds, Invoke, InvokeRefused, InvokeReturns
<1>4. TaInv' /\ TaTypes'
  <2>1. CASE TA_OpenSessionEntryPoint
    BY <1>1, <2>1, DownloadAssumption
    DEF TypeOK, TaInv, TaTypes, Contents, Received, TA_OpenSessionEntryPoint, mgrVars
  <2>2. CASE TA_CloseSessionEntryPoint
    BY <1>1, <2>2, DownloadAssumption
    DEF TypeOK, TaInv, TaTypes, Contents, Received, TA_CloseSessionEntryPoint, mgrVars
  <2>3. CASE downlaod_bs
    BY <1>1, <2>3, DownloadAssumption
    DEF TypeOK, TaInv, TaTypes, Contents, Received, downlaod_bs, Malloc, mgrVars
  <2>4. CASE tcp_connect
    BY <1>1, <2>4, DownloadAssumption
    DEF TypeOK, TaInv, TaTypes, Contents, Received, tcp_connect, mgrVars
  <2>5. CASE Recv
    BY <1>1, <2>5, DownloadAssumption
    DEF TypeOK, TaInv, TaTypes, Contents, Received, Recv, mgrVars
  <2>6. CASE RecvEnds
    BY <1>1, <2>6, DownloadAssumption
    DEF TypeOK, TaInv, TaTypes, Contents, Received, RecvEnds, mgrVars
  <2>7. CASE Invoke
    BY <1>1, <2>7, DownloadAssumption
    DEF TypeOK, TaInv, TaTypes, Contents, Received, Invoke, Accept, mgrVars
  <2>8. CASE InvokeRefused
    BY <1>1, <2>8, DownloadAssumption
    DEF TypeOK, TaInv, TaTypes, Contents, Received, InvokeRefused, Free, mgrVars
  <2>9. CASE InvokeReturns
    BY <1>1, <2>9, DownloadAssumption
    DEF TypeOK, TaInv, TaTypes, Contents, Received, InvokeReturns, Free, mgrVars
  <2>10. CASE Panic
    BY <1>1, <2>10, DownloadAssumption
    DEF TypeOK, TaInv, TaTypes, Contents, Received, Panic, mgrVars
  <2> QED BY <2>1, <2>2, <2>3, <2>4, <2>5, <2>6, <2>7, <2>8, <2>9, <2>10 DEF Ta
<1>5. TypeOK'
  BY <1>2, <1>3, <1>4 DEF TypeOK, TaTypes, MgrInv
<1> QED BY <1>2, <1>4, <1>5 DEF IInv

LEMMA InvNext == IInv /\ [Next]_vars => IInv'
<1> SUFFICES ASSUME IInv, [Next]_vars PROVE IInv'
  OBVIOUS
<1>1. CASE Ta
  BY <1>1, TaStep
<1>2. ASSUME MgrInv', UNCHANGED taVars, pc' = pc \/ pc # "idle" PROVE IInv'
  BY <1>2 DEF IInv, TypeOK, MgrInv, TaInv, taVars
<1>3. CASE PtaStep /\ UNCHANGED taVars
  <2>1. pc # "idle"
    BY <1>3 DEF PtaStep, PcapInitFails, zynqmp_csu_pcap_init, Decouple, Couple, Returns,
       zynqmp_csu_secure_pcap_write, SetupAes, aes_transfer_dec, Send, SendFails, Sync,
       SyncTimesOut, WaitPcap, Out, BlockEnds, NextBlock, pcap_waitForDone,
       pcap_waitForPLDone
  <2>2. MgrInv'
    BY <1>3, PtaStepInv DEF IInv
  <2> QED BY <1>2, <1>3, <2>1, <2>2
<1>4. CASE DmaCompletes /\ UNCHANGED taVars
  <2>1. MgrInv' /\ pc' = pc
    BY <1>4, DmaCompletesStep DEF IInv, DmaCompletes
  <2> QED BY <1>2, <1>4, <2>1
<1>5. CASE PcapDrains /\ UNCHANGED taVars
  <2>1. MgrInv' /\ pc' = pc
    BY <1>5, PcapDrainsStep DEF IInv, PcapDrains
  <2> QED BY <1>2, <1>5, <2>1
<1>6. CASE UNCHANGED vars
  <2>1. UNCHANGED mgrVars /\ UNCHANGED taVars /\ pc' = pc
    BY <1>6 DEF vars, mgrVars
  <2>2. MgrInv'
    BY <2>1, MgrStutter DEF IInv
  <2> QED BY <1>2, <2>1, <2>2
<1> QED BY <1>1, <1>3, <1>4, <1>5, <1>6 DEF Next

LEMMA InvInit == Init => IInv
<1> SUFFICES ASSUME Init PROVE IInv
  OBVIOUS
<1>1. MgrInv
  BY MgrInit_Inv DEF Init
<1>2. TypeOK
  <2>1. session \in BOOLEAN
    BY Zenon DEF Init
  <2>2. TaTypes
    BY DownloadAssumption DEF Init, TaTypes, Contents
  <2> QED BY <1>1, <2>1, <2>2 DEF TypeOK, TaTypes, MgrInv
<1>3. TaInv
  BY DEF Init, MgrInit, TaInv, Received
<1> QED BY <1>1, <1>2, <1>3 DEF IInv

(* The inductive strengthening holds of the update.                          *)
THEOREM Invariance == Spec => []IInv
  BY InvInit, InvNext, PTL DEF Spec

(* The variables keep their types: the lengths never leave their ranges, and *)
(* no more transfers pile up than waits have timed out, and one.             *)
THEOREM TypeCorrect == Spec => []TypeOK
<1>1. IInv => TypeOK
  BY DEF IInv
<1> QED BY <1>1, Invariance, PTL

(* As long as no DMA wait times out, nothing flows to an RP that is coupled  *)
(* (pta_zynqmp_fpga_write).                                                  *)
THEOREM IsolatedUntilTimeout == Spec => []IsolatedInTime
<1>1. IInv => IsolatedInTime
  <2> SUFFICES ASSUME IInv, timeouts = 0, Streaming PROVE decoupled
    BY DEF IsolatedInTime, Isolated
  <2>1. MgrTypeOK /\ CleanInv /\ DmaInv /\ EngineInv
    BY DEF IInv, MgrInv
  <2>2. CASE pcap_busy
    BY <2>1, <2>2 DEF CleanInv, EngineInv
  <2>3. CASE ~pcap_busy
    <3>1. PICK k \in 1..Len(dma) : TRUE
      BY <2>3 DEF Streaming
    <3>2. pc = "sync"
      BY <2>1, <3>1, Types DEF DmaInv
    <3> QED BY <2>1, <3>2 DEF CleanInv
  <2> QED BY <2>2, <2>3
<1> QED BY <1>1, Invariance, PTL

(* No transfer and no DONE is left over, unless a wait has timed out         *)
(* (zynqmp_csudma_sync, csudma_clear_intr).                                  *)
THEOREM NothingLeftOver == Spec => []SyncMeansDone
<1>1. IInv => SyncMeansDone
  BY Types DEF IInv, MgrInv, DmaInv, SyncMeansDone
<1> QED BY <1>1, Invariance, PTL

(* Every call leaves the RPs coupled and byte swapping off.                  *)
THEOREM CleanCalls == Spec => []CleanAfterCall
<1>1. IInv => CleanAfterCall
  BY DEF IInv, MgrInv, CleanInv, CleanAfterCall
<1> QED BY <1>1, Invariance, PTL

(* Each IV is sent in the byte order it has.                                 *)
THEOREM IvInOrder == Spec => []IvSwapped
<1>1. IInv => IvSwapped
  BY DEF IInv, MgrInv, CleanInv
<1> QED BY <1>1, Invariance, PTL

(* Success means that the image has gone to the PCAP, word for word.         *)
THEOREM SuccessIsStreamed == Spec => []SuccessMeansStreamed
<1>1. IInv => SuccessMeansStreamed
  BY DEF IInv, MgrInv, StreamInv, SuccessMeansStreamed
<1> QED BY <1>1, Invariance, PTL

(* The PL gets only what recv delivered to the command that writes it,       *)
(* however its receives fail and however long the download is.               *)
THEOREM NothingOldWritten == Spec => []OnlyReceivedWritten
<1>1. IInv => OnlyReceivedWritten
  BY DEF IInv, TaInv, OnlyReceivedWritten
<1> QED BY <1>1, Invariance, PTL
=============================================================================

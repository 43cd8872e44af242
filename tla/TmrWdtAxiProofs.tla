--------------------------- MODULE TmrWdtAxiProofs ---------------------------
(****************************************************************************)
(* Proofs about TmrWdtAxi, for every reload value, every set of registers   *)
(* and words the master uses and any number of reads it has outstanding.    *)
(****************************************************************************)
EXTENDS TmrWdtAxi, TLAPS

USE DEF RegNums, Dogs, CTRL, RELOAD, KICK, STATUS, CNT_A, CNT_C, None

(* The fields of what a channel presents.                                    *)
LEMMA Fields ==
    ASSUME NEW v, NEW a, NEW n, NEW s, NEW e,
           e = [valid |-> v, addr |-> a, data |-> n, strb |-> s]
    PROVE  e.valid = v /\ e.addr = a /\ e.data = n /\ e.strb = s
  BY SMT

(* An address channel presents a register, a data channel a word.            *)
LEMMA AddrChanFields ==
    ASSUME NEW e \in AddrChan
    PROVE  e.valid \in BOOLEAN /\ e.addr \in RegNums
<1>1. CASE e = Idle
  BY <1>1, Fields DEF Idle
<1>2. ASSUME NEW a \in Addrs, e = [Idle EXCEPT !.valid = TRUE, !.addr = a]
      PROVE  e.valid \in BOOLEAN /\ e.addr \in RegNums
  <2>1. e = [valid |-> TRUE, addr |-> a, data |-> 0, strb |-> FALSE]
    BY <1>2 DEF Idle
  <2> QED BY <2>1, Fields, BusAssumption
<1> QED BY <1>1, <1>2 DEF AddrChan

LEMMA DataChanFields ==
    ASSUME NEW e \in DataChan
    PROVE  /\ e.valid \in BOOLEAN /\ e.strb \in BOOLEAN
           /\ e.data \in Words \cup {0}
<1>1. CASE e = Idle
  BY <1>1, Fields DEF Idle
<1>2. ASSUME NEW n \in Words, NEW s \in BOOLEAN,
             e = [valid |-> TRUE, addr |-> 0, data |-> n, strb |-> s]
      PROVE  /\ e.valid \in BOOLEAN /\ e.strb \in BOOLEAN
             /\ e.data \in Words \cup {0}
  <2>1. e.valid = TRUE /\ e.data = n /\ e.strb = s
    BY <1>2, Fields, Zenon
  <2> QED BY <2>1, Zenon
<1> QED BY <1>1, <1>2 DEF DataChan

(* The handshakes a slave and its master see are the same.                   *)
LEMMA Grants ==
    ASSUME IInv
    PROVE  /\ slv_reg_wren <=> awGrant
           /\ awGrant <=> axi_awready
           /\ wGrant <=> axi_awready
           /\ arGrant <=> axi_arready
  BY DEF IInv, TypeOK, WriteInv, ReadInv, slv_reg_wren, awGrant, wGrant, arGrant

LEMMA InvInit == Init => IInv
<1> SUFFICES ASSUME Init PROVE IInv
  OBVIOUS
<1>1. TypeOK
  <2>1. \A d \in Dogs : \E n \in Words \cup {RELOAD_DEFAULT} : counter[d] \in 0..n
    BY ReloadAssumption DEF Init, CoreInit
  <2>2. aw \in AddrChan /\ ar \in AddrChan /\ w \in DataChan
    <3>1. Idle \in AddrChan /\ Idle \in DataChan
      BY DEF AddrChan, DataChan
    <3> QED BY <3>1 DEF Init
  <2>3. slv_reg \in [RegNums -> Words \cup {0}]
    BY DEF Init, CoreInit
  <2>4. rOut \in 0..MaxReads /\ wOut \in Nat /\ rExpect \in Nat /\ axi_rdata \in Nat
    BY BusAssumption DEF Init
  <2>5. axi_awaddr \in RegNums /\ axi_araddr \in RegNums
    BY DEF Init
  <2>6. /\ axi_awready \in BOOLEAN /\ axi_wready = axi_awready
        /\ aw_en \in BOOLEAN /\ axi_bvalid \in BOOLEAN
        /\ axi_arready \in BOOLEAN /\ axi_rvalid \in BOOLEAN
        /\ bready \in BOOLEAN /\ rready \in BOOLEAN /\ overtaken \in BOOLEAN
    BY Zenon DEF Init
  <2> QED BY <2>1, <2>2, <2>3, <2>4, <2>5, <2>6, Zenon DEF TypeOK
<1>2. WriteInv /\ ReadInv
  BY DEF Init, WriteInv, ReadInv, Idle
<1>3. WritesLand /\ WriteAnswered /\ SingleReadAnswered
  BY DEF Init, WritesLand, WriteAnswered, SingleReadAnswered, ReadAnswered
<1> QED BY <1>1, <1>2, <1>3 DEF IInv

(* What the registers see of a granted write is what the master presents.    *)
LEMMA BusWriteFields ==
    ASSUME IInv
    PROVE  /\ axi_awready => /\ BusWrite.addr = aw.addr /\ BusWrite.data = w.data
                             /\ BusWrite.strb = w.strb
           /\ ~axi_awready => BusWrite.addr = None
<1>1. CASE axi_awready
  <2>1. BusWrite = [addr |-> aw.addr, data |-> w.data, strb |-> w.strb]
    BY <1>1, Grants DEF IInv, WriteInv, BusWrite
  <2> QED BY <1>1, <2>1
<1>2. CASE ~axi_awready
  <2>1. BusWrite = NoWrite
    BY <1>2, Grants DEF BusWrite
  <2> QED BY <1>2, <2>1 DEF NoWrite
<1> QED BY <1>1, <1>2

(* The write channel: one write at a time, and it lands.                     *)
LEMMA WriteStep ==
    ASSUME IInv, Clock
    PROVE  WriteInv' /\ WriteAnswered' /\ WritesLand'
<1>1. WriteInv'
  BY DEF IInv, TypeOK, WriteInv, Clock, Slave, WriteChannel, NextAwEn, AcceptWrite,
         slv_reg_wren, Master, awGrant, wGrant
<1>2. WriteAnswered'
  BY DEF IInv, TypeOK, WriteInv, WriteAnswered, Clock, Slave, WriteChannel,
         slv_reg_wren, History, awGrant, bDone
<1>3. WritesLand'
  <2>1. aw.addr # None
    BY AddrChanFields DEF IInv, TypeOK
  <2>2. CASE axi_awready
    <3>1. slv_reg' = IF w.strb THEN [slv_reg EXCEPT ![aw.addr] = w.data] ELSE slv_reg
      BY <2>1, <2>2, BusWriteFields DEF Clock, Slave, Cycle
    <3>2. shadow' = IF w.strb THEN [shadow EXCEPT ![aw.addr] = w.data] ELSE shadow
      BY <2>2, Grants DEF Clock, History
    <3> QED BY <3>1, <3>2 DEF IInv, WritesLand
  <2>3. CASE ~axi_awready
    <3>1. slv_reg' = slv_reg
      BY <2>3, BusWriteFields DEF Clock, Slave, Cycle
    <3>2. shadow' = shadow
      BY <2>3, Grants DEF Clock, History
    <3> QED BY <3>1, <3>2 DEF IInv, WritesLand
  <2> QED BY <2>2, <2>3
<1> QED BY <1>1, <1>2, <1>3

(* The read channel: a word that is up is the one asked for, unless the      *)
(* master has run ahead.                                                     *)
LEMMA ReadStep ==
    ASSUME IInv, Clock
    PROVE  ReadInv' /\ SingleReadAnswered' /\ (rOut \in 0..MaxReads)'
<1>1. rOut' = rOut + (IF axi_arready THEN 1 ELSE 0) - (IF axi_rvalid /\ rready THEN 1 ELSE 0)
  BY Grants DEF Clock, History, rDone
<1>2. (rOut \in 0..MaxReads)'
  BY <1>1, BusAssumption DEF IInv, TypeOK, ReadInv
<1>3. ReadInv'
  <2>1. (axi_arready => ar.valid /\ axi_araddr = ar.addr)'
    BY DEF IInv, TypeOK, ReadInv, Clock, Slave, ReadChannel, AcceptRead, Master, arGrant
  <2>2. (ar.valid => rOut < MaxReads)'
    BY <1>1, BusAssumption DEF IInv, TypeOK, ReadInv, Clock, Master, arGrant
  <2>3. (axi_rvalid => rOut > 0)'
    <3>1. rOut \in Nat /\ (axi_rvalid => rOut > 0)
      BY BusAssumption DEF IInv, TypeOK, ReadInv
    <3>2. axi_rvalid' => (axi_arready /\ ~axi_rvalid) \/ (axi_rvalid /\ ~rready)
      BY DEF IInv, TypeOK, Clock, Slave, ReadChannel, slv_reg_rden
    <3> QED BY <1>1, <3>1, <3>2
  <2> QED BY <2>1, <2>2, <2>3 DEF ReadInv
<1>4. SingleReadAnswered'
  BY <1>1, Grants DEF IInv, TypeOK, ReadInv, SingleReadAnswered, ReadAnswered, Clock, Slave,
     ReadChannel, ReadData, slv_reg_rden, History
<1> QED BY <1>2, <1>3, <1>4

(* Every counter is below a reload value it was given.                       *)
LEMMA CoreStep ==
    ASSUME IInv, Clock
    PROVE  /\ (slv_reg \in [RegNums -> Words \cup {0}])'
           /\ (\A d \in Dogs : \E n \in Words \cup {RELOAD_DEFAULT} : counter[d] \in 0..n)'
<1>1. (slv_reg \in [RegNums -> Words \cup {0}])'
  <2>1. BusWrite.addr # None => BusWrite.addr \in RegNums /\ BusWrite.data \in Words \cup {0}
    BY BusWriteFields, AddrChanFields, DataChanFields DEF IInv, TypeOK
  <2> QED BY <2>1 DEF IInv, TypeOK, Clock, Slave, Cycle
<1>2. ASSUME NEW d \in Dogs
      PROVE  \E n \in Words \cup {RELOAD_DEFAULT} : counter'[d] \in 0..n
  <2>1. counter'[d] = NextCounter(BusWrite, d)
    BY DEF Clock, Slave, Cycle
  <2>2. reload_eff \in Words \cup {RELOAD_DEFAULT} /\ reload_eff \in Nat
    <3>1. slv_reg[RELOAD] \in Words \cup {0}
      BY DEF IInv, TypeOK
    <3> QED BY <3>1, ReloadAssumption, BusAssumption DEF reload_eff
  <2>3. PICK n \in Words \cup {RELOAD_DEFAULT} : counter[d] \in 0..n
    BY DEF IInv, TypeOK
  <2>4. n \in Nat
    BY ReloadAssumption, BusAssumption
  <2>5. CASE counter'[d] = reload_eff
    BY <2>2, <2>5
  <2>6. CASE counter'[d] \in 0..n
    BY <2>6
  <2>7. counter'[d] = reload_eff \/ counter'[d] \in 0..n
    BY <2>1, <2>3, <2>4 DEF NextCounter
  <2> QED BY <2>5, <2>6, <2>7
<1> QED BY <1>1, <1>2

(* Every register reads as a number.                                         *)
LEMMA ReadType ==
    ASSUME IInv, NEW r \in RegNums
    PROVE  Read(r) \in Nat
<1>1. \A d \in Dogs : counter[d] \in Nat
  BY ReloadAssumption, BusAssumption DEF IInv, TypeOK
<1>2. slv_reg[r] \in Nat
  <2>1. slv_reg[r] \in Words \cup {0}
    BY DEF IInv, TypeOK
  <2>2. Words \cup {0} \subseteq Nat
    BY BusAssumption
  <2> QED BY <2>1, <2>2
<1>3. CASE r = STATUS
  BY <1>3 DEF Read
<1>4. CASE r \in CNT_A..CNT_C
  BY <1>1, <1>4 DEF Read
<1>5. CASE r # STATUS /\ r \notin CNT_A..CNT_C
  BY <1>2, <1>5 DEF Read
<1> QED BY <1>3, <1>4, <1>5

LEMMA TypeStep ==
    ASSUME IInv, Clock
    PROVE  TypeOK'
<1>1. (slv_reg \in [RegNums -> Words \cup {0}])'
  BY CoreStep
<1>2. (\A d \in Dogs : \E n \in Words \cup {RELOAD_DEFAULT} : counter[d] \in 0..n)'
  BY CoreStep
<1>3. (rOut \in 0..MaxReads)'
  BY ReadStep
<1>4. (wOut \in Nat)'
  BY WriteStep DEF WriteAnswered
<1>5. (axi_awaddr \in RegNums /\ axi_araddr \in RegNums)'
  BY AddrChanFields DEF IInv, TypeOK, Clock, Slave, WriteChannel, ReadChannel
<1>6. (axi_rdata \in Nat /\ rExpect \in Nat)'
  <2>1. Read(axi_araddr) \in Nat /\ Read(ar.addr) \in Nat
    BY ReadType, AddrChanFields DEF IInv, TypeOK
  <2> QED BY <2>1 DEF IInv, TypeOK, Clock, Slave, ReadChannel, ReadData, History
<1>7. (aw \in AddrChan /\ ar \in AddrChan /\ w \in DataChan)'
  BY DEF IInv, TypeOK, Clock, Master
<1>8. (bready \in BOOLEAN /\ rready \in BOOLEAN /\ overtaken \in BOOLEAN)'
  BY DEF Clock, Master, History
<1>9. (/\ axi_awready \in BOOLEAN /\ axi_wready = axi_awready
       /\ aw_en \in BOOLEAN /\ axi_bvalid \in BOOLEAN
       /\ axi_arready \in BOOLEAN /\ axi_rvalid \in BOOLEAN)'
  BY DEF IInv, TypeOK, Clock, Slave, WriteChannel, ReadChannel, NextAwEn, AcceptWrite, AcceptRead
<1> QED BY <1>1, <1>2, <1>3, <1>4, <1>5, <1>6, <1>7, <1>8, <1>9 DEF TypeOK

(* Every cycle preserves the invariant.                                      *)
LEMMA InvNext == IInv /\ [Next]_vars => IInv'
<1>1. ASSUME IInv, Clock PROVE IInv'
  BY <1>1, TypeStep, WriteStep, ReadStep DEF IInv
<1>2. ASSUME IInv, UNCHANGED vars PROVE IInv'
  BY <1>2 DEF IInv, TypeOK, WriteInv, ReadInv, WritesLand, WriteAnswered,
              SingleReadAnswered, ReadAnswered, vars, slave, master
<1> QED BY <1>1, <1>2 DEF Next

THEOREM Invariance == Spec => []IInv
  BY InvInit, InvNext, PTL DEF Spec

(* The bus, its registers and the master's book-keeping keep their types; in *)
(* particular axi_wready equals axi_awready.                                 *)
THEOREM TypeCorrect == Spec => []TypeOK
<1>1. IInv => TypeOK
  BY DEF IInv
<1> QED BY <1>1, Invariance, PTL

(* The registers hold what the master was granted to write.                  *)
THEOREM WritesArrive == Spec => []WritesLand
<1>1. IInv => WritesLand
  BY DEF IInv
<1> QED BY <1>1, Invariance, PTL

(* Every granted write has its one response up.                              *)
THEOREM OneResponse == Spec => []WriteAnswered
<1>1. IInv => WriteAnswered
  BY DEF IInv
<1> QED BY <1>1, Invariance, PTL

(* A master that does not run ahead reads what the register held when the    *)
(* read was granted.                                                         *)
THEOREM ReadsAnswered == Spec => []SingleReadAnswered
<1>1. IInv => SingleReadAnswered
  BY DEF IInv
<1> QED BY <1>1, Invariance, PTL

(* A word that is up stays up, unchanged, until it is taken (slv_reg_rden).  *)
THEOREM DataStable == Spec => ReadDataStable
<1>1. IInv /\ [Next]_vars =>
        [axi_rvalid /\ ~rready => axi_rvalid' /\ axi_rdata' = axi_rdata]_vars
  BY DEF IInv, TypeOK, Next, Clock, Slave, ReadChannel, ReadData, slv_reg_rden
<1> QED BY <1>1, Invariance, PTL DEF Spec, ReadDataStable
=============================================================================

------------------------- MODULE Ttc2HeartbeatProofs -------------------------
(****************************************************************************)
(* Proofs about Ttc2Heartbeat for any finite set of cores: the heartbeat    *)
(* beats in every interval, the register's lead over the counter and the    *)
(* number of intervals it can stand still are bounded, and the racing       *)
(* handlers implement the abstract Heartbeat.                               *)
(****************************************************************************)
EXTENDS Ttc2Heartbeat, FiniteSetTheorems, TLAPS

(* What is needed of the number of cores that have loaded the counter.       *)
LEMMA CardFacts ==
    /\ Cardinality(Cores) \in Nat \ {0}
    /\ Cardinality({}) = 0
    /\ \A S \in SUBSET Cores :
          /\ Cardinality(S) \in Nat
          /\ Cardinality(S) <= Cardinality(Cores)
          /\ Cardinality(S) = 0 <=> S = {}
          /\ \A c \in Cores \ S : Cardinality(S \cup {c}) = Cardinality(S) + 1
<1>1. Cardinality({}) = 0
  BY FS_EmptySet
<1>2. Cardinality(Cores) \in Nat \ {0}
  BY CoresAssumption, FS_CardinalityType, FS_EmptySet
<1>3. ASSUME NEW S \in SUBSET Cores
      PROVE  /\ Cardinality(S) \in Nat
             /\ Cardinality(S) <= Cardinality(Cores)
             /\ Cardinality(S) = 0 <=> S = {}
             /\ \A c \in Cores \ S : Cardinality(S \cup {c}) = Cardinality(S) + 1
  <2>1. IsFiniteSet(S) /\ Cardinality(S) <= Cardinality(Cores)
    BY CoresAssumption, FS_Subset
  <2>2. Cardinality(S) \in Nat
    BY <2>1, FS_CardinalityType
  <2>3. Cardinality(S) = 0 <=> S = {}
    BY <2>1, FS_EmptySet
  <2>4. ASSUME NEW c \in Cores \ S
        PROVE  Cardinality(S \cup {c}) = Cardinality(S) + 1
    BY <2>1, FS_AddElement
  <2>. QED BY <2>1, <2>2, <2>3, <2>4
<1>. QED BY <1>1, <1>2, <1>3

LEMMA MaxLeadType ==
    /\ MaxLead \in Nat
    /\ MaxLead + 2 >= Cardinality(Cores)
    /\ Cardinality(Cores) >= 2 => MaxLead + 2 = Cardinality(Cores)
BY CardFacts DEF MaxLead, Abs!MaxLead

(* Every step keeps the types.                                               *)
LEMMA TypeStep == TypeOK /\ [Next]_vars => TypeOK'
<1>. SUFFICES ASSUME TypeOK, [Next]_vars PROVE TypeOK'
  OBVIOUS
<1>1. CASE Tick
  BY <1>1 DEF TypeOK, Tick
<1>2. ASSUME NEW c \in Cores, CoreStep(c) PROVE TypeOK'
  <2>1. CASE TakeFiq(c)
    BY <2>1 DEF TypeOK, TakeFiq, Steps, hist
  <2>2. CASE Dispatch(c)
    BY <2>2 DEF TypeOK, Dispatch, Steps, hist
  <2>3. CASE ReadIsr(c)
    BY <2>3 DEF TypeOK, ReadIsr, Steps, hist
  <2>4. CASE LoadSeq(c)
    BY <2>4 DEF TypeOK, LoadSeq, Steps, hist
  <2>5. CASE StoreSeq(c)
    BY <2>5 DEF TypeOK, StoreSeq, Steps, hist
  <2>6. CASE WriteHb(c)
    BY <2>6 DEF TypeOK, WriteHb, Steps, hist
  <2>. QED BY <1>2, <2>1, <2>2, <2>3, <2>4, <2>5, <2>6
       DEF CoreStep, ttc2_fiq_handler
<1>3. CASE UNCHANGED vars
  BY <1>3 DEF TypeOK, vars
<1>. QED BY <1>1, <1>2, <1>3 DEF Next

LEMMA TypeInit == Init => TypeOK
<1>. SUFFICES ASSUME Init PROVE TypeOK
  OBVIOUS
<1>1. isr \in BOOLEAN
  BY Zenon DEF Init
<1>2. /\ pc \in [Cores -> Steps]
      /\ tmp \in [Cores -> Nat]
      /\ loaded \in SUBSET Cores
      /\ ttc2_hb_seq \in Nat /\ HEARTBEAT \in Nat /\ ticks \in Nat
      /\ tickSeq \in Nat /\ lastHb \in Nat /\ stalled \in Nat
  BY DEF Init, Steps
<1>. QED BY <1>1, <1>2 DEF TypeOK

(* Type correctness: program counters, values and history stay in range.     *)
THEOREM TypeCorrect == Spec => []TypeOK
BY TypeInit, TypeStep, PTL DEF Spec

-----------------------------------------------------------------------------
(* The invariant in the form the steps use it: at the end of an interval.    *)
LEMMA AtQuiet ==
    ASSUME IInv, Quiet
    PROVE  /\ HEARTBEAT <= ttc2_hb_seq + MaxLead
           /\ ticks > 0 => /\ ttc2_hb_seq \in
                                (tickSeq + 1)..(tickSeq + Cardinality(Cores))
                           /\ HEARTBEAT \in
                                (tickSeq + 1)..(tickSeq + Cardinality(Cores))
<1>1. CASE ticks = 0
  BY <1>1, MaxLeadType DEF IInv, ProgressInv, TypeOK
<1>2. CASE ticks > 0
  <2>1. PICK c \in loaded : pc[c] = "lower"
    BY <1>2 DEF IInv, ProgressInv, Quiet, TypeOK
  <2>2. Pending = {}
    BY DEF Pending, Quiet
  <2>3. Cardinality(loaded) \in Nat /\ Cardinality(loaded) <= Cardinality(Cores)
    BY CardFacts DEF IInv, TypeOK
  <2>4. /\ ttc2_hb_seq > tickSeq /\ ttc2_hb_seq <= Top
        /\ HEARTBEAT > tickSeq /\ HEARTBEAT <= Top
        /\ Top \in Nat /\ Top <= tickSeq + Cardinality(Cores)
    BY <2>1, <2>3, CardFacts DEF IInv, ValueInv, TypeOK, Top
  <2>5. HEARTBEAT = Top => ttc2_hb_seq = Top
    BY <2>1, <2>2 DEF IInv, ValueInv, Chain
  <2>6. HEARTBEAT <= ttc2_hb_seq + MaxLead
    BY <2>4, <2>5, MaxLeadType, CardFacts DEF IInv, TypeOK
  <2>. QED BY <2>4, <2>6, CardFacts DEF IInv, TypeOK
<1>. QED BY <1>1, <1>2 DEF IInv, TypeOK

LEMMA InvInit == Init => IInv
<1>. SUFFICES ASSUME Init PROVE IInv
  OBVIOUS
<1>1. TypeOK
  BY TypeInit
<1>2. LoadedInv
  BY DEF Init, LoadedInv, Holds
<1>3. ProgressInv
  BY DEF Init, ProgressInv, Quiet
<1>4. Top = 0 /\ Pending = {}
  BY CardFacts DEF Init, Top, Pending
<1>5. ValueInv
  BY <1>4 DEF Init, ValueInv, Chain, Holds
<1>6. StallInv
  BY MaxLeadType DEF Init, StallInv
<1>. QED BY <1>1, <1>2, <1>3, <1>5, <1>6 DEF IInv

(* A tick starts a new interval from a quiet state.                          *)
LEMMA TickStep == IInv /\ Tick => IInv'
<1>. SUFFICES ASSUME IInv, Tick PROVE IInv'
  OBVIOUS
<1>1. TypeOK'
  BY TypeStep DEF IInv, Next
<1>2. LoadedInv'
  BY DEF IInv, LoadedInv, Holds, Tick, Quiet, TypeOK
<1>3. ProgressInv'
  BY DEF IInv, ProgressInv, Tick, Quiet, TypeOK
<1>4. Top' = ttc2_hb_seq' /\ Pending' = {} /\ tickSeq' = ttc2_hb_seq'
  BY CardFacts DEF IInv, TypeOK, Top, Pending, Tick, Quiet
<1>5. ValueInv'
  BY <1>4 DEF IInv, TypeOK, ValueInv, Chain, Holds, Tick, Quiet
<1>6. StallInv'
  <2>1. ticks > 0 => ttc2_hb_seq > tickSeq /\ HEARTBEAT > tickSeq
    BY AtQuiet, CardFacts DEF Tick, IInv, TypeOK
  <2>2. HEARTBEAT <= ttc2_hb_seq + MaxLead
    BY AtQuiet DEF Tick
  <2>. QED BY <2>1, <2>2, MaxLeadType DEF IInv, TypeOK, StallInv, Tick
<1>. QED BY <1>1, <1>2, <1>3, <1>5, <1>6 DEF IInv

(* The steps of the FIQ path.  TakeFiq, Dispatch and ReadIsr move no value.  *)
LEMMA EntryStep ==
    ASSUME IInv, NEW c \in Cores, TakeFiq(c) \/ Dispatch(c) \/ ReadIsr(c)
    PROVE  IInv'
<1>1. TypeOK'
  BY TypeStep DEF IInv, Next, CoreStep, ttc2_fiq_handler
<1>2. LoadedInv'
  BY DEF IInv, LoadedInv, Holds, TypeOK, TakeFiq, Dispatch, ReadIsr, hist
<1>3. ProgressInv'
  BY DEF IInv, LoadedInv, ProgressInv, Quiet, TypeOK, TakeFiq, Dispatch,
         ReadIsr, hist
<1>4. /\ Top' = Top /\ Pending' = Pending
      /\ UNCHANGED <<tmp, ttc2_hb_seq, HEARTBEAT, tickSeq, loaded, lastHb, stalled>>
  BY DEF IInv, TypeOK, Top, Pending, TakeFiq, Dispatch, ReadIsr, hist
<1>5. \A d \in Cores : Holds(d)' <=> Holds(d)
  BY DEF IInv, TypeOK, Holds, TakeFiq, Dispatch, ReadIsr
<1>6. \A d \in loaded : pc'[d] = pc[d]
  BY DEF IInv, TypeOK, LoadedInv, TakeFiq, Dispatch, ReadIsr
<1>7. ValueInv'
  BY <1>4, <1>5, <1>6 DEF IInv, TypeOK, ValueInv, Chain
<1>8. StallInv'
  BY <1>4 DEF IInv, StallInv, MaxLead, Abs!MaxLead
<1>. QED BY <1>1, <1>2, <1>3, <1>7, <1>8 DEF IInv

(* A load raises Top by one; it continues the chain if there was one, and    *)
(* otherwise the value loaded is below the new Top.                          *)
LEMMA LoadStep ==
    ASSUME IInv, NEW c \in Cores, LoadSeq(c)
    PROVE  IInv'
<1>1. TypeOK'
  BY TypeStep DEF IInv, Next, CoreStep, ttc2_fiq_handler
<1>2. LoadedInv'
  BY DEF IInv, LoadedInv, Holds, TypeOK, LoadSeq, hist
<1>3. ProgressInv'
  BY DEF IInv, LoadedInv, ProgressInv, Quiet, TypeOK, LoadSeq, hist
<1>4. /\ Top' = Top + 1 /\ Top \in Nat
      /\ Pending' = Pending \cup {c}
      /\ UNCHANGED <<isr, ttc2_hb_seq, HEARTBEAT, tickSeq, lastHb, stalled>>
  <2>1. c \notin loaded /\ loaded \in SUBSET Cores /\ tickSeq \in Nat
    BY DEF IInv, LoadedInv, LoadSeq, TypeOK
  <2>2. Cardinality(loaded \cup {c}) = Cardinality(loaded) + 1
    BY <2>1, CardFacts
  <2>. QED BY <2>1, <2>2, CardFacts
       DEF IInv, TypeOK, Top, Pending, LoadSeq, hist
<1>5. /\ tmp' = [tmp EXCEPT ![c] = ttc2_hb_seq + 1]
      /\ pc' = [pc EXCEPT ![c] = "store"]
      /\ loaded' = loaded \cup {c}
  BY DEF LoadSeq
<1>6. ttc2_hb_seq = Top => Pending' = {c} /\ tmp'[c] = Top'
  BY <1>4, <1>5 DEF IInv, ValueInv, Chain, TypeOK
<1>7. tmp'[c] = Top' => Chain'
  BY <1>4, <1>5, <1>6 DEF IInv, TypeOK, Chain
<1>8. ttc2_hb_seq' \in tickSeq'..Top' /\ ttc2_hb_seq' # Top'
  BY <1>4 DEF IInv, ValueInv, TypeOK
<1>9. ASSUME \E d \in loaded' : pc'[d] # "store"
      PROVE  ttc2_hb_seq' > tickSeq'
  BY <1>4, <1>5, <1>9 DEF IInv, ValueInv, TypeOK
<1>10. ASSUME NEW d \in Cores, Holds(d)'
       PROVE  tmp'[d] \in (tickSeq' + 1)..Top' /\ (tmp'[d] = Top' => Chain')
  <2>1. CASE d = c
    BY <2>1, <1>4, <1>5, <1>7, <1>8 DEF IInv, TypeOK, ValueInv
  <2>2. CASE d # c
    BY <2>2, <1>4, <1>5, <1>10 DEF IInv, TypeOK, ValueInv, Holds
  <2>. QED BY <2>1, <2>2
<1>11. ASSUME \E d \in loaded' : pc'[d] = "lower"
       PROVE  HEARTBEAT' \in (tickSeq' + 1)..Top' /\ HEARTBEAT' # Top'
  BY <1>4, <1>5, <1>11 DEF IInv, TypeOK, ValueInv
<1>12. ValueInv'
  BY <1>8, <1>9, <1>10, <1>11 DEF ValueInv
<1>13. StallInv'
  BY <1>4 DEF IInv, StallInv, MaxLead, Abs!MaxLead
<1>. QED BY <1>1, <1>2, <1>3, <1>12, <1>13 DEF IInv

(* A store either completes the chain or sets the counter to a lower value.  *)
LEMMA StoreStep ==
    ASSUME IInv, NEW c \in Cores, StoreSeq(c)
    PROVE  IInv'
<1>1. TypeOK'
  BY TypeStep DEF IInv, Next, CoreStep, ttc2_fiq_handler
<1>2. LoadedInv'
  BY DEF IInv, LoadedInv, Holds, TypeOK, StoreSeq, hist
<1>3. ProgressInv'
  BY DEF IInv, LoadedInv, ProgressInv, Quiet, TypeOK, StoreSeq, hist
<1>4. /\ Top' = Top /\ Top \in Nat
      /\ Pending' = Pending \ {c}
      /\ UNCHANGED <<isr, tmp, HEARTBEAT, tickSeq, loaded, lastHb, stalled>>
  BY CardFacts DEF IInv, TypeOK, Top, Pending, StoreSeq, hist
<1>5. /\ ttc2_hb_seq' = tmp[c] /\ pc[c] = "store"
      /\ pc' = [pc EXCEPT ![c] = "write"]
      /\ tmp[c] \in (tickSeq + 1)..Top
  BY DEF StoreSeq, IInv, ValueInv, Holds
<1>6. Chain => Chain'
  <2>1. c \in Pending
    BY <1>5 DEF Pending
  <2>. QED BY <2>1, <1>4, <1>5 DEF Chain
<1>7. ttc2_hb_seq' = Top' => Chain'
  BY <1>4, <1>5, <1>6 DEF IInv, ValueInv, Holds
<1>8. ASSUME NEW d \in Cores, Holds(d)'
      PROVE  tmp'[d] \in (tickSeq' + 1)..Top' /\ (tmp'[d] = Top' => Chain')
  BY <1>4, <1>5, <1>6, <1>8 DEF IInv, TypeOK, ValueInv, Holds
<1>9. ASSUME \E d \in loaded' : pc'[d] = "lower"
      PROVE  HEARTBEAT' \in (tickSeq' + 1)..Top' /\ (HEARTBEAT' = Top' => Chain')
  BY <1>4, <1>5, <1>6, <1>9 DEF IInv, TypeOK, ValueInv
<1>10. ttc2_hb_seq' \in tickSeq'..Top' /\ ttc2_hb_seq' > tickSeq'
  BY <1>4, <1>5 DEF IInv, TypeOK
<1>11. ValueInv'
  BY <1>7, <1>8, <1>9, <1>10 DEF ValueInv
<1>12. StallInv'
  BY <1>4 DEF IInv, StallInv, MaxLead, Abs!MaxLead
<1>. QED BY <1>1, <1>2, <1>3, <1>11, <1>12 DEF IInv

(* Publishing moves a core's value to the register and leaves the counter.   *)
LEMMA WriteStep ==
    ASSUME IInv, NEW c \in Cores, WriteHb(c)
    PROVE  IInv'
<1>1. TypeOK'
  BY TypeStep DEF IInv, Next, CoreStep, ttc2_fiq_handler
<1>2. LoadedInv'
  BY DEF IInv, LoadedInv, Holds, TypeOK, WriteHb, hist
<1>3. ProgressInv'
  BY DEF IInv, LoadedInv, ProgressInv, Quiet, Holds, TypeOK, WriteHb, hist
<1>4. /\ Top' = Top
      /\ Pending' = Pending /\ c \notin Pending
      /\ UNCHANGED <<isr, ttc2_hb_seq, tickSeq, loaded, lastHb, stalled>>
      /\ \A d \in Cores \ {c} : tmp'[d] = tmp[d] /\ pc'[d] = pc[d]
      /\ HEARTBEAT' = tmp[c] /\ Holds(c) /\ ~Holds(c)' /\ pc[c] = "write"
  BY DEF IInv, TypeOK, Top, Pending, Holds, WriteHb, hist
<1>5. Chain => Chain'
  BY <1>4 DEF Chain
<1>6. ASSUME NEW d \in Cores, Holds(d)'
      PROVE  tmp'[d] \in (tickSeq' + 1)..Top' /\ (tmp'[d] = Top' => Chain')
  BY <1>4, <1>5, <1>6 DEF IInv, ValueInv, Holds
<1>7. HEARTBEAT' \in (tickSeq' + 1)..Top' /\ (HEARTBEAT' = Top' => Chain')
  BY <1>4, <1>5 DEF IInv, ValueInv
<1>8. /\ ttc2_hb_seq' \in tickSeq'..Top' /\ ttc2_hb_seq' > tickSeq'
      /\ (ttc2_hb_seq' = Top' => Chain')
  BY <1>4, <1>5 DEF IInv, ValueInv, LoadedInv
<1>9. ValueInv'
  BY <1>6, <1>7, <1>8 DEF ValueInv
<1>10. StallInv'
  BY <1>4 DEF IInv, StallInv, MaxLead, Abs!MaxLead
<1>. QED BY <1>1, <1>2, <1>3, <1>9, <1>10 DEF IInv

LEMMA InvStep == IInv /\ [Next]_vars => IInv'
<1>. SUFFICES ASSUME IInv, [Next]_vars PROVE IInv'
  OBVIOUS
<1>1. CASE Tick
  BY <1>1, TickStep
<1>2. ASSUME NEW c \in Cores, CoreStep(c) PROVE IInv'
  BY <1>2, EntryStep, LoadStep, StoreStep, WriteStep
     DEF CoreStep, ttc2_fiq_handler
<1>3. CASE UNCHANGED vars
  BY <1>3 DEF vars, IInv, TypeOK, LoadedInv, ProgressInv, ValueInv, StallInv,
     Quiet, Holds, Pending, Top, Chain, MaxLead, Abs!MaxLead
<1>. QED BY <1>1, <1>2, <1>3 DEF Next

LEMMA Invariant == Spec => []IInv
BY InvInit, InvStep, PTL DEF Spec

-----------------------------------------------------------------------------
(* Whatever updates the cores lose to each other, every interval leaves both *)
(* the counter and the register above the counter's value at its start.      *)
THEOREM HeartbeatBeats == Spec => []BeatsEveryTick
<1>1. IInv => BeatsEveryTick
  BY AtQuiet, CardFacts DEF BeatsEveryTick, IInv, TypeOK
<1>. QED BY <1>1, Invariant, PTL

(* The register is never further ahead of the counter than MaxLead, which is *)
(* two less than the number of cores.                                        *)
THEOREM LeadIsBounded == Spec => []LeadBounded
<1>1. IInv => LeadBounded
  BY AtQuiet DEF LeadBounded
<1>. QED BY <1>1, Invariant, PTL

(* The register stands still over at most MaxLead consecutive intervals.     *)
THEOREM StallIsBounded == Spec => []BoundedStall
<1>1. IInv => BoundedStall
  BY DEF IInv, StallInv, BoundedStall
<1>. QED BY <1>1, Invariant, PTL

(* The handlers of any number of cores implement the abstract heartbeat that *)
(* Layer3 composes with the PMU monitor.                                     *)
THEOREM Refinement == Spec => RefinesHeartbeat
<1>1. Init => Abs!HbInit
  BY DEF Init, Abs!HbInit, Quiet
<1>2. IInv /\ [Next]_vars => [Abs!HbNext]_Abs!hbVars
  <2>. SUFFICES ASSUME IInv, [Next]_vars
                PROVE  Abs!HbNext \/ UNCHANGED Abs!hbVars
    OBVIOUS
  <2>1. CASE Tick
    <3>1. Quiet /\ ~Quiet' /\ ticks' > 0 /\ UNCHANGED HEARTBEAT
      BY <2>1 DEF Tick, Quiet, IInv, TypeOK
    <3>2. CASE ticks = 0
      BY <2>1, <3>1, <3>2 DEF Tick, IInv, ProgressInv, Abs!HbNext, Abs!Begin
    <3>3. CASE ticks > 0
      <4>1. /\ ttc2_hb_seq \in (tickSeq + 1)..(tickSeq + Cardinality(Cores))
            /\ HEARTBEAT <= ttc2_hb_seq + Abs!MaxLead
        BY <3>1, <3>3, AtQuiet DEF MaxLead
      <4>. QED BY <2>1, <3>1, <3>3, <4>1
           DEF Tick, Abs!HbNext, Abs!Begin, Abs!Window
    <3>. QED BY <3>2, <3>3 DEF IInv, TypeOK
  <2>2. ASSUME NEW c \in Cores, TakeFiq(c) \/ ReadIsr(c) \/ LoadSeq(c) \/ StoreSeq(c)
        PROVE  UNCHANGED Abs!hbVars
    <3>1. ~Quiet /\ ~Quiet'
      BY <2>2 DEF TakeFiq, ReadIsr, LoadSeq, StoreSeq, Quiet, IInv, TypeOK
    <3>. QED BY <3>1, <2>2
         DEF TakeFiq, ReadIsr, LoadSeq, StoreSeq, hist, Abs!hbVars
  <2>3. ASSUME NEW c \in Cores, Dispatch(c)
        PROVE  Abs!HbNext \/ UNCHANGED Abs!hbVars
    <3>2. ~Quiet /\ UNCHANGED <<ticks, tickSeq, HEARTBEAT>>
      BY <2>3 DEF Dispatch, Quiet, hist
    <3>3. CASE ~Quiet'
      BY <3>2, <3>3 DEF Abs!hbVars
    <3>4. CASE Quiet'
      <4>1. HEARTBEAT \in Abs!Window
        <5>1. ticks > 0
          BY <2>3 DEF Dispatch, IInv, ProgressInv, Quiet, TypeOK
        <5>2. PICK d \in loaded : pc[d] = "lower"
          BY <2>3, <3>4, <5>1 DEF Dispatch, IInv, ProgressInv, LoadedInv, Quiet,
             TypeOK
        <5>. QED BY <5>2, CardFacts DEF IInv, ValueInv, TypeOK, Top, Abs!Window
      <4>. QED BY <3>2, <3>4, <4>1 DEF Abs!HbNext, Abs!Finish
    <3>. QED BY <3>3, <3>4
  <2>4. ASSUME NEW c \in Cores, WriteHb(c) PROVE Abs!HbNext
    <3>1. tmp[c] \in Abs!Window
      BY <2>4, CardFacts
         DEF WriteHb, IInv, ValueInv, Holds, Top, TypeOK, Abs!Window
    <3>2. ~Quiet /\ UNCHANGED <<ticks, tickSeq>> /\ HEARTBEAT' = tmp[c]
      BY <2>4 DEF WriteHb, Quiet, hist
    <3>. QED BY <3>1, <3>2, Zenon DEF Abs!HbNext, Abs!Publish
  <2>5. CASE UNCHANGED vars
    BY <2>5 DEF vars, Abs!hbVars, Quiet
  <2>. QED BY <2>1, <2>2, <2>3, <2>4, <2>5
       DEF Next, CoreStep, ttc2_fiq_handler
<1>. QED BY <1>1, <1>2, Invariant, PTL DEF Spec, RefinesHeartbeat, Abs!HbSpec
=============================================================================

-------------------------- MODULE WdtRestartProofs --------------------------
(****************************************************************************)
(* Proofs about WdtRestart, for any number of cores.                        *)
(*                                                                          *)
(* IInv is inductive.  The step that needs thought is that the TTC handler  *)
(* does not run a second time (its interrupt stays pending): SgiInv says    *)
(* that the primary has SGI 7 pending, or has parked, whenever it is below  *)
(* EL3 again.  From there on a core leaves Live exactly when it decrements. *)
(****************************************************************************)
EXTENDS WdtRestart, FiniteSetTheorems, TLAPS

(* The cores are finitely many, and so are those of any set of them.         *)
LEMMA CoresFinite ==
    /\ IsFiniteSet(Cores)
    /\ Cardinality(Cores) = NumCores
    /\ Primary \in Cores
    /\ \A S \in SUBSET Cores : /\ IsFiniteSet(S)
                               /\ Cardinality(S) \in 0..NumCores
<1>1. IsFiniteSet(Cores) /\ Cardinality(Cores) = NumCores
  BY WdtAssumption, FS_Interval DEF Cores
<1>2. Primary \in Cores
  BY WdtAssumption DEF Cores, Primary
<1>3. ASSUME NEW S \in SUBSET Cores
      PROVE  IsFiniteSet(S) /\ Cardinality(S) \in 0..NumCores
  <2>1. IsFiniteSet(S) /\ Cardinality(S) <= Cardinality(Cores)
    BY <1>1, FS_Subset
  <2>2. Cardinality(S) \in Nat
    BY <2>1, FS_CardinalityType
  <2> QED BY <1>1, <2>1, <2>2, WdtAssumption
<1> QED BY <1>1, <1>2, <1>3

(* The initial states satisfy the invariant.                                 *)
LEMMA InvInit == Init => IInv
<1> SUFFICES ASSUME Init PROVE IInv
  OBVIOUS
<1>1. TypeOK
  <2>1. power \in [Cores -> {"on", "off"}] /\ pc \in [Cores -> Steps]
    BY DEF Init, Steps
  <2>2. i \in -1..NumCores /\ active_cores \in 0..NumCores /\ shutdowns \in Nat
    BY WdtAssumption DEF Init
  <2> QED BY <2>1, <2>2 DEF Init, TypeOK
<1>2. ~Counting
  BY DEF Init, Counting, Parked
<1> QED
  BY <1>1, <1>2, CoresFinite
  DEF Init, IInv, PrimaryInv, StatusInv, SgiInv, CountExact, ZeroInv,
      AllCountedInv, Parked, Live

(* A step that leaves alone who is parked, counted and pending, and the      *)
(* primary's place in its handler, preserves the invariant.  It covers the   *)
(* watchdog event and the comings and goings of the secondary cores.         *)
LEMMA OutsideStep ==
    ASSUME IInv,
           \/ WdtEvent
           \/ \E c \in Cores : \/ TakeSgi(c)
                               \/ CpuOffCall(c)
                               \/ zynqmp_pwr_domain_off(c)
                               \/ zynqmp_pwr_domain_on(c)
    PROVE  IInv'
<1> DEFINE Same(c) == /\ pc'[c] = pc[c] \/ {pc[c], pc'[c]} \subseteq {"lower", "psci", "sgi"}
<1>1. /\ TypeOK'
      /\ UNCHANGED <<i, target_cpu_list, sgi, active_cores, shutdowns>>
      /\ \A c \in Cores : Same(c)
      /\ \A c \in Cores : pc'[c] = "sgi" => c \in sgi
      /\ \A c \in Cores : pc[c] = "sgi" => pc'[c] = "sgi"
      /\ pc'[Primary] = pc[Primary] \/ pc'[Primary] = "sgi"
      /\ power'[Primary] = "on"
      /\ ~Hotplug => power' = power /\ \A c \in Cores : pc'[c] # "psci"
  BY CoresFinite
  DEF IInv, TypeOK, Steps, PrimaryInv, SgiInv, AllCountedInv, Goto, WdtEvent, TakeSgi,
      CpuOffCall, Interruptible, zynqmp_pwr_domain_off, zynqmp_pwr_domain_on
<1>2. \A c \in Cores : /\ Parked(c)' <=> Parked(c)
                       /\ \A s \in {"status", "raise", "shutdown"} : pc'[c] = s <=> pc[c] = s
  BY <1>1 DEF Parked
<1>3. Counting' <=> Counting
  BY <1>1, <1>2 DEF Counting
<1>4. Live' = Live /\ {c \in target_cpu_list : ~Parked(c)}' = {c \in target_cpu_list : ~Parked(c)}
  BY <1>1, <1>2 DEF Live, IInv, TypeOK
<1>5. PrimaryInv'
  BY <1>1, <1>2, CoresFinite DEF IInv, PrimaryInv
<1>6. StatusInv'
  BY <1>1, <1>2, <1>3, CoresFinite DEF IInv, StatusInv
<1>7. SgiInv'
  BY <1>1, <1>2, <1>3, CoresFinite DEF IInv, SgiInv
<1>8. CountExact'
  BY <1>1, <1>3, <1>4 DEF IInv, CountExact
<1>9. ZeroInv'
  BY <1>1, <1>2, <1>4 DEF IInv, ZeroInv
<1>10. AllCountedInv'
  BY <1>1, <1>2, <1>3, CoresFinite DEF IInv, AllCountedInv
<1> QED BY <1>1, <1>5, <1>6, <1>7, <1>8, <1>9, <1>10 DEF IInv

(* The primary enters the TTC handler: nothing has been started, because a   *)
(* primary below EL3 without SGI 7 pending has not been counted.             *)
LEMMA HandlerStep ==
    ASSUME IInv, ttc_fiq_handler
    PROVE  IInv'
<1>1. ~Counting
  BY CoresFinite DEF IInv, SgiInv, ttc_fiq_handler, Interruptible, Parked
<1>2. /\ TypeOK'
      /\ i' = 0 /\ target_cpu_list' = {}
      /\ UNCHANGED <<power, sgi, active_cores, shutdowns>>
      /\ pc'[Primary] = "status"
      /\ \A c \in Cores : c # Primary => pc'[c] = pc[c]
  BY CoresFinite, WdtAssumption DEF IInv, TypeOK, Steps, ttc_fiq_handler, Goto
<1>3. /\ ~Counting'
      /\ \A c \in Cores : ~Parked(c)' /\ pc'[c] # "sgi" /\ c \notin sgi'
  BY <1>1, <1>2 DEF Counting, Parked
<1>4. PrimaryInv'
  BY <1>2, CoresFinite DEF IInv, PrimaryInv
<1>5. StatusInv'
  BY <1>1, <1>2, <1>3, WdtAssumption DEF IInv, StatusInv
<1>6. SgiInv' /\ CountExact'
  BY <1>2, <1>3 DEF SgiInv, CountExact
<1>7. ZeroInv'
  BY <1>2 DEF Live, ZeroInv
<1>8. AllCountedInv'
  BY <1>2, <1>3, CoresFinite DEF IInv, AllCountedInv, Cores
<1> QED BY <1>2, <1>4, <1>5, <1>6, <1>7, <1>8 DEF IInv

(* A round of the loop over the cores' states.                               *)
LEMMA StatusStep ==
    ASSUME IInv, GetNodeStatus
    PROVE  IInv'
<1>1. ~Counting /\ i \in Cores
  BY WdtAssumption DEF IInv, StatusInv, GetNodeStatus, Cores
<1>2. /\ TypeOK'
      /\ i' = i + 1
      /\ target_cpu_list' \in {target_cpu_list, target_cpu_list \cup {i}}
      /\ power[i] = "on" => i \in target_cpu_list'
      /\ UNCHANGED <<power, pc, sgi, active_cores, shutdowns>>
  BY <1>1, WdtAssumption DEF IInv, TypeOK, GetNodeStatus, Cores
<1>3. ~Counting' /\ \A c \in Cores : ~Parked(c)' /\ c \notin sgi /\ pc[c] # "sgi"
  BY <1>1, <1>2 DEF Counting, Parked
<1>4. PrimaryInv' /\ SgiInv' /\ CountExact' /\ ZeroInv'
  BY <1>1, <1>2, <1>3
  DEF IInv, StatusInv, PrimaryInv, SgiInv, CountExact, ZeroInv, Parked, Live
<1>5. StatusInv'
  <2>1. pc[Primary] = "status" /\ i < NumCores
    BY DEF GetNodeStatus
  <2>2. i' \in 0..NumCores /\ \A c \in target_cpu_list' : c < i'
    BY <1>1, <1>2, <2>1, WdtAssumption DEF IInv, StatusInv, TypeOK, Cores
  <2>3. Primary \in target_cpu_list'
    <3>1. CASE i = 0
      BY <1>2, <3>1 DEF IInv, PrimaryInv, Primary
    <3>2. CASE i # 0
      BY <1>1, <1>2, <2>1, <3>2 DEF IInv, StatusInv, Cores
    <3> QED BY <3>1, <3>2
  <2> QED BY <1>1, <1>2, <1>3, <2>2, <2>3 DEF IInv, StatusInv
<1>6. AllCountedInv'
  BY <1>1, <1>2, <1>3, CoresFinite, WdtAssumption
  DEF IInv, AllCountedInv, GetNodeStatus, Cores
<1> QED BY <1>2, <1>4, <1>5, <1>6 DEF IInv

(* The count is set: every counted core is live, and none has its SGI yet.   *)
LEMMA SetStep ==
    ASSUME IInv, SetActive
    PROVE  IInv'
<1>1. /\ ~Counting /\ i = NumCores /\ Primary \in target_cpu_list
      /\ pc[Primary] = "status"
  BY WdtAssumption DEF IInv, StatusInv, SetActive
<1>2. /\ TypeOK'
      /\ i' = NumCores - 1 /\ active_cores' = Cardinality(target_cpu_list)
      /\ UNCHANGED <<power, target_cpu_list, sgi, shutdowns>>
      /\ pc'[Primary] = "raise"
      /\ \A c \in Cores : c # Primary => pc'[c] = pc[c]
  BY CoresFinite, WdtAssumption DEF IInv, TypeOK, Steps, SetActive, Goto
<1>3. /\ Counting'
      /\ \A c \in Cores : ~Parked(c)' /\ pc'[c] # "sgi" /\ c \notin sgi'
      /\ \A c \in Cores : pc'[c] # "shutdown"
  BY <1>1, <1>2, CoresFinite DEF Counting, Parked
<1>4. Live' = target_cpu_list /\ {c \in target_cpu_list : ~Parked(c)}' = target_cpu_list
  BY <1>2, <1>3 DEF Live, IInv, TypeOK
<1>5. PrimaryInv' /\ StatusInv'
  BY <1>2, <1>3, CoresFinite DEF IInv, PrimaryInv, StatusInv
<1>6. SgiInv'
  BY <1>1, <1>2, <1>3, CoresFinite, WdtAssumption DEF SgiInv, Cores
<1>7. CountExact'
  BY <1>2, <1>4 DEF CountExact
<1>8. ZeroInv'
  BY <1>1, <1>2, <1>3 DEF IInv, StatusInv, ZeroInv
<1>9. AllCountedInv'
  BY <1>1, <1>2, CoresFinite, WdtAssumption DEF IInv, AllCountedInv, Cores
<1> QED BY <1>2, <1>5, <1>6, <1>7, <1>8, <1>9 DEF IInv

(* A round of the loop that sends the SGIs, or its end.                      *)
LEMMA RaiseStep ==
    ASSUME IInv, RaiseSgi
    PROVE  IInv'
<1>1. /\ pc[Primary] = "raise" /\ Counting /\ Primary \in target_cpu_list
      /\ i \in Int /\ i >= -1 /\ i <= NumCores /\ NumCores \in Nat
  BY CoresFinite, WdtAssumption DEF IInv, TypeOK, SgiInv, RaiseSgi, Counting
<1>2. CASE i >= 0
  <2>1. /\ i' = i - 1
        /\ sgi' = IF i \in target_cpu_list THEN sgi \cup {i} ELSE sgi
        /\ UNCHANGED <<power, pc, target_cpu_list, active_cores, shutdowns>>
    BY <1>2 DEF RaiseSgi
  <2>2. TypeOK'
    BY <1>1, <1>2, <2>1 DEF IInv, TypeOK, RaiseSgi
  <2>3. Counting' /\ \A c \in Cores : Parked(c)' <=> Parked(c)
    BY <1>1, <2>1, CoresFinite DEF Counting, Parked
  <2>4. Live' = Live /\ {c \in target_cpu_list : ~Parked(c)}' = {c \in target_cpu_list : ~Parked(c)}
    BY <2>1, <2>3 DEF Live, IInv, TypeOK
  <2>5. PrimaryInv' /\ StatusInv' /\ ZeroInv' /\ CountExact' /\ AllCountedInv'
    BY <1>1, <2>1, <2>3, <2>4
    DEF IInv, PrimaryInv, StatusInv, ZeroInv, CountExact, AllCountedInv
  <2>6. SgiInv'
    <3>1. SUFFICES ASSUME NEW c \in Cores
                   PROVE  /\ c \in sgi' \/ pc[c] = "sgi" \/ Parked(c) => c \in target_cpu_list
                          /\ pc[c] = "sgi" => c \in sgi'
                          /\ Parked(c) => c \notin sgi'
                          /\ c \in target_cpu_list =>
                                IF c <= i - 1
                                THEN c \notin sgi' /\ pc[c] # "sgi" /\ ~Parked(c)
                                ELSE c \in sgi' \/ Parked(c)
      BY <1>1, <2>1, <2>3 DEF SgiInv
    <3>2. c \in Int
      BY DEF Cores
    <3>3. c <= i <=> c <= i - 1 \/ c = i
      BY <1>1, <3>2
    <3>4. ~(i <= i - 1) /\ i <= i
      BY <1>1
    <3> QED BY <1>1, <2>1, <3>3, <3>4 DEF IInv, SgiInv
  <2> QED BY <2>2, <2>5, <2>6 DEF IInv
<1>3. CASE i < 0
  <2>1. /\ TypeOK'
        /\ UNCHANGED <<power, i, target_cpu_list, sgi, active_cores, shutdowns>>
        /\ pc'[Primary] = "lower"
        /\ \A c \in Cores : c # Primary => pc'[c] = pc[c]
    BY <1>1, <1>3, CoresFinite DEF IInv, TypeOK, Steps, RaiseSgi, Goto
  <2>2. \A c \in target_cpu_list : c \in sgi \/ Parked(c)
    BY <1>1, <1>3 DEF IInv, SgiInv, TypeOK, Cores
  <2>3. Primary \in sgi
    BY <1>1, <2>2 DEF Parked
  <2>4. Counting' /\ \A c \in Cores : Parked(c)' <=> Parked(c)
    BY <1>1, <2>1, <2>3, CoresFinite DEF Counting, Parked
  <2>5. Live' = Live /\ {c \in target_cpu_list : ~Parked(c)}' = {c \in target_cpu_list : ~Parked(c)}
    BY <2>1, <2>4 DEF Live, IInv, TypeOK
  <2>6. PrimaryInv' /\ StatusInv' /\ CountExact' /\ AllCountedInv'
    BY <1>1, <2>1, <2>4, <2>5, CoresFinite
    DEF IInv, PrimaryInv, StatusInv, CountExact, AllCountedInv
  <2>7. SgiInv'
    BY <1>1, <2>1, <2>2, <2>4, CoresFinite DEF IInv, SgiInv
  <2>8. ZeroInv'
    BY <2>1, <2>5, CoresFinite DEF IInv, ZeroInv
  <2> QED BY <2>1, <2>6, <2>7, <2>8 DEF IInv
<1> QED BY <1>1, <1>2, <1>3

(* A core leaves the count and parks: Live loses exactly this core.          *)
LEMMA DecrementStep ==
    ASSUME IInv, NEW c \in Cores, Decrement(c)
    PROVE  IInv'
<1>1. /\ pc[c] = "sgi" /\ c \in target_cpu_list /\ c \in Live /\ Counting
      /\ ~(pc[Primary] = "raise" /\ c <= i)
  BY DEF IInv, SgiInv, Decrement, Counting, Live, Parked
<1>2. IsFiniteSet(Live) /\ active_cores = Cardinality(Live) /\ Live \subseteq Cores
  BY <1>1, CoresFinite DEF IInv, TypeOK, CountExact, Live
<1>3. /\ UNCHANGED <<power, i, target_cpu_list, shutdowns>>
      /\ active_cores' = active_cores - 1 /\ sgi' = sgi \ {c}
      /\ pc' \in [Cores -> Steps]
      /\ pc'[c] = "test"
      /\ \A d \in Cores : d # c => pc'[d] = pc[d]
  BY DEF IInv, TypeOK, Steps, Decrement, Goto
<1>4. /\ Counting' /\ Parked(c)'
      /\ \A d \in Cores : d # c => (Parked(d)' <=> Parked(d))
  BY <1>3 DEF Counting, Parked
<1>5. Live' = Live \ {c} /\ {d \in target_cpu_list : ~Parked(d)}' = Live \ {c}
  BY <1>1, <1>3, <1>4 DEF Live, IInv, TypeOK
<1>6. Cardinality(Live \ {c}) = Cardinality(Live) - 1 /\ Cardinality(Live \ {c}) \in 0..NumCores
  BY <1>1, <1>2, CoresFinite, FS_RemoveElement
<1>7. TypeOK'
  BY <1>2, <1>3, <1>6 DEF IInv, TypeOK, Decrement
<1>8. CountExact'
  BY <1>2, <1>3, <1>5, <1>6 DEF CountExact
<1>9. PrimaryInv' /\ StatusInv' /\ AllCountedInv'
  BY <1>1, <1>3, <1>4, CoresFinite DEF IInv, PrimaryInv, StatusInv, AllCountedInv
<1>10. SgiInv'
  BY <1>1, <1>3, <1>4, CoresFinite DEF IInv, SgiInv
<1>11. ZeroInv'
  BY <1>1, <1>3 DEF IInv, ZeroInv
<1> QED BY <1>7, <1>8, <1>9, <1>10, <1>11 DEF IInv

(* A parked core reads the count, or calls the PMU.                          *)
LEMMA ParkedStep ==
    ASSUME IInv, NEW c \in Cores, Test(c) \/ Shutdown(c)
    PROVE  IInv'
<1>1. /\ UNCHANGED <<power, i, target_cpu_list, sgi, active_cores>>
      /\ TypeOK'
      /\ pc[c] \in {"test", "shutdown"} /\ pc'[c] \in {"shutdown", "wfi"}
      /\ \A d \in Cores : d # c => pc'[d] = pc[d]
  BY DEF IInv, TypeOK, Steps, Test, Shutdown, Goto
<1>2. Counting /\ Counting' /\ \A d \in Cores : Parked(d)' <=> Parked(d)
  BY <1>1 DEF Counting, Parked
<1>3. Live' = Live /\ {d \in target_cpu_list : ~Parked(d)}' = {d \in target_cpu_list : ~Parked(d)}
  BY <1>1, <1>2 DEF Live, IInv, TypeOK
<1>4. PrimaryInv' /\ StatusInv' /\ CountExact' /\ AllCountedInv'
  BY <1>1, <1>2, <1>3, CoresFinite
  DEF IInv, PrimaryInv, StatusInv, CountExact, AllCountedInv
<1>5. SgiInv'
  BY <1>1, <1>2, CoresFinite DEF IInv, SgiInv
<1>6. ZeroInv'
  <2>1. CASE Shutdown(c)
    BY <1>3, <2>1 DEF IInv, ZeroInv, Shutdown
  <2>2. CASE Test(c) /\ active_cores # 0
    BY <1>1, <1>3, <2>2 DEF IInv, TypeOK, Steps, ZeroInv, Test, Goto
  <2>3. CASE Test(c) /\ active_cores = 0
    <3>1. IsFiniteSet(Live) /\ Cardinality(Live) = 0
      BY <1>2, <2>3, CoresFinite DEF IInv, TypeOK, CountExact, Live
    <3> QED BY <1>3, <3>1, FS_EmptySet DEF ZeroInv
  <2> QED BY <2>1, <2>2, <2>3
<1> QED BY <1>1, <1>4, <1>5, <1>6 DEF IInv

(* Every step preserves the invariant.                                       *)
LEMMA InvStep == IInv /\ [Next]_vars => IInv'
<1> SUFFICES ASSUME IInv, [Next]_vars PROVE IInv'
  OBVIOUS
<1>1. CASE WdtEvent
  BY <1>1, OutsideStep
<1>2. CASE ttc_fiq_handler
  BY <1>2, HandlerStep
<1>3. CASE trigger_wdt_restart
  BY <1>3, StatusStep, SetStep, RaiseStep DEF trigger_wdt_restart
<1>4. ASSUME NEW c \in Cores, zynqmp_sgi7_irq(c) PROVE IInv'
  BY <1>4, OutsideStep, DecrementStep, ParkedStep DEF zynqmp_sgi7_irq
<1>5. ASSUME NEW c \in Cores,
             CpuOffCall(c) \/ zynqmp_pwr_domain_off(c) \/ zynqmp_pwr_domain_on(c)
      PROVE  IInv'
  BY <1>5, OutsideStep
<1>6. CASE UNCHANGED vars
  BY <1>6
  DEF vars, IInv, TypeOK, PrimaryInv, StatusInv, SgiInv, CountExact, ZeroInv,
      AllCountedInv, Counting, Parked, Live
<1> QED BY <1>1, <1>2, <1>3, <1>4, <1>5, <1>6 DEF Next

(* The inductive invariant holds in every reachable state.                   *)
LEMMA Invariant == Spec => []IInv
<1> QED BY InvInit, InvStep, PTL DEF Spec

(* Type correctness; active_cores in particular never goes below zero and    *)
(* the loops' index stays in its range.                                      *)
THEOREM TypeCorrect == Spec => []TypeOK
<1>1. IInv => TypeOK
  BY DEF IInv
<1> QED BY <1>1, Invariant, PTL

(* For any number of cores and with CPU hotplug: active_cores is exactly the *)
(* number of counted cores that have not parked (trigger_wdt_restart and     *)
(* zynqmp_sgi7_irq).                                                         *)
THEOREM CountIsExact == Spec => []CountExact
<1>1. IInv => CountExact
  BY DEF IInv
<1> QED BY <1>1, Invariant, PTL

(* For any number of cores and with CPU hotplug: pm_system_shutdown is only  *)
(* called when every counted core has parked.                                *)
THEOREM RestartAfterAll == Spec => []ShutdownAfterAll
<1>1. IInv => ShutdownAfterAll
  BY DEF IInv, TypeOK, ZeroInv, Live, ShutdownAfterAll
<1> QED BY <1>1, Invariant, PTL

(* Without CPU hotplug no core runs outside EL3 when the restart is called.  *)
THEOREM NobodyRuns ==
    ASSUME ~Hotplug
    PROVE  Spec => []NoRunningCore
<1>1. IInv => NoRunningCore
  <2> SUFFICES ASSUME IInv, shutdowns > 0, NEW c \in Cores, power[c] = "on"
               PROVE  Parked(c)
    BY DEF NoRunningCore
  <2>1. Counting
    BY DEF IInv, TypeOK, StatusInv
  <2>2. c \in target_cpu_list
    BY <2>1 DEF IInv, AllCountedInv
  <2> QED BY <2>2 DEF IInv, ZeroInv, Live
<1> QED BY <1>1, Invariant, PTL
=============================================================================

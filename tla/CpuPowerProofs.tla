--------------------------- MODULE CpuPowerProofs ---------------------------
(****************************************************************************)
(* Proofs about CpuPower, for any number of cores.  IInv is preserved by    *)
(* every step: one lemma for each, which first says what the step changes   *)
(* and then takes the parts of IInv one after the other.                    *)
(****************************************************************************)
EXTENDS CpuPower, TLAPS

(* None, which frees a lock, is no core.                                     *)
LEMMA NoCore == None \notin Cores
  BY PowerAssumption DEF None, Cores

(* A CPU_ON in progress has its target to itself.                            *)
LEMMA Targets ==
    ASSUME IInv, NEW c \in Cores, pc[c] \in OnSteps
    PROVE  /\ tgt[c] \in Cores /\ tgt[c] # c
           /\ TargetInv(c, tgt[c])
           /\ \A e \in Cores : pc[e] \in OnSteps /\ tgt[e] = tgt[c] => e = c
<1>1. tgt[c] \in Cores /\ TargetInv(c, tgt[c])
  BY DEF IInv, TypeOK, CallInv
<1>2. tgt[c] # c
  BY <1>1 DEF TargetInv, Off, OnSteps
<1>3. ASSUME NEW e \in Cores, pc[e] \in OnSteps, tgt[e] = tgt[c] PROVE e = c
  BY <1>1, <1>3 DEF IInv, CallInv, TargetInv
<1> QED BY <1>1, <1>2, <1>3

(* A step of a core that is no caller and no target of CPU_ON leaves the     *)
(* calls of the others alone.                                                *)
LEMMA NoTarget ==
    ASSUME IInv, NEW c \in Cores, cpu_lock[c] = None,
           pc[c] \notin OnSteps, pc'[c] \notin OnSteps, cpu_lock' = cpu_lock,
           \A d \in Cores \ {c} :
              /\ pc'[d] = pc[d] /\ tgt'[d] = tgt[d] /\ unflushed'[d] = unflushed[d]
              /\ cpu'[d].aff = cpu[d].aff /\ cpu'[d].optee = cpu[d].optee
    PROVE  CallInv'
<1>1. ASSUME NEW e \in Cores, pc'[e] \in OnSteps PROVE TargetInv(e, tgt[e])'
  <2>1. e # c /\ pc[e] \in OnSteps /\ pc'[e] = pc[e] /\ tgt'[e] = tgt[e]
    BY <1>1
  <2>2. tgt[e] \in Cores /\ TargetInv(e, tgt[e])
    BY <2>1, Targets
  <2>3. tgt[e] # c
    BY <2>2, NoCore DEF TargetInv
  <2> QED
    BY <2>1, <2>2, <2>3 DEF TargetInv, Off
<1>2. ASSUME NEW e \in Cores, NEW u \in Cores, cpu_lock'[u] = e
      PROVE  pc'[e] \in OnSteps /\ tgt'[e] = u
  BY <1>2 DEF IInv, CallInv
<1> QED
  BY <1>1, <1>2 DEF CallInv

-----------------------------------------------------------------------------
(* CPU_ON.  The caller is up, so it is no target; the target is off and in   *)
(* nobody else's hands.                                                      *)
LEMMA CpuOnStep ==
    ASSUME IInv, NEW c \in Cores, NEW t \in Cores, CpuOn(c, t)
    PROVE  IInv'
<1>1. /\ TypeOK /\ PhaseInv /\ PmuInv /\ AffInv /\ CallInv /\ ContextInv /\ ClientInv
      /\ RequestInv /\ ClusterInv /\ WakeInv /\ AloneInv /\ RamInv
  BY DEF IInv
<1>2. /\ pc[c] = "ns" /\ cpu_lock[t] = None /\ AffState(t) = "OFF" /\ Permitted
      /\ \A d \in Cores :
            /\ pc'[d] = IF d = c THEN "on_flush" ELSE pc[d]
            /\ tgt'[d] = IF d = c THEN t ELSE tgt[d]
            /\ cpu_lock'[d] = IF d = t THEN c ELSE cpu_lock[d]
            /\ unflushed'[d] = IF d = t THEN "ON_PENDING" ELSE unflushed[d]
      /\ UNCHANGED <<serial, cpu, node, pd_lock, PWRCTL, client_lock, val, suspend_mode,
                     pmu, ram, sources, cpuif, ttc2, coherent, resumed>>
  BY <1>1 DEF TypeOK, CpuOn, Goto, psciVars, pmVars, gicVars
<1>3. TypeOK'
  BY <1>1
  DEF TypeOK, CpuOn, Goto, psciVars, pmVars, gicVars, Steps, OnSteps, OffSteps, SusSteps,
      BootSteps
<1>4. PhaseInv'
  BY <1>1, <1>2 DEF PhaseInv, UpSteps, OnSteps, OffSteps, SuspendSteps, ResumeSteps
<1>5. AffInv'
  BY <1>1, <1>2, NoCore
  DEF AffInv, Off, AffState, PhaseInv, UpSteps, OnSteps, OffSteps, SuspendSteps, ResumeSteps
<1>6. CallInv'
  <2>1. ASSUME NEW e \in Cores, pc'[e] \in OnSteps PROVE TargetInv(e, tgt[e])'
    <3>1. CASE e = c
      BY <1>1, <1>2, <2>1, <3>1, NoCore DEF TargetInv, Off, OnSteps, AffInv, AffState
    <3>2. CASE e # c
      <4>1. pc[e] \in OnSteps /\ pc'[e] = pc[e] /\ tgt'[e] = tgt[e]
        BY <1>2, <2>1, <3>2 DEF OnSteps
      <4>2. tgt[e] \in Cores /\ TargetInv(e, tgt[e]) /\ tgt[e] # e
        BY <4>1, Targets
      <4> QED
        BY <1>1, <1>2, <3>2, <4>1, <4>2, NoCore DEF TargetInv, Off
    <3> QED BY <3>1, <3>2
  <2>2. ASSUME NEW e \in Cores, NEW u \in Cores, cpu_lock'[u] = e
        PROVE  pc'[e] \in OnSteps /\ tgt'[e] = u
    BY <1>1, <1>2, <2>2 DEF CallInv, OnSteps
  <2> QED BY <2>1, <2>2 DEF CallInv
<1>7. ClusterInv'
  BY <1>1, <1>2
  DEF ClusterInv, Holding, UpSteps, OnSteps, OffSteps, SuspendSteps, ResumeSteps
<1>8. AloneInv'
  BY <1>1, <1>2, NoCore DEF AloneInv, Down, Calm, Permitted, PhaseInv, UpSteps
<1>9. PmuInv' /\ ClientInv' /\ RequestInv' /\ WakeInv' /\ ContextInv' /\ RamInv'
  BY <1>1, <1>2
  DEF PmuInv, ClientInv, WriteSteps, RequestInv, UpSteps, OnSteps, WakeInv, ContextInv,
      RamInv
<1> QED
  BY <1>3, <1>4, <1>5, <1>6, <1>7, <1>8, <1>9 DEF IInv

LEMMA OnFlushStep ==
    ASSUME IInv, NEW c \in Cores, OnFlush(c)
    PROVE  IInv'
<1>0. /\ tgt[c] \in Cores /\ tgt[c] # c /\ TargetInv(c, tgt[c]) /\ pc[c] \in OnSteps
      /\ \A e \in Cores : pc[e] \in OnSteps /\ tgt[e] = tgt[c] => e = c
  BY Targets DEF OnFlush, OnSteps
<1>1. /\ TypeOK /\ PhaseInv /\ PmuInv /\ AffInv /\ CallInv /\ ContextInv /\ ClientInv
      /\ RequestInv /\ ClusterInv /\ WakeInv /\ AloneInv /\ RamInv
  BY DEF IInv
<1>2. /\ pc[c] \in {"on_flush", "on_reflush"}
      /\ \A d \in Cores :
            /\ pc'[d] = IF d = c
                        THEN IF pc[c] = "on_flush" THEN "on_check" ELSE "on_status"
                        ELSE pc[d]
            /\ unflushed'[d] = IF d = tgt[c] THEN "none" ELSE unflushed[d]
            /\ cpu'[d].aff = IF d = tgt[c] THEN AffState(d) ELSE cpu[d].aff
            /\ cpu'[d].local = cpu[d].local /\ cpu'[d].req = cpu[d].req /\ cpu'[d].lvl = cpu[d].lvl
            /\ cpu'[d].optee = cpu[d].optee
      /\ UNCHANGED <<serial, tgt, node, pd_lock, cpu_lock, PWRCTL, client_lock, val,
                     suspend_mode, pmu, ram, sources, cpuif, ttc2, coherent, resumed>>
  BY <1>0, <1>1 DEF TypeOK, OnFlush, FlushAff, Goto, psciVars, pmVars, gicVars, CpuData
<1>3. /\ cpu \in [Cores -> CpuData]
      /\ cpu' = [cpu EXCEPT ![tgt[c]].aff = AffState(tgt[c])]
  BY <1>1 DEF TypeOK, OnFlush, FlushAff
<1>4. \A d \in Cores : cpu'[d].ctx = cpu[d].ctx
  BY <1>0, <1>3 DEF CpuData
<1>5. cpu' \in [Cores -> CpuData]
  <2>1. AffState(tgt[c]) \in Aff
    BY <1>0, <1>1 DEF AffState, TypeOK, CpuData, Aff
  <2>2. \A d \in Cores : cpu'[d] \in CpuData
    BY <1>0, <1>3, <2>1 DEF CpuData
  <2> QED
    BY <1>3, <2>2
<1>6. TypeOK'
  BY <1>0, <1>1, <1>5
  DEF TypeOK, OnFlush, FlushAff, Goto, psciVars, pmVars, gicVars, Steps, OnSteps, OffSteps,
      SusSteps, BootSteps
<1>7. PhaseInv'
  BY <1>0, <1>1, <1>2 DEF PhaseInv, UpSteps, OnSteps, OffSteps, SuspendSteps, ResumeSteps
<1>8. AffInv'
  BY <1>0, <1>1, <1>2, NoCore
  DEF AffInv, Off, TargetInv, AffState, PhaseInv, UpSteps, OnSteps, OffSteps, SuspendSteps,
      ResumeSteps
<1>9. CallInv'
  <2>1. ASSUME NEW e \in Cores, pc'[e] \in OnSteps PROVE TargetInv(e, tgt[e])'
    <3>1. CASE e = c
      BY <1>0, <1>1, <1>2, <2>1, <3>1 DEF TargetInv, Off, OnSteps, AffState
    <3>2. CASE e # c
      <4>1. pc[e] \in OnSteps /\ pc'[e] = pc[e] /\ tgt'[e] = tgt[e]
        BY <1>0, <1>2, <2>1, <3>2 DEF OnSteps
      <4>2. tgt[e] \in Cores /\ TargetInv(e, tgt[e]) /\ tgt[e] # e
        BY <4>1, Targets
      <4>3. tgt[e] # tgt[c] /\ tgt[e] # c
        BY <1>0, <1>2, <3>2, <4>1, <4>2 DEF TargetInv, Off, OnSteps
      <4> QED
        BY <1>1, <1>2, <3>2, <4>1, <4>2, <4>3 DEF TargetInv, Off
    <3> QED BY <3>1, <3>2
  <2>2. ASSUME NEW e \in Cores, NEW u \in Cores, cpu_lock'[u] = e
        PROVE  pc'[e] \in OnSteps /\ tgt'[e] = u
    BY <1>0, <1>1, <1>2, <2>2 DEF CallInv, OnSteps
  <2> QED BY <2>1, <2>2 DEF CallInv
<1>10. ClusterInv'
  BY <1>0, <1>1, <1>2
  DEF ClusterInv, Holding, UpSteps, OnSteps, OffSteps, SuspendSteps, ResumeSteps, TargetInv,
      Off
<1>11. AloneInv'
  BY <1>0, <1>1, <1>2
  DEF AloneInv, Down, Calm, PhaseInv, UpSteps, OnSteps, OffSteps, SuspendSteps, ResumeSteps
<1>12. PmuInv' /\ ClientInv' /\ RequestInv' /\ WakeInv' /\ ContextInv' /\ RamInv'
  BY <1>0, <1>1, <1>2, <1>4
  DEF PmuInv, ClientInv, WriteSteps, RequestInv, UpSteps, OnSteps, WakeInv, ContextInv,
      RamInv
<1> QED
  BY <1>6, <1>7, <1>8, <1>9, <1>10, <1>11, <1>12 DEF IInv

(* An ON_PENDING that was lost was lost to the target's one invalidation,    *)
(* which is over: the second flush stays.                                    *)
LEMMA OnCheckStep ==
    ASSUME IInv, NEW c \in Cores, OnCheck(c)
    PROVE  IInv'
<1>0. /\ tgt[c] \in Cores /\ tgt[c] # c /\ TargetInv(c, tgt[c]) /\ pc[c] \in OnSteps
      /\ \A e \in Cores : pc[e] \in OnSteps /\ tgt[e] = tgt[c] => e = c
  BY Targets DEF OnCheck, OnSteps
<1>1. /\ TypeOK /\ PhaseInv /\ PmuInv /\ AffInv /\ CallInv /\ ContextInv /\ ClientInv
      /\ RequestInv /\ ClusterInv /\ WakeInv /\ AloneInv /\ RamInv
  BY DEF IInv
<1>2. /\ pc[c] = "on_check"
      /\ \A d \in Cores :
            /\ pc'[d] = IF d = c
                        THEN IF AffState(tgt[c]) = "ON_PENDING" THEN "on_status" ELSE "on_reflush"
                        ELSE pc[d]
            /\ unflushed'[d] = IF d = tgt[c]
                               THEN IF AffState(d) = "ON_PENDING" THEN unflushed[d] ELSE "ON_PENDING"
                               ELSE unflushed[d]
      /\ UNCHANGED <<serial, tgt, cpu, node, pd_lock, cpu_lock, PWRCTL, client_lock, val,
                     suspend_mode, pmu, ram, sources, cpuif, ttc2, coherent, resumed>>
  BY <1>0, <1>1 DEF TypeOK, OnCheck, Goto, psciVars, pmVars, gicVars
<1>3. TypeOK'
  BY <1>0, <1>1
  DEF TypeOK, OnCheck, Goto, psciVars, pmVars, gicVars, Steps, OnSteps, OffSteps, SusSteps,
      BootSteps
<1>4. PhaseInv'
  BY <1>0, <1>1, <1>2 DEF PhaseInv, UpSteps, OnSteps, OffSteps, SuspendSteps, ResumeSteps
<1>5. AffInv'
  BY <1>0, <1>1, <1>2, NoCore
  DEF AffInv, Off, TargetInv, AffState, PhaseInv, UpSteps, OnSteps, OffSteps, SuspendSteps,
      ResumeSteps
<1>6. CallInv'
  <2>1. ASSUME NEW e \in Cores, pc'[e] \in OnSteps PROVE TargetInv(e, tgt[e])'
    <3>1. CASE e = c
      BY <1>0, <1>1, <1>2, <2>1, <3>1 DEF TargetInv, Off, OnSteps, AffState, AffInv
    <3>2. CASE e # c
      <4>1. pc[e] \in OnSteps /\ pc'[e] = pc[e] /\ tgt'[e] = tgt[e]
        BY <1>0, <1>2, <2>1, <3>2 DEF OnSteps
      <4>2. tgt[e] \in Cores /\ TargetInv(e, tgt[e]) /\ tgt[e] # e
        BY <4>1, Targets
      <4>3. tgt[e] # tgt[c] /\ tgt[e] # c
        BY <1>0, <1>2, <3>2, <4>1, <4>2 DEF TargetInv, Off, OnSteps
      <4> QED
        BY <1>1, <1>2, <3>2, <4>1, <4>2, <4>3 DEF TargetInv, Off
    <3> QED BY <3>1, <3>2
  <2>2. ASSUME NEW e \in Cores, NEW u \in Cores, cpu_lock'[u] = e
        PROVE  pc'[e] \in OnSteps /\ tgt'[e] = u
    BY <1>0, <1>1, <1>2, <2>2 DEF CallInv, OnSteps
  <2> QED BY <2>1, <2>2 DEF CallInv
<1>7. ClusterInv'
  BY <1>0, <1>1, <1>2
  DEF ClusterInv, Holding, UpSteps, OnSteps, OffSteps, SuspendSteps, ResumeSteps
<1>8. AloneInv'
  BY <1>0, <1>1, <1>2 DEF AloneInv, Down, Calm
<1>9. PmuInv' /\ ClientInv' /\ RequestInv' /\ WakeInv' /\ ContextInv' /\ RamInv'
  BY <1>0, <1>1, <1>2
  DEF PmuInv, ClientInv, WriteSteps, RequestInv, UpSteps, OnSteps, WakeInv, ContextInv,
      RamInv
<1> QED
  BY <1>3, <1>4, <1>5, <1>6, <1>7, <1>8, <1>9 DEF IInv

(* A target the PMU does not call SUSPENDING has been powered down.          *)
LEMMA OnStatusStep ==
    ASSUME IInv, NEW c \in Cores, OnStatus(c)
    PROVE  IInv'
<1>0. /\ tgt[c] \in Cores /\ tgt[c] # c /\ TargetInv(c, tgt[c]) /\ pc[c] \in OnSteps
      /\ \A e \in Cores : pc[e] \in OnSteps /\ tgt[e] = tgt[c] => e = c
  BY Targets DEF OnStatus, OnSteps
<1>1. /\ TypeOK /\ PhaseInv /\ PmuInv /\ AffInv /\ CallInv /\ ContextInv /\ ClientInv
      /\ RequestInv /\ ClusterInv /\ WakeInv /\ AloneInv /\ RamInv
  BY DEF IInv
<1>2. /\ pc[c] = "on_status"
      /\ pc'[c] = "on_undo" \/ (pc'[c] = "on_read" /\ pmu[tgt[c]] # "SUSPENDING")
      /\ \A d \in Cores :
            /\ pc'[d] = IF d = c THEN pc'[c] ELSE pc[d]
      /\ UNCHANGED <<serial, tgt, cpu, unflushed, node, pd_lock, cpu_lock, PWRCTL,
                     client_lock, val, suspend_mode, pmu, ram, sources, cpuif, ttc2,
                     coherent, resumed>>
  BY <1>0, <1>1 DEF TypeOK, OnStatus, Goto, psciVars, pmVars, gicVars
<1>3. TypeOK'
  BY <1>0, <1>1
  DEF TypeOK, OnStatus, Goto, psciVars, pmVars, gicVars, Steps, OnSteps, OffSteps, SusSteps,
      BootSteps
<1>4. PhaseInv'
  BY <1>0, <1>1, <1>2 DEF PhaseInv, UpSteps, OnSteps, OffSteps, SuspendSteps, ResumeSteps
<1>5. AffInv'
  BY <1>0, <1>1, <1>2 DEF AffInv, Off
<1>6. CallInv'
  <2>1. ASSUME NEW e \in Cores, pc'[e] \in OnSteps PROVE TargetInv(e, tgt[e])'
    <3>1. CASE e = c
      BY <1>0, <1>1, <1>2, <2>1, <3>1 DEF TargetInv, Off, OnSteps, PmuInv
    <3>2. CASE e # c
      <4>1. pc[e] \in OnSteps /\ pc'[e] = pc[e] /\ tgt'[e] = tgt[e]
        BY <1>0, <1>2, <2>1, <3>2 DEF OnSteps
      <4>2. tgt[e] \in Cores /\ TargetInv(e, tgt[e]) /\ tgt[e] # e
        BY <4>1, Targets
      <4>3. tgt[e] # tgt[c] /\ tgt[e] # c
        BY <1>0, <1>2, <3>2, <4>1, <4>2 DEF TargetInv, Off, OnSteps
      <4> QED
        BY <1>1, <1>2, <3>2, <4>1, <4>2, <4>3 DEF TargetInv, Off
    <3> QED BY <3>1, <3>2
  <2>2. ASSUME NEW e \in Cores, NEW u \in Cores, cpu_lock'[u] = e
        PROVE  pc'[e] \in OnSteps /\ tgt'[e] = u
    BY <1>0, <1>1, <1>2, <2>2 DEF CallInv, OnSteps
  <2> QED BY <2>1, <2>2 DEF CallInv
<1>7. ClusterInv'
  BY <1>0, <1>1, <1>2
  DEF ClusterInv, Holding, UpSteps, OnSteps, OffSteps, SuspendSteps, ResumeSteps
<1>8. AloneInv'
  BY <1>0, <1>1, <1>2 DEF AloneInv, Down, Calm
<1>9. PmuInv' /\ ClientInv' /\ RequestInv' /\ WakeInv' /\ ContextInv' /\ RamInv'
  BY <1>0, <1>1, <1>2
  DEF PmuInv, ClientInv, WriteSteps, RequestInv, UpSteps, OnSteps, WakeInv, ContextInv,
      RamInv
<1> QED
  BY <1>3, <1>4, <1>5, <1>6, <1>7, <1>8, <1>9 DEF IInv

(* The state the failed call restores is only in its cache until the flush.  *)
LEMMA OnUndoStep ==
    ASSUME IInv, NEW c \in Cores, OnUndo(c)
    PROVE  IInv'
<1>0. /\ tgt[c] \in Cores /\ tgt[c] # c /\ TargetInv(c, tgt[c]) /\ pc[c] \in OnSteps
      /\ \A e \in Cores : pc[e] \in OnSteps /\ tgt[e] = tgt[c] => e = c
  BY Targets DEF OnUndo, OnSteps
<1>1. /\ TypeOK /\ PhaseInv /\ PmuInv /\ AffInv /\ CallInv /\ ContextInv /\ ClientInv
      /\ RequestInv /\ ClusterInv /\ WakeInv /\ AloneInv /\ RamInv
  BY DEF IInv
<1>2. /\ pc[c] = "on_undo"
      /\ \A d \in Cores :
            /\ pc'[d] = IF d = c THEN "on_unflush" ELSE pc[d]
            /\ unflushed'[d] = IF d = tgt[c] THEN "OFF" ELSE unflushed[d]
      /\ UNCHANGED <<serial, tgt, cpu, node, pd_lock, cpu_lock, PWRCTL, client_lock, val,
                     suspend_mode, pmu, ram, sources, cpuif, ttc2, coherent, resumed>>
  BY <1>0, <1>1 DEF TypeOK, OnUndo, Goto, psciVars, pmVars, gicVars
<1>3. TypeOK'
  BY <1>0, <1>1
  DEF TypeOK, OnUndo, Goto, psciVars, pmVars, gicVars, Steps, OnSteps, OffSteps, SusSteps,
      BootSteps
<1>4. PhaseInv'
  BY <1>0, <1>1, <1>2 DEF PhaseInv, UpSteps, OnSteps, OffSteps, SuspendSteps, ResumeSteps
<1>5. AffInv'
  BY <1>0, <1>1, <1>2, NoCore
  DEF AffInv, Off, TargetInv, AffState, PhaseInv, UpSteps, OnSteps, OffSteps, SuspendSteps,
      ResumeSteps
<1>6. CallInv'
  <2>1. ASSUME NEW e \in Cores, pc'[e] \in OnSteps PROVE TargetInv(e, tgt[e])'
    <3>1. CASE e = c
      BY <1>0, <1>1, <1>2, <2>1, <3>1 DEF TargetInv, Off, OnSteps
    <3>2. CASE e # c
      <4>1. pc[e] \in OnSteps /\ pc'[e] = pc[e] /\ tgt'[e] = tgt[e]
        BY <1>0, <1>2, <2>1, <3>2 DEF OnSteps
      <4>2. tgt[e] \in Cores /\ TargetInv(e, tgt[e]) /\ tgt[e] # e
        BY <4>1, Targets
      <4>3. tgt[e] # tgt[c] /\ tgt[e] # c
        BY <1>0, <1>2, <3>2, <4>1, <4>2 DEF TargetInv, Off, OnSteps
      <4> QED
        BY <1>1, <1>2, <3>2, <4>1, <4>2, <4>3 DEF TargetInv, Off
    <3> QED BY <3>1, <3>2
  <2>2. ASSUME NEW e \in Cores, NEW u \in Cores, cpu_lock'[u] = e
        PROVE  pc'[e] \in OnSteps /\ tgt'[e] = u
    BY <1>0, <1>1, <1>2, <2>2 DEF CallInv, OnSteps
  <2> QED BY <2>1, <2>2 DEF CallInv
<1>7. ClusterInv'
  BY <1>0, <1>1, <1>2
  DEF ClusterInv, Holding, UpSteps, OnSteps, OffSteps, SuspendSteps, ResumeSteps
<1>8. AloneInv'
  BY <1>0, <1>1, <1>2 DEF AloneInv, Down, Calm
<1>9. PmuInv' /\ ClientInv' /\ RequestInv' /\ WakeInv' /\ ContextInv' /\ RamInv'
  BY <1>0, <1>1, <1>2
  DEF PmuInv, ClientInv, WriteSteps, RequestInv, UpSteps, OnSteps, WakeInv, ContextInv,
      RamInv
<1> QED
  BY <1>3, <1>4, <1>5, <1>6, <1>7, <1>8, <1>9 DEF IInv

LEMMA OnUnflushStep ==
    ASSUME IInv, NEW c \in Cores, OnUnflush(c)
    PROVE  IInv'
<1>0. /\ tgt[c] \in Cores /\ tgt[c] # c /\ TargetInv(c, tgt[c]) /\ pc[c] \in OnSteps
      /\ \A e \in Cores : pc[e] \in OnSteps /\ tgt[e] = tgt[c] => e = c
  BY Targets DEF OnUnflush, OnSteps
<1>1. /\ TypeOK /\ PhaseInv /\ PmuInv /\ AffInv /\ CallInv /\ ContextInv /\ ClientInv
      /\ RequestInv /\ ClusterInv /\ WakeInv /\ AloneInv /\ RamInv
  BY DEF IInv
<1>2. /\ pc[c] = "on_unflush"
      /\ \A d \in Cores :
            /\ pc'[d] = IF d = c THEN "ns" ELSE pc[d]
            /\ tgt'[d] = IF d = c THEN c ELSE tgt[d]
            /\ unflushed'[d] = IF d = tgt[c] THEN "none" ELSE unflushed[d]
            /\ cpu_lock'[d] = IF d = tgt[c] THEN None ELSE cpu_lock[d]
            /\ cpu'[d].aff = IF d = tgt[c] THEN AffState(d) ELSE cpu[d].aff
            /\ cpu'[d].local = cpu[d].local /\ cpu'[d].req = cpu[d].req /\ cpu'[d].lvl = cpu[d].lvl
            /\ cpu'[d].optee = cpu[d].optee
      /\ UNCHANGED <<serial, node, pd_lock, PWRCTL, client_lock, val, suspend_mode, pmu,
                     ram, sources, cpuif, ttc2, coherent, resumed>>
  BY <1>0, <1>1 DEF TypeOK, OnUnflush, FlushAff, Goto, psciVars, pmVars, gicVars, CpuData
<1>3. /\ cpu \in [Cores -> CpuData]
      /\ cpu' = [cpu EXCEPT ![tgt[c]].aff = AffState(tgt[c])]
  BY <1>1 DEF TypeOK, OnUnflush, FlushAff
<1>4. \A d \in Cores : cpu'[d].ctx = cpu[d].ctx
  BY <1>0, <1>3 DEF CpuData
<1>5. cpu' \in [Cores -> CpuData]
  <2>1. AffState(tgt[c]) \in Aff
    BY <1>0, <1>1 DEF AffState, TypeOK, CpuData, Aff
  <2>2. \A d \in Cores : cpu'[d] \in CpuData
    BY <1>0, <1>3, <2>1 DEF CpuData
  <2> QED
    BY <1>3, <2>2
<1>6. TypeOK'
  BY <1>0, <1>1, <1>5
  DEF TypeOK, OnUnflush, FlushAff, Goto, psciVars, pmVars, gicVars, Steps, OnSteps,
      OffSteps, SusSteps, BootSteps
<1>7. PhaseInv'
  BY <1>0, <1>1, <1>2 DEF PhaseInv, UpSteps, OnSteps, OffSteps, SuspendSteps, ResumeSteps
<1>8. AffInv'
  <2>1. /\ cpu[tgt[c]] \in CpuData /\ Off(tgt[c]) /\ tgt[c] # c
        /\ pc[tgt[c]] \notin {"warm", "on_fin"}
    BY <1>0, <1>1, <1>2 DEF TypeOK, TargetInv
  <2>2. \A d \in Cores : Off(d)' <=> Off(d)
    BY <1>0, <1>2 DEF Off
  <2>3. AffState(tgt[c]) # "ON"
    BY <1>0, <1>1, <2>1 DEF AffInv, AffState, TypeOK
  <2>4. cpu[c].aff = "ON"
    BY <1>1, <1>2 DEF AffInv, Off
  <2> QED
    BY <1>0, <1>1, <1>2, <2>1, <2>2, <2>3, <2>4, NoCore DEF AffInv
<1>9. CallInv'
  <2>1. ASSUME NEW e \in Cores, pc'[e] \in OnSteps PROVE TargetInv(e, tgt[e])'
    <3>1. CASE e = c
      BY <1>0, <1>1, <1>2, <2>1, <3>1 DEF TargetInv, Off, OnSteps, AffState
    <3>2. CASE e # c
      <4>1. pc[e] \in OnSteps /\ pc'[e] = pc[e] /\ tgt'[e] = tgt[e]
        BY <1>0, <1>2, <2>1, <3>2 DEF OnSteps
      <4>2. tgt[e] \in Cores /\ TargetInv(e, tgt[e]) /\ tgt[e] # e
        BY <4>1, Targets
      <4>3. tgt[e] # tgt[c] /\ tgt[e] # c
        BY <1>0, <1>2, <3>2, <4>1, <4>2 DEF TargetInv, Off, OnSteps
      <4> QED
        BY <1>1, <1>2, <3>2, <4>1, <4>2, <4>3 DEF TargetInv, Off
    <3> QED BY <3>1, <3>2
  <2>2. ASSUME NEW e \in Cores, NEW u \in Cores, cpu_lock'[u] = e
        PROVE  pc'[e] \in OnSteps /\ tgt'[e] = u
    BY <1>0, <1>1, <1>2, <2>2, NoCore DEF CallInv, OnSteps
  <2> QED BY <2>1, <2>2 DEF CallInv
<1>10. ContextInv'
  BY <1>0, <1>1, <1>2, <1>4 DEF ContextInv, TargetInv, Off, OnSteps
<1>11. ClusterInv'
  BY <1>0, <1>1, <1>2
  DEF ClusterInv, Holding, UpSteps, OnSteps, OffSteps, SuspendSteps, ResumeSteps, TargetInv,
      Off
<1>12. AloneInv'
  BY <1>0, <1>1, <1>2
  DEF AloneInv, Down, Calm, PhaseInv, UpSteps, OnSteps, OffSteps, SuspendSteps, ResumeSteps
<1>13. PmuInv' /\ ClientInv' /\ RequestInv' /\ WakeInv' /\ RamInv'
  BY <1>0, <1>1, <1>2
  DEF PmuInv, ClientInv, WriteSteps, RequestInv, UpSteps, OnSteps, WakeInv, RamInv
<1> QED
  BY <1>6, <1>7, <1>8, <1>9, <1>10, <1>11, <1>12, <1>13 DEF IInv

LEMMA OnWakeStep ==
    ASSUME IInv, NEW c \in Cores, OnWake(c)
    PROVE  IInv'
<1>0. /\ tgt[c] \in Cores /\ tgt[c] # c /\ TargetInv(c, tgt[c]) /\ pc[c] \in OnSteps
      /\ \A e \in Cores : pc[e] \in OnSteps /\ tgt[e] = tgt[c] => e = c
  BY Targets DEF OnWake, OnSteps
<1>1. /\ TypeOK /\ PhaseInv /\ PmuInv /\ AffInv /\ CallInv /\ ContextInv /\ ClientInv
      /\ RequestInv /\ ClusterInv /\ WakeInv /\ AloneInv /\ RamInv
  BY DEF IInv
<1>2. /\ pc[c] = "on_wake" /\ pc[tgt[c]] = "down"
      /\ \A d \in Cores :
            /\ pc'[d] = IF d = c THEN "on_ctx" ELSE IF d = tgt[c] THEN "warm" ELSE pc[d]
            /\ pmu'[d] = IF d = tgt[c] THEN "ACTIVE" ELSE pmu[d]
      /\ UNCHANGED <<serial, tgt, cpu, unflushed, node, pd_lock, cpu_lock, PWRCTL,
                     client_lock, val, suspend_mode, ram, sources, cpuif, ttc2, coherent,
                     resumed>>
  BY <1>0, <1>1 DEF TypeOK, OnWake, Goto, psciVars, pmVars, gicVars, TargetInv, PmuInv
<1>3. TypeOK'
  BY <1>0, <1>1
  DEF TypeOK, OnWake, Goto, psciVars, pmVars, gicVars, Steps, OnSteps, OffSteps, SusSteps,
      BootSteps
<1>4. PhaseInv'
  BY <1>0, <1>1, <1>2 DEF PhaseInv, UpSteps, OnSteps, OffSteps, SuspendSteps, ResumeSteps
<1>5. AffInv'
  BY <1>0, <1>1, <1>2, NoCore
  DEF AffInv, Off, TargetInv, AffState, PhaseInv, UpSteps, OnSteps, OffSteps, SuspendSteps,
      ResumeSteps
<1>6. CallInv'
  <2>1. ASSUME NEW e \in Cores, pc'[e] \in OnSteps PROVE TargetInv(e, tgt[e])'
    <3>1. CASE e = c
      BY <1>0, <1>1, <1>2, <2>1, <3>1 DEF TargetInv, Off, OnSteps
    <3>2. CASE e # c
      <4>1. pc[e] \in OnSteps /\ pc'[e] = pc[e] /\ tgt'[e] = tgt[e]
        BY <1>0, <1>2, <2>1, <3>2 DEF OnSteps
      <4>2. tgt[e] \in Cores /\ TargetInv(e, tgt[e]) /\ tgt[e] # e
        BY <4>1, Targets
      <4>3. tgt[e] # tgt[c] /\ tgt[e] # c
        BY <1>0, <1>2, <3>2, <4>1, <4>2 DEF TargetInv, Off, OnSteps
      <4> QED
        BY <1>1, <1>2, <3>2, <4>1, <4>2, <4>3 DEF TargetInv, Off
    <3> QED BY <3>1, <3>2
  <2>2. ASSUME NEW e \in Cores, NEW u \in Cores, cpu_lock'[u] = e
        PROVE  pc'[e] \in OnSteps /\ tgt'[e] = u
    BY <1>0, <1>1, <1>2, <2>2 DEF CallInv, OnSteps
  <2> QED BY <2>1, <2>2 DEF CallInv
<1>7. ContextInv'
  BY <1>0, <1>1, <1>2, NoCore DEF ContextInv, TargetInv, Off, OnSteps
<1>8. ClusterInv'
  BY <1>0, <1>1, <1>2
  DEF ClusterInv, Holding, UpSteps, OnSteps, OffSteps, SuspendSteps, ResumeSteps
<1>9. WakeInv'
  BY <1>0, <1>1, <1>2 DEF WakeInv, UpSteps, OnSteps, TargetInv, Off, PhaseInv
<1>10. AloneInv'
  BY <1>0, <1>1, <1>2
  DEF AloneInv, Down, Calm, PhaseInv, UpSteps, OnSteps, OffSteps, SuspendSteps, ResumeSteps
<1>11. PmuInv' /\ ClientInv' /\ RequestInv' /\ RamInv'
  BY <1>0, <1>1, <1>2
  DEF PmuInv, ClientInv, WriteSteps, RequestInv, UpSteps, OnSteps, RamInv
<1> QED
  BY <1>3, <1>4, <1>5, <1>6, <1>7, <1>8, <1>9, <1>10, <1>11 DEF IInv

LEMMA OnContextStep ==
    ASSUME IInv, NEW c \in Cores, OnContext(c)
    PROVE  IInv'
<1>0. /\ tgt[c] \in Cores /\ tgt[c] # c /\ TargetInv(c, tgt[c]) /\ pc[c] \in OnSteps
      /\ \A e \in Cores : pc[e] \in OnSteps /\ tgt[e] = tgt[c] => e = c
  BY Targets DEF OnContext, OnSteps
<1>1. /\ TypeOK /\ PhaseInv /\ PmuInv /\ AffInv /\ CallInv /\ ContextInv /\ ClientInv
      /\ RequestInv /\ ClusterInv /\ WakeInv /\ AloneInv /\ RamInv
  BY DEF IInv
<1>2. /\ pc[c] = "on_ctx"
      /\ \A d \in Cores :
            /\ pc'[d] = IF d = c THEN "ns" ELSE pc[d]
            /\ tgt'[d] = IF d = c THEN c ELSE tgt[d]
            /\ cpu_lock'[d] = IF d = tgt[c] THEN None ELSE cpu_lock[d]
            /\ cpu'[d].aff = cpu[d].aff /\ cpu'[d].local = cpu[d].local /\ cpu'[d].req = cpu[d].req
            /\ cpu'[d].lvl = cpu[d].lvl /\ cpu'[d].optee = cpu[d].optee
      /\ UNCHANGED <<serial, unflushed, node, pd_lock, PWRCTL, client_lock, val,
                     suspend_mode, pmu, ram, sources, cpuif, ttc2, coherent, resumed>>
  BY <1>0, <1>1 DEF TypeOK, OnContext, Goto, psciVars, pmVars, gicVars, CpuData
<1>3. /\ cpu \in [Cores -> CpuData]
      /\ cpu' = [cpu EXCEPT ![tgt[c]].ctx = TRUE]
  BY <1>1 DEF TypeOK, OnContext
<1>4. \A d \in Cores : cpu'[d].ctx = IF d = tgt[c] THEN TRUE ELSE cpu[d].ctx
  BY <1>0, <1>3 DEF CpuData
<1>5. cpu' \in [Cores -> CpuData]
  <2>2. \A d \in Cores : cpu'[d] \in CpuData
    BY <1>0, <1>3 DEF CpuData
  <2> QED
    BY <1>3, <2>2
<1>6. TypeOK'
  BY <1>0, <1>1, <1>5
  DEF TypeOK, OnContext, Goto, psciVars, pmVars, gicVars, Steps, OnSteps, OffSteps,
      SusSteps, BootSteps
<1>7. PhaseInv'
  BY <1>0, <1>1, <1>2 DEF PhaseInv, UpSteps, OnSteps, OffSteps, SuspendSteps, ResumeSteps
<1>8. AffInv'
  BY <1>0, <1>1, <1>2, NoCore
  DEF AffInv, Off, TargetInv, AffState, PhaseInv, UpSteps, OnSteps, OffSteps, SuspendSteps,
      ResumeSteps
<1>9. CallInv'
  <2>1. ASSUME NEW e \in Cores, pc'[e] \in OnSteps PROVE TargetInv(e, tgt[e])'
    <3>1. CASE e = c
      BY <1>0, <1>1, <1>2, <2>1, <3>1 DEF TargetInv, Off, OnSteps
    <3>2. CASE e # c
      <4>1. pc[e] \in OnSteps /\ pc'[e] = pc[e] /\ tgt'[e] = tgt[e]
        BY <1>0, <1>2, <2>1, <3>2 DEF OnSteps
      <4>2. tgt[e] \in Cores /\ TargetInv(e, tgt[e]) /\ tgt[e] # e
        BY <4>1, Targets
      <4>3. tgt[e] # tgt[c] /\ tgt[e] # c
        BY <1>0, <1>2, <3>2, <4>1, <4>2 DEF TargetInv, Off, OnSteps
      <4> QED
        BY <1>1, <1>2, <3>2, <4>1, <4>2, <4>3 DEF TargetInv, Off
    <3> QED BY <3>1, <3>2
  <2>2. ASSUME NEW e \in Cores, NEW u \in Cores, cpu_lock'[u] = e
        PROVE  pc'[e] \in OnSteps /\ tgt'[e] = u
    BY <1>0, <1>1, <1>2, <2>2, NoCore DEF CallInv, OnSteps
  <2> QED BY <2>1, <2>2 DEF CallInv
<1>10. ContextInv'
  BY <1>0, <1>1, <1>2, <1>4 DEF ContextInv
<1>11. ClusterInv'
  BY <1>0, <1>1, <1>2
  DEF ClusterInv, Holding, UpSteps, OnSteps, OffSteps, SuspendSteps, ResumeSteps
<1>12. AloneInv'
  BY <1>0, <1>1, <1>2 DEF AloneInv, Down, Calm
<1>13. PmuInv' /\ ClientInv' /\ RequestInv' /\ WakeInv' /\ RamInv'
  BY <1>0, <1>1, <1>2
  DEF PmuInv, ClientInv, WriteSteps, RequestInv, UpSteps, OnSteps, WakeInv, RamInv
<1> QED
  BY <1>6, <1>7, <1>8, <1>9, <1>10, <1>11, <1>12, <1>13 DEF IInv

-----------------------------------------------------------------------------
(* The PM client.  Between its read and its write nobody else writes.        *)
LEMMA ClientReadStep ==
    ASSUME IInv, NEW c \in Cores, ClientRead(c)
    PROVE  IInv'
<1>1. /\ TypeOK /\ PhaseInv /\ PmuInv /\ AffInv /\ CallInv /\ ContextInv /\ ClientInv
      /\ RequestInv /\ ClusterInv /\ WakeInv /\ AloneInv /\ RamInv
  BY DEF IInv
<1>2. /\ pc[c] \in {"on_read", "off_read", "sus_read", "fin_read"} /\ client_lock = None
      /\ pc'[c] = CASE pc[c] = "on_read" -> "on_write"
                    [] pc[c] = "off_read" -> "off_write"
                    [] pc[c] = "sus_read" -> "sus_write"
                    [] OTHER -> "fin_write"
      /\ \A d \in Cores :
            /\ pc'[d] = IF d = c THEN pc'[c] ELSE pc[d]
            /\ val'[d] = IF d = c THEN PWRCTL ELSE val[d]
      /\ client_lock' = c
      /\ UNCHANGED <<serial, tgt, cpu, unflushed, node, pd_lock, cpu_lock, PWRCTL,
                     suspend_mode, pmu, ram, sources, cpuif, ttc2, coherent, resumed>>
  BY <1>1 DEF TypeOK, ClientRead, Goto, psciVars, pmVars, gicVars
<1>3. TypeOK'
  BY <1>1
  DEF TypeOK, ClientRead, Goto, psciVars, pmVars, gicVars, Steps, OnSteps, OffSteps,
      SusSteps, BootSteps
<1>4. PhaseInv'
  BY <1>1, <1>2 DEF PhaseInv, UpSteps, OnSteps, OffSteps, SuspendSteps, ResumeSteps
<1>5. AffInv'
  BY <1>1, <1>2 DEF AffInv, Off
<1>6. CallInv'
  <2>1. ASSUME NEW e \in Cores, pc'[e] \in OnSteps PROVE TargetInv(e, tgt[e])'
    <3>1. CASE e = c
      BY <1>1, <1>2, <2>1, <3>1 DEF TargetInv, Off, OnSteps, CallInv, TypeOK
    <3>2. CASE e # c
      <4>1. pc[e] \in OnSteps /\ pc'[e] = pc[e] /\ tgt'[e] = tgt[e]
        BY <1>2, <2>1, <3>2 DEF OnSteps
      <4>2. tgt[e] \in Cores /\ TargetInv(e, tgt[e]) /\ tgt[e] # e
        BY <4>1, Targets
      <4> QED
        BY <1>1, <1>2, <3>2, <4>1, <4>2 DEF TargetInv, Off
    <3> QED BY <3>1, <3>2
  <2>2. ASSUME NEW e \in Cores, NEW u \in Cores, cpu_lock'[u] = e
        PROVE  pc'[e] \in OnSteps /\ tgt'[e] = u
    BY <1>1, <1>2, <2>2 DEF CallInv, OnSteps
  <2> QED BY <2>1, <2>2 DEF CallInv
<1>7. ClientInv'
  BY <1>1, <1>2, NoCore DEF ClientInv, WriteSteps
<1>8. ClusterInv'
  BY <1>1, <1>2
  DEF ClusterInv, Holding, UpSteps, OnSteps, OffSteps, SuspendSteps, ResumeSteps
<1>9. AloneInv'
  BY <1>1, <1>2 DEF AloneInv, Down, Calm
<1>10. PmuInv' /\ RequestInv' /\ WakeInv' /\ ContextInv' /\ RamInv'
  BY <1>1, <1>2 DEF PmuInv, RequestInv, UpSteps, OnSteps, WakeInv, ContextInv, RamInv
<1> QED
  BY <1>3, <1>4, <1>5, <1>6, <1>7, <1>8, <1>9, <1>10 DEF IInv

(* The bit it clears is of a core that is down, or its own.                  *)
LEMMA pm_client_wakeupStep ==
    ASSUME IInv, NEW c \in Cores, pm_client_wakeup(c)
    PROVE  IInv'
<1>1. /\ TypeOK /\ PhaseInv /\ PmuInv /\ AffInv /\ CallInv /\ ContextInv /\ ClientInv
      /\ RequestInv /\ ClusterInv /\ WakeInv /\ AloneInv /\ RamInv
  BY DEF IInv
<1>2. /\ pc[c] \in {"on_write", "fin_write"}
      /\ PWRCTL' = val[c] \ {IF pc[c] = "on_write" THEN tgt[c] ELSE c}
      /\ \A d \in Cores :
            /\ pc'[d] = IF d = c
                        THEN IF pc[c] = "on_write" THEN "on_wake" ELSE "fin_gic"
                        ELSE pc[d]
            /\ val'[d] = IF d = c THEN {} ELSE val[d]
      /\ client_lock' = None
      /\ UNCHANGED <<serial, tgt, cpu, unflushed, node, pd_lock, cpu_lock, suspend_mode,
                     pmu, ram, sources, cpuif, ttc2, coherent, resumed>>
  BY <1>1 DEF TypeOK, pm_client_wakeup, Goto, psciVars, pmVars, gicVars
<1>3. TypeOK'
  BY <1>1
  DEF TypeOK, pm_client_wakeup, Goto, psciVars, pmVars, gicVars, Steps, OnSteps, OffSteps,
      SusSteps, BootSteps
<1>4. PhaseInv'
  BY <1>1, <1>2 DEF PhaseInv, UpSteps, OnSteps, OffSteps, SuspendSteps, ResumeSteps
<1>5. AffInv'
  BY <1>1, <1>2 DEF AffInv, Off
<1>6. CallInv'
  <2>1. ASSUME NEW e \in Cores, pc'[e] \in OnSteps PROVE TargetInv(e, tgt[e])'
    <3>1. CASE e = c
      BY <1>1, <1>2, <2>1, <3>1 DEF TargetInv, Off, OnSteps, CallInv, TypeOK
    <3>2. CASE e # c
      <4>1. pc[e] \in OnSteps /\ pc'[e] = pc[e] /\ tgt'[e] = tgt[e]
        BY <1>2, <2>1, <3>2 DEF OnSteps
      <4>2. tgt[e] \in Cores /\ TargetInv(e, tgt[e]) /\ tgt[e] # e
        BY <4>1, Targets
      <4> QED
        BY <1>1, <1>2, <3>2, <4>1, <4>2 DEF TargetInv, Off
    <3> QED BY <3>1, <3>2
  <2>2. ASSUME NEW e \in Cores, NEW u \in Cores, cpu_lock'[u] = e
        PROVE  pc'[e] \in OnSteps /\ tgt'[e] = u
    BY <1>1, <1>2, <2>2 DEF CallInv, OnSteps
  <2> QED BY <2>1, <2>2 DEF CallInv
<1>7. ClientInv'
  BY <1>1, <1>2, NoCore DEF ClientInv, WriteSteps
<1>8. RequestInv'
  BY <1>1, <1>2
  DEF RequestInv, UpSteps, OnSteps, ClientInv, WriteSteps, CallInv, TargetInv, TypeOK
<1>9. ClusterInv'
  BY <1>1, <1>2
  DEF ClusterInv, Holding, UpSteps, OnSteps, OffSteps, SuspendSteps, ResumeSteps
<1>10. AloneInv'
  BY <1>1, <1>2 DEF AloneInv, Down, Calm
<1>11. PmuInv' /\ WakeInv' /\ ContextInv' /\ RamInv'
  BY <1>1, <1>2 DEF PmuInv, WakeInv, UpSteps, OnSteps, ContextInv, RamInv
<1> QED
  BY <1>3, <1>4, <1>5, <1>6, <1>7, <1>8, <1>9, <1>10, <1>11 DEF IInv

LEMMA pm_client_suspendStep ==
    ASSUME IInv, NEW c \in Cores, pm_client_suspend(c)
    PROVE  IInv'
<1>1. /\ TypeOK /\ PhaseInv /\ PmuInv /\ AffInv /\ CallInv /\ ContextInv /\ ClientInv
      /\ RequestInv /\ ClusterInv /\ WakeInv /\ AloneInv /\ RamInv
  BY DEF IInv
<1>2. /\ pc[c] \in {"off_write", "sus_write"}
      /\ ram' = ram \/ (ram' = c /\ pc[c] = "sus_write" /\ pd_lock = c)
      /\ \A d \in Cores :
            /\ pc'[d] = IF d = c
                        THEN IF pc[c] = "off_write" THEN "off_ipi" ELSE "sus_ipi"
                        ELSE pc[d]
            /\ val'[d] = IF d = c THEN {} ELSE val[d]
      /\ client_lock' = None
      /\ PWRCTL' = val[c] \cup {c}
      /\ UNCHANGED <<serial, tgt, cpu, unflushed, node, pd_lock, cpu_lock, suspend_mode,
                     pmu, cpuif, ttc2, coherent, resumed>>
  BY <1>1
  DEF TypeOK, pm_client_suspend, ToRam, WakeupSources, Goto, psciVars, pmVars, gicVars
<1>3. TypeOK'
  BY <1>1
  DEF TypeOK, pm_client_suspend, ToRam, WakeupSources, Goto, psciVars, pmVars, gicVars,
      Steps, OnSteps, OffSteps, SusSteps, BootSteps
<1>4. PhaseInv'
  BY <1>1, <1>2 DEF PhaseInv, UpSteps, OnSteps, OffSteps, SuspendSteps, ResumeSteps
<1>5. AffInv'
  BY <1>1, <1>2 DEF AffInv, Off
<1>6. CallInv'
  BY <1>1, <1>2, NoTarget DEF AffInv, Off, OnSteps
<1>7. ClientInv'
  BY <1>1, <1>2, NoCore DEF ClientInv, WriteSteps
<1>8. RequestInv'
  BY <1>1, <1>2
  DEF RequestInv, UpSteps, OnSteps, ClientInv, WriteSteps, CallInv, TargetInv, TypeOK
<1>9. ClusterInv'
  BY <1>1, <1>2
  DEF ClusterInv, Holding, UpSteps, OnSteps, OffSteps, SuspendSteps, ResumeSteps
<1>10. WakeInv'
  BY <1>1, <1>2
  DEF WakeInv, UpSteps, OnSteps, ClusterInv, Holding, OffSteps, SuspendSteps, ResumeSteps
<1>11. AloneInv'
  BY <1>1, <1>2 DEF AloneInv, Down, Calm
<1>12. PmuInv' /\ ContextInv' /\ RamInv'
  BY <1>1, <1>2 DEF PmuInv, ContextInv, RamInv
<1> QED
  BY <1>3, <1>4, <1>5, <1>6, <1>7, <1>8, <1>9, <1>10, <1>11, <1>12 DEF IInv

LEMMA pm_set_suspend_modeStep ==
    ASSUME IInv, NEW c \in Cores, pm_set_suspend_mode(c)
    PROVE  IInv'
<1>1. /\ TypeOK /\ PhaseInv /\ PmuInv /\ AffInv /\ CallInv /\ ContextInv /\ ClientInv
      /\ RequestInv /\ ClusterInv /\ WakeInv /\ AloneInv /\ RamInv
  BY DEF IInv
<1>2. /\ pc[c] = "ns"
      /\ UNCHANGED <<serial, pc, tgt, cpu, unflushed, node, pd_lock, cpu_lock, PWRCTL,
                     client_lock, val, pmu, ram, sources, cpuif, ttc2, coherent, resumed>>
  BY <1>1 DEF TypeOK, pm_set_suspend_mode, Goto, psciVars, pmVars, gicVars
<1>3. TypeOK'
  BY <1>1
  DEF TypeOK, pm_set_suspend_mode, Goto, psciVars, pmVars, gicVars, Steps, OnSteps,
      OffSteps, SusSteps, BootSteps
<1>4. PhaseInv'
  BY <1>1, <1>2 DEF PhaseInv, UpSteps, OnSteps, OffSteps, SuspendSteps, ResumeSteps
<1>5. AffInv'
  BY <1>1, <1>2 DEF AffInv, Off
<1>6. CallInv'
  BY <1>1, <1>2, NoTarget DEF AffInv, Off, OnSteps
<1>7. ClusterInv'
  BY <1>1, <1>2
  DEF ClusterInv, Holding, UpSteps, OnSteps, OffSteps, SuspendSteps, ResumeSteps
<1>8. AloneInv'
  BY <1>1, <1>2 DEF AloneInv, Down, Calm
<1>9. PmuInv' /\ ClientInv' /\ RequestInv' /\ WakeInv' /\ ContextInv' /\ RamInv'
  BY <1>1, <1>2
  DEF PmuInv, ClientInv, WriteSteps, RequestInv, UpSteps, OnSteps, WakeInv, ContextInv,
      RamInv
<1> QED
  BY <1>3, <1>4, <1>5, <1>6, <1>7, <1>8, <1>9 DEF IInv

-----------------------------------------------------------------------------
(* CPU_OFF.                                                                  *)
LEMMA CpuOffStep ==
    ASSUME IInv, NEW c \in Cores, CpuOff(c)
    PROVE  IInv'
<1>1. /\ TypeOK /\ PhaseInv /\ PmuInv /\ AffInv /\ CallInv /\ ContextInv /\ ClientInv
      /\ RequestInv /\ ClusterInv /\ WakeInv /\ AloneInv /\ RamInv
  BY DEF IInv
<1>2. /\ pc[c] = "ns" /\ Permitted /\ pd_lock = None
      /\ \A d \in Cores :
            /\ pc'[d] = IF d = c THEN "off_read" ELSE pc[d]
            /\ cpu'[d].local = IF d = c THEN "OFF" ELSE cpu[d].local
            /\ cpu'[d].req = IF d = c THEN "OFF" ELSE cpu[d].req
            /\ cpu'[d].optee = IF d = c THEN "OFF" ELSE cpu[d].optee
            /\ cpu'[d].aff = cpu[d].aff /\ cpu'[d].lvl = cpu[d].lvl
      /\ pd_lock' = c
      /\ node' = Coordinated(c)
      /\ cpuif' = cpuif \ {c}
      /\ UNCHANGED <<serial, tgt, unflushed, cpu_lock, PWRCTL, client_lock, val,
                     suspend_mode, pmu, ram, sources, ttc2, coherent, resumed>>
  BY <1>1 DEF TypeOK, CpuOff, Goto, psciVars, pmVars, gicVars, CpuData
<1>3. /\ cpu \in [Cores -> CpuData]
      /\ cpu' = [cpu EXCEPT ![c].optee = "OFF", ![c].req = "OFF", ![c].local = "OFF"]
  BY <1>1 DEF TypeOK, CpuOff
<1>4. \A d \in Cores : cpu'[d].ctx = cpu[d].ctx
  BY <1>3 DEF CpuData
<1>5. cpu' \in [Cores -> CpuData]
  <2> DEFINE r == [cpu[c] EXCEPT !.optee = "OFF", !.req = "OFF", !.local = "OFF"]
  <2>1. cpu' = [cpu EXCEPT ![c] = r]
    BY <1>3
  <2>2. cpu[c] \in CpuData
    BY <1>3
  <2>3. r \in CpuData
    BY <2>2 DEF CpuData
  <2> HIDE DEF r
  <2> QED
    BY <1>3, <2>1, <2>3
<1>6. TypeOK'
  BY <1>1, <1>5
  DEF TypeOK, CpuOff, Goto, psciVars, pmVars, gicVars, Steps, OnSteps, OffSteps, SusSteps,
      BootSteps, Coordinated
<1>7. PhaseInv'
  BY <1>1, <1>2 DEF PhaseInv, UpSteps, OnSteps, OffSteps, SuspendSteps, ResumeSteps
<1>8. AffInv'
  BY <1>1, <1>2 DEF AffInv, Off
<1>9. CallInv'
  BY <1>1, <1>2, NoTarget DEF AffInv, Off, OnSteps
<1>10. ClusterInv'
  BY <1>1, <1>2, NoCore
  DEF ClusterInv, Holding, UpSteps, OnSteps, OffSteps, SuspendSteps, ResumeSteps,
      Coordinated, PhaseInv
<1>11. AloneInv'
  BY <1>1, <1>2
  DEF AloneInv, Down, Calm, Permitted, PhaseInv, UpSteps, OnSteps, OffSteps, SuspendSteps,
      ResumeSteps
<1>12. PmuInv' /\ ClientInv' /\ RequestInv' /\ WakeInv' /\ ContextInv' /\ RamInv'
  BY <1>1, <1>2, <1>4
  DEF PmuInv, ClientInv, WriteSteps, RequestInv, UpSteps, OnSteps, WakeInv, ContextInv,
      RamInv
<1> QED
  BY <1>6, <1>7, <1>8, <1>9, <1>10, <1>11, <1>12 DEF IInv

LEMMA OffIpiStep ==
    ASSUME IInv, NEW c \in Cores, OffIpi(c)
    PROVE  IInv'
<1>1. /\ TypeOK /\ PhaseInv /\ PmuInv /\ AffInv /\ CallInv /\ ContextInv /\ ClientInv
      /\ RequestInv /\ ClusterInv /\ WakeInv /\ AloneInv /\ RamInv
  BY DEF IInv
<1>2. /\ pc[c] = "off_ipi"
      /\ \A d \in Cores :
            /\ pc'[d] = IF d = c THEN "off_aff" ELSE pc[d]
            /\ pmu'[d] = IF d = c THEN "SUSPENDING" ELSE pmu[d]
      /\ pd_lock' = None
      /\ UNCHANGED <<serial, tgt, cpu, unflushed, node, cpu_lock, PWRCTL, client_lock, val,
                     suspend_mode, ram, sources, cpuif, ttc2, coherent, resumed>>
  BY <1>1 DEF TypeOK, OffIpi, Goto, psciVars, pmVars, gicVars
<1>3. TypeOK'
  BY <1>1
  DEF TypeOK, OffIpi, Goto, psciVars, pmVars, gicVars, Steps, OnSteps, OffSteps, SusSteps,
      BootSteps
<1>4. PhaseInv'
  BY <1>1, <1>2 DEF PhaseInv, UpSteps, OnSteps, OffSteps, SuspendSteps, ResumeSteps
<1>5. AffInv'
  BY <1>1, <1>2 DEF AffInv, Off
<1>6. CallInv'
  BY <1>1, <1>2, NoTarget DEF AffInv, Off, OnSteps
<1>7. ClusterInv'
  BY <1>1, <1>2, NoCore
  DEF ClusterInv, Holding, UpSteps, OnSteps, OffSteps, SuspendSteps, ResumeSteps
<1>8. AloneInv'
  BY <1>1, <1>2
  DEF AloneInv, Down, Calm, PhaseInv, UpSteps, OnSteps, OffSteps, SuspendSteps, ResumeSteps
<1>9. PmuInv' /\ ClientInv' /\ RequestInv' /\ WakeInv' /\ ContextInv' /\ RamInv'
  BY <1>1, <1>2
  DEF PmuInv, ClientInv, WriteSteps, RequestInv, UpSteps, OnSteps, WakeInv, ContextInv,
      RamInv
<1> QED
  BY <1>3, <1>4, <1>5, <1>6, <1>7, <1>8, <1>9 DEF IInv

LEMMA OffAffStep ==
    ASSUME IInv, NEW c \in Cores, OffAff(c)
    PROVE  IInv'
<1>1. /\ TypeOK /\ PhaseInv /\ PmuInv /\ AffInv /\ CallInv /\ ContextInv /\ ClientInv
      /\ RequestInv /\ ClusterInv /\ WakeInv /\ AloneInv /\ RamInv
  BY DEF IInv
<1>2. /\ pc[c] = "off_aff"
      /\ \A d \in Cores :
            /\ pc'[d] = IF d = c THEN "off_inv" ELSE pc[d]
            /\ cpu'[d].aff = IF d = c THEN "OFF" ELSE cpu[d].aff
            /\ cpu'[d].local = cpu[d].local /\ cpu'[d].req = cpu[d].req /\ cpu'[d].lvl = cpu[d].lvl
            /\ cpu'[d].optee = cpu[d].optee
      /\ UNCHANGED <<serial, tgt, unflushed, node, pd_lock, cpu_lock, PWRCTL, client_lock,
                     val, suspend_mode, pmu, ram, sources, cpuif, ttc2, coherent, resumed>>
  BY <1>1 DEF TypeOK, OffAff, Goto, psciVars, pmVars, gicVars, CpuData
<1>3. /\ cpu \in [Cores -> CpuData]
      /\ cpu' = [cpu EXCEPT ![c].aff = "OFF"]
  BY <1>1 DEF TypeOK, OffAff
<1>4. \A d \in Cores : cpu'[d].ctx = cpu[d].ctx
  BY <1>3 DEF CpuData
<1>5. cpu' \in [Cores -> CpuData]
  <2>2. \A d \in Cores : cpu'[d] \in CpuData
    BY <1>3 DEF CpuData, Aff
  <2> QED
    BY <1>3, <2>2
<1>6. TypeOK'
  BY <1>1, <1>5
  DEF TypeOK, OffAff, Goto, psciVars, pmVars, gicVars, Steps, OnSteps, OffSteps, SusSteps,
      BootSteps
<1>7. PhaseInv'
  BY <1>1, <1>2 DEF PhaseInv, UpSteps, OnSteps, OffSteps, SuspendSteps, ResumeSteps
<1>8. AffInv'
  BY <1>1, <1>2
  DEF AffInv, Off, PhaseInv, UpSteps, OnSteps, OffSteps, SuspendSteps, ResumeSteps
<1>9. CallInv'
  BY <1>1, <1>2, NoTarget DEF AffInv, Off, OnSteps
<1>10. ClusterInv'
  BY <1>1, <1>2
  DEF ClusterInv, Holding, UpSteps, OnSteps, OffSteps, SuspendSteps, ResumeSteps
<1>11. AloneInv'
  BY <1>1, <1>2 DEF AloneInv, Down, Calm
<1>12. PmuInv' /\ ClientInv' /\ RequestInv' /\ WakeInv' /\ ContextInv' /\ RamInv'
  BY <1>1, <1>2, <1>4
  DEF PmuInv, ClientInv, WriteSteps, RequestInv, UpSteps, OnSteps, WakeInv, ContextInv,
      RamInv
<1> QED
  BY <1>6, <1>7, <1>8, <1>9, <1>10, <1>11, <1>12 DEF IInv

(* The invalidation loses or writes back what a CPU_ON has in its cache.     *)
LEMMA OffInvStep ==
    ASSUME IInv, NEW c \in Cores, OffInv(c)
    PROVE  IInv'
<1>1. /\ TypeOK /\ PhaseInv /\ PmuInv /\ AffInv /\ CallInv /\ ContextInv /\ ClientInv
      /\ RequestInv /\ ClusterInv /\ WakeInv /\ AloneInv /\ RamInv
  BY DEF IInv
<1>2. /\ pc[c] = "off_inv"
      /\ cpu'[c].aff \in {cpu[c].aff, AffState(c)}
      /\ \A d \in Cores :
            /\ pc'[d] = IF d = c THEN "wfi" ELSE pc[d]
            /\ unflushed'[d] = IF d = c THEN "none" ELSE unflushed[d]
            /\ cpu'[d].aff = IF d = c THEN cpu'[c].aff ELSE cpu[d].aff
            /\ cpu'[d].local = cpu[d].local /\ cpu'[d].req = cpu[d].req /\ cpu'[d].lvl = cpu[d].lvl
            /\ cpu'[d].optee = cpu[d].optee
      /\ UNCHANGED <<serial, tgt, node, pd_lock, cpu_lock, PWRCTL, client_lock, val,
                     suspend_mode, pmu, ram, sources, cpuif, ttc2, coherent, resumed>>
  BY <1>1 DEF TypeOK, OffInv, Goto, psciVars, pmVars, gicVars, CpuData
<1>3. \A d \in Cores : cpu'[d].ctx = cpu[d].ctx
  BY <1>1 DEF TypeOK, OffInv, Goto, psciVars, pmVars, gicVars, CpuData
<1>4. cpu' \in [Cores -> CpuData]
  <2>1. cpu \in [Cores -> CpuData] /\ AffState(c) \in Aff
    BY <1>1 DEF TypeOK, AffState, CpuData, Aff
  <2>2. cpu' = cpu \/ cpu' = [cpu EXCEPT ![c].aff = AffState(c)]
    BY DEF OffInv
  <2> QED
    BY <2>1, <2>2 DEF CpuData
<1>5. TypeOK'
  BY <1>1, <1>4
  DEF TypeOK, OffInv, Goto, psciVars, pmVars, gicVars, Steps, OnSteps, OffSteps, SusSteps,
      BootSteps
<1>6. PhaseInv'
  BY <1>1, <1>2 DEF PhaseInv, UpSteps, OnSteps, OffSteps, SuspendSteps, ResumeSteps
<1>7. AffInv'
  BY <1>1, <1>2
  DEF AffInv, Off, AffState, TypeOK, PhaseInv, UpSteps, OnSteps, OffSteps, SuspendSteps,
      ResumeSteps
<1>8. CallInv'
  <2>1. ASSUME NEW e \in Cores, pc'[e] \in OnSteps PROVE TargetInv(e, tgt[e])'
    <3>1. CASE e = c
      BY <1>1, <1>2, <2>1, <3>1 DEF TargetInv, Off, OnSteps
    <3>2. CASE e # c
      <4>1. pc[e] \in OnSteps /\ pc'[e] = pc[e] /\ tgt'[e] = tgt[e]
        BY <1>2, <2>1, <3>2 DEF OnSteps
      <4>2. tgt[e] \in Cores /\ TargetInv(e, tgt[e]) /\ tgt[e] # e
        BY <4>1, Targets
      <4> QED
        BY <1>1, <1>2, <3>2, <4>1, <4>2 DEF TargetInv, Off, AffState
    <3> QED BY <3>1, <3>2
  <2>2. ASSUME NEW e \in Cores, NEW u \in Cores, cpu_lock'[u] = e
        PROVE  pc'[e] \in OnSteps /\ tgt'[e] = u
    BY <1>1, <1>2, <2>2 DEF CallInv, OnSteps
  <2> QED BY <2>1, <2>2 DEF CallInv
<1>9. ClusterInv'
  BY <1>1, <1>2
  DEF ClusterInv, Holding, UpSteps, OnSteps, OffSteps, SuspendSteps, ResumeSteps
<1>10. AloneInv'
  BY <1>1, <1>2
  DEF AloneInv, Down, Calm, AffInv, Off, AffState, PhaseInv, UpSteps, OnSteps, OffSteps,
      SuspendSteps, ResumeSteps
<1>11. PmuInv' /\ ClientInv' /\ RequestInv' /\ WakeInv' /\ ContextInv' /\ RamInv'
  BY <1>1, <1>2, <1>3
  DEF PmuInv, ClientInv, WriteSteps, RequestInv, UpSteps, OnSteps, WakeInv, ContextInv,
      RamInv
<1> QED
  BY <1>5, <1>6, <1>7, <1>8, <1>9, <1>10, <1>11 DEF IInv

-----------------------------------------------------------------------------
(* CPU_SUSPEND and SYSTEM_SUSPEND.                                           *)
LEMMA CpuSuspendStep ==
    ASSUME IInv, NEW c \in Cores, CpuSuspend(c)
    PROVE  IInv'
<1>1. /\ TypeOK /\ PhaseInv /\ PmuInv /\ AffInv /\ CallInv /\ ContextInv /\ ClientInv
      /\ RequestInv /\ ClusterInv /\ WakeInv /\ AloneInv /\ RamInv
  BY DEF IInv
<1>2. /\ pc[c] = "ns"
      /\ \A d \in Cores :
            /\ pc'[d] = IF d = c THEN "sus_read" ELSE pc[d]
            /\ cpu'[d].local = IF d = c THEN "OFF" ELSE cpu[d].local
            /\ cpu'[d].lvl = IF d = c THEN "cpu" ELSE cpu[d].lvl
            /\ cpu'[d].optee = IF d = c THEN "SUSPEND" ELSE cpu[d].optee
            /\ cpu'[d].aff = cpu[d].aff /\ cpu'[d].req = cpu[d].req
      /\ UNCHANGED <<serial, tgt, unflushed, node, pd_lock, cpu_lock, PWRCTL, client_lock,
                     val, suspend_mode, pmu, ram, sources, cpuif, ttc2, coherent, resumed>>
  BY <1>1 DEF TypeOK, CpuSuspend, Goto, psciVars, pmVars, gicVars, CpuData
<1>3. /\ cpu \in [Cores -> CpuData]
      /\ cpu' = [cpu EXCEPT ![c].local = "OFF", ![c].lvl = "cpu", ![c].optee = "SUSPEND",
                               ![c].ctx = TRUE]
  BY <1>1 DEF TypeOK, CpuSuspend
<1>4. \A d \in Cores : cpu'[d].ctx = IF d = c THEN TRUE ELSE cpu[d].ctx
  BY <1>3 DEF CpuData
<1>5. cpu' \in [Cores -> CpuData]
  <2> DEFINE r == [cpu[c] EXCEPT !.local = "OFF", !.lvl = "cpu", !.optee = "SUSPEND",
                                !.ctx = TRUE]
  <2>1. cpu' = [cpu EXCEPT ![c] = r]
    BY <1>3
  <2>2. cpu[c] \in CpuData
    BY <1>3
  <2>3. r \in CpuData
    BY <2>2 DEF CpuData
  <2> HIDE DEF r
  <2> QED
    BY <1>3, <2>1, <2>3
<1>6. TypeOK'
  BY <1>1, <1>5
  DEF TypeOK, CpuSuspend, Goto, psciVars, pmVars, gicVars, Steps, OnSteps, OffSteps,
      SusSteps, BootSteps
<1>7. PhaseInv'
  BY <1>1, <1>2 DEF PhaseInv, UpSteps, OnSteps, OffSteps, SuspendSteps, ResumeSteps
<1>8. AffInv'
  BY <1>1, <1>2 DEF AffInv, Off
<1>9. CallInv'
  BY <1>1, <1>2, NoTarget DEF AffInv, Off, OnSteps
<1>10. ContextInv'
  BY <1>1, <1>2, <1>4 DEF ContextInv
<1>11. ClusterInv'
  BY <1>1, <1>2
  DEF ClusterInv, Holding, UpSteps, OnSteps, OffSteps, SuspendSteps, ResumeSteps
<1>12. AloneInv'
  BY <1>1, <1>2 DEF AloneInv, Down, Calm
<1>13. RamInv'
  BY <1>1, <1>2 DEF RamInv, PhaseInv, UpSteps, OnSteps, OffSteps, SuspendSteps, ResumeSteps
<1>14. PmuInv' /\ ClientInv' /\ RequestInv' /\ WakeInv'
  BY <1>1, <1>2 DEF PmuInv, ClientInv, WriteSteps, RequestInv, UpSteps, OnSteps, WakeInv
<1> QED
  BY <1>6, <1>7, <1>8, <1>9, <1>10, <1>11, <1>12, <1>13, <1>14 DEF IInv

(* With hotplug serialised, every other core is down or only idles.          *)
LEMMA SystemSuspendStep ==
    ASSUME IInv, NEW c \in Cores, SystemSuspend(c)
    PROVE  IInv'
<1>1. /\ TypeOK /\ PhaseInv /\ PmuInv /\ AffInv /\ CallInv /\ ContextInv /\ ClientInv
      /\ RequestInv /\ ClusterInv /\ WakeInv /\ AloneInv /\ RamInv
  BY DEF IInv
<1>2. /\ pc[c] = "ns" /\ Permitted
      /\ \A d \in Cores :
            /\ pc'[d] = IF d = c THEN "last" ELSE pc[d]
            /\ tgt'[d] = IF d = c THEN 0 ELSE tgt[d]
      /\ UNCHANGED <<serial, cpu, unflushed, node, pd_lock, cpu_lock, PWRCTL, client_lock,
                     val, suspend_mode, pmu, ram, sources, cpuif, ttc2, coherent, resumed>>
  BY <1>1 DEF TypeOK, SystemSuspend, Goto, psciVars, pmVars, gicVars
<1>3. TypeOK'
  <2>1. 0 \in Cores
    BY PowerAssumption DEF Cores
  <2> QED
    BY <1>1, <2>1 DEF TypeOK, SystemSuspend, Goto, psciVars, pmVars, gicVars, Steps, SusSteps
<1>4. PhaseInv'
  BY <1>1, <1>2 DEF PhaseInv, UpSteps, OnSteps, OffSteps, SuspendSteps, ResumeSteps
<1>5. AffInv'
  BY <1>1, <1>2 DEF AffInv, Off
<1>6. CallInv'
  BY <1>1, <1>2, NoTarget DEF AffInv, Off, OnSteps
<1>7. ClusterInv'
  BY <1>1, <1>2
  DEF ClusterInv, Holding, UpSteps, OnSteps, OffSteps, SuspendSteps, ResumeSteps
<1>8. AloneInv'
  <2>1. ASSUME serial, NEW d \in Cores, d # c PROVE Calm(d)
    <3>1. /\ pc[d] \in {"ns", "off_inv", "wfi", "spin", "down"} /\ AffState(d) # "ON_PENDING"
          /\ \A e \in Cores : pc[e] \notin OnSteps
      BY <1>2, <2>1 DEF Permitted, OnSteps
    <3>2. cpu_lock[d] = None
      BY <1>1, <3>1 DEF TypeOK, CallInv
    <3>3. cpu[d].lvl # "system"
      BY <1>1, <1>2, <2>1 DEF AloneInv, Down
    <3>4. cpu[d] \in CpuData
      BY <1>1 DEF TypeOK
    <3>5. CASE cpu[d].optee = "OFF" /\ pc[d] # "ns"
      BY <1>1, <3>1, <3>2, <3>4, <3>5
      DEF PhaseInv, AffInv, Off, AffState, Calm, Down, CpuData, Aff
    <3>6. CASE cpu[d].optee # "OFF" /\ pc[d] # "ns"
      BY <1>1, <3>1, <3>3, <3>4, <3>6 DEF PhaseInv, OffSteps, Calm, CpuData
    <3> QED BY <3>5, <3>6 DEF Calm
  <2>2. \A d \in Cores : ~(d < 0)
    BY PowerAssumption DEF Cores
  <2>3. serial => cpu[c].lvl # "system" /\ pc[c] # "sus"
    BY <1>1, <1>2 DEF PhaseInv, UpSteps
  <2>4. serial => \A d \in Cores : pc[d] # "last" /\ pc[d] # "sus"
    BY <1>2 DEF Permitted
  <2> QED
    BY <1>1, <1>2, <2>1, <2>2, <2>3, <2>4 DEF AloneInv, Calm, Down
<1>9. PmuInv' /\ ClientInv' /\ RequestInv' /\ WakeInv' /\ ContextInv' /\ RamInv'
  BY <1>1, <1>2
  DEF PmuInv, ClientInv, WriteSteps, RequestInv, UpSteps, OnSteps, WakeInv, ContextInv,
      RamInv
<1> QED
  BY <1>3, <1>4, <1>5, <1>6, <1>7, <1>8, <1>9 DEF IInv

(* A core seen OFF stays off behind the loop, a core seen idle ends it.      *)
LEMMA LastOnCpuStep ==
    ASSUME IInv, NEW c \in Cores, LastOnCpu(c)
    PROVE  IInv'
<1>1. /\ TypeOK /\ PhaseInv /\ PmuInv /\ AffInv /\ CallInv /\ ContextInv /\ ClientInv
      /\ RequestInv /\ ClusterInv /\ WakeInv /\ AloneInv /\ RamInv
  BY DEF IInv
<1>2. /\ pc[c] = "last"
      /\ pc'[c] = IF tgt[c] # c /\ AffState(tgt[c]) # "OFF" THEN "ns"
                   ELSE IF tgt[c] = NumCores - 1 THEN "sus" ELSE "last"
      /\ \A d \in Cores :
            /\ pc'[d] = IF d = c THEN pc'[c] ELSE pc[d]
            /\ tgt'[d] = IF d = c THEN (IF pc'[c] = "last" THEN tgt[d] + 1 ELSE c) ELSE tgt[d]
      /\ UNCHANGED <<serial, cpu, unflushed, node, pd_lock, cpu_lock, PWRCTL, client_lock,
                     val, suspend_mode, pmu, ram, sources, cpuif, ttc2, coherent, resumed>>
  BY <1>1 DEF TypeOK, LastOnCpu, Goto, psciVars, pmVars, gicVars
<1>3. TypeOK'
  <2>0. tgt[c] \in Cores /\ (pc'[c] = "last" => tgt[c] # NumCores - 1)
    BY <1>1, <1>2 DEF TypeOK
  <2>1. pc'[c] = "last" => tgt[c] + 1 \in Cores
    BY <2>0, PowerAssumption DEF Cores
  <2>2. tgt' \in [Cores -> Cores]
    BY <1>1, <2>1 DEF TypeOK, LastOnCpu
  <2>3. pc' \in [Cores -> Steps]
    BY <1>1 DEF TypeOK, LastOnCpu, Goto, Steps, SusSteps
  <2> QED
    BY <1>1, <1>2, <2>2, <2>3 DEF TypeOK
<1>4. PhaseInv'
  BY <1>1, <1>2 DEF PhaseInv, UpSteps, OnSteps, OffSteps, SuspendSteps, ResumeSteps
<1>5. AffInv'
  BY <1>1, <1>2 DEF AffInv, Off
<1>6. CallInv'
  BY <1>1, <1>2, NoTarget DEF AffInv, Off, OnSteps
<1>7. ClusterInv'
  BY <1>1, <1>2
  DEF ClusterInv, Holding, UpSteps, OnSteps, OffSteps, SuspendSteps, ResumeSteps
<1>8. AloneInv'
  <2> SUFFICES ASSUME serial PROVE AloneInv'
    BY <1>2 DEF AloneInv
  <2>1. \A d \in Cores : Down(d) <=> Down(d)'
    BY <1>2 DEF Down
  <2>2. \A d \in Cores : Calm(d) => Calm(d)' \/ d = c
    BY <1>2, <2>1 DEF Calm
  <2>3. \A d \in Cores \ {c} : Calm(d) /\ (d < tgt[c] => Down(d))
    BY <1>1, <1>2 DEF AloneInv
  <2>4. cpu[c].lvl = "invalid"
    BY <1>1, <1>2 DEF PhaseInv, UpSteps
  <2>5. \A d \in Cores \ {c} : cpu[d].lvl # "system" /\ pc[d] # "last" /\ pc[d] # "sus"
    BY <1>1, <1>2, <2>3, <2>4 DEF AloneInv, Down, Calm, PhaseInv, UpSteps
  <2>6. tgt[c] # c /\ AffState(tgt[c]) = "OFF" => Down(tgt[c])
    <3>1. SUFFICES ASSUME tgt[c] # c, AffState(tgt[c]) = "OFF" PROVE Down(tgt[c])
      OBVIOUS
    <3>2. tgt[c] \in Cores
      BY <1>1 DEF TypeOK
    <3>3. Calm(tgt[c])
      BY <2>3, <3>1, <3>2
    <3> QED
      BY <1>1, <3>1, <3>2, <3>3
      DEF Calm, AffInv, Off, AffState, PhaseInv, ClusterInv, Holding, UpSteps
  <2>0. tgt[c] \in Cores
    BY <1>1 DEF TypeOK
  <2>7. pc'[c] # "ns" => \A d \in Cores \ {c} : d < tgt[c] + 1 => Down(d)
    <3>1. \A d \in Cores : d < tgt[c] + 1 => d < tgt[c] \/ d = tgt[c]
      BY <2>0, PowerAssumption DEF Cores
    <3>2. pc'[c] # "ns" => tgt[c] = c \/ AffState(tgt[c]) = "OFF"
      BY <1>2
    <3> QED
      BY <2>3, <2>6, <3>1, <3>2
  <2>8. pc'[c] = "sus" => \A d \in Cores \ {c} : Down(d)
    <3>1. tgt[c] = NumCores - 1 => \A d \in Cores : d < tgt[c] + 1
      BY <2>0, PowerAssumption DEF Cores
    <3>2. pc'[c] = "sus" => tgt[c] = NumCores - 1
      BY <1>2
    <3> QED
      BY <2>7, <3>1, <3>2
  <2> QED
    BY <1>2, <2>1, <2>2, <2>3, <2>4, <2>5, <2>7, <2>8 DEF AloneInv
<1>9. PmuInv' /\ ClientInv' /\ RequestInv' /\ WakeInv' /\ ContextInv' /\ RamInv'
  BY <1>1, <1>2
  DEF PmuInv, ClientInv, WriteSteps, RequestInv, UpSteps, OnSteps, WakeInv, ContextInv,
      RamInv
<1> QED
  BY <1>3, <1>4, <1>5, <1>6, <1>7, <1>8, <1>9 DEF IInv

(* All others being down, they have asked for OFF: the cluster goes too.     *)
LEMMA SuspendBeginsStep ==
    ASSUME IInv, NEW c \in Cores, SuspendStart(c), pc'[c] = "sus_read"
    PROVE  IInv'
<1>1. /\ TypeOK /\ PhaseInv /\ PmuInv /\ AffInv /\ CallInv /\ ContextInv /\ ClientInv
      /\ RequestInv /\ ClusterInv /\ WakeInv /\ AloneInv /\ RamInv
  BY DEF IInv
<1>2. /\ pc[c] = "sus" /\ pd_lock = None
      /\ \A d \in Cores :
            /\ pc'[d] = IF d = c THEN "sus_read" ELSE pc[d]
            /\ cpu'[d].local = IF d = c THEN "OFF" ELSE cpu[d].local
            /\ cpu'[d].req = IF d = c THEN "OFF" ELSE cpu[d].req
            /\ cpu'[d].lvl = IF d = c THEN "system" ELSE cpu[d].lvl
            /\ cpu'[d].optee = IF d = c THEN "SUSPEND" ELSE cpu[d].optee
            /\ cpu'[d].aff = cpu[d].aff
      /\ pd_lock' = c
      /\ node' = Coordinated(c)
      /\ UNCHANGED <<serial, tgt, unflushed, cpu_lock, PWRCTL, client_lock, val,
                     suspend_mode, pmu, ram, sources, cpuif, ttc2, coherent, resumed>>
  BY <1>1 DEF TypeOK, SuspendStart, Goto, psciVars, pmVars, gicVars, CpuData
<1>3. /\ cpu \in [Cores -> CpuData]
      /\ cpu' = [cpu EXCEPT ![c].req = "OFF", ![c].local = "OFF", ![c].lvl = "system",
                               ![c].optee = "SUSPEND", ![c].ctx = TRUE]
  BY <1>1, <1>2 DEF TypeOK, SuspendStart, Goto
<1>4. \A d \in Cores : cpu'[d].ctx = IF d = c THEN TRUE ELSE cpu[d].ctx
  BY <1>3 DEF CpuData
<1>5. cpu' \in [Cores -> CpuData]
  <2> DEFINE r == [cpu[c] EXCEPT !.req = "OFF", !.local = "OFF", !.lvl = "system",
                                !.optee = "SUSPEND", !.ctx = TRUE]
  <2>1. cpu' = [cpu EXCEPT ![c] = r]
    BY <1>3
  <2>2. cpu[c] \in CpuData
    BY <1>3
  <2>3. r \in CpuData
    BY <2>2 DEF CpuData
  <2> HIDE DEF r
  <2> QED
    BY <1>3, <2>1, <2>3
<1>6. TypeOK'
  BY <1>1, <1>5
  DEF TypeOK, SuspendStart, Goto, psciVars, pmVars, gicVars, Steps, OnSteps, OffSteps,
      SusSteps, BootSteps, Coordinated
<1>7. PhaseInv'
  BY <1>1, <1>2 DEF PhaseInv, UpSteps, OnSteps, OffSteps, SuspendSteps, ResumeSteps
<1>8. AffInv'
  BY <1>1, <1>2 DEF AffInv, Off
<1>9. CallInv'
  BY <1>1, <1>2, NoTarget DEF AffInv, Off, OnSteps
<1>10. ContextInv'
  BY <1>1, <1>2, <1>4 DEF ContextInv
<1>11. ClusterInv'
  BY <1>1, <1>2, NoCore
  DEF ClusterInv, Holding, UpSteps, OnSteps, OffSteps, SuspendSteps, ResumeSteps,
      Coordinated, PhaseInv
<1>12. AloneInv'
  BY <1>1, <1>2
  DEF AloneInv, Down, Calm, Coordinated, ClusterInv, Holding, PhaseInv, UpSteps, OnSteps,
      OffSteps, SuspendSteps, ResumeSteps
<1>13. PmuInv' /\ ClientInv' /\ RequestInv' /\ WakeInv' /\ RamInv'
  BY <1>1, <1>2
  DEF PmuInv, ClientInv, WriteSteps, RequestInv, UpSteps, OnSteps, WakeInv, RamInv
<1> QED
  BY <1>6, <1>7, <1>8, <1>9, <1>10, <1>11, <1>12, <1>13 DEF IInv

LEMMA SuspendReturnsStep ==
    ASSUME IInv, NEW c \in Cores, SuspendStart(c), pc'[c] # "sus_read"
    PROVE  IInv'
<1>1. /\ TypeOK /\ PhaseInv /\ PmuInv /\ AffInv /\ CallInv /\ ContextInv /\ ClientInv
      /\ RequestInv /\ ClusterInv /\ WakeInv /\ AloneInv /\ RamInv
  BY DEF IInv
<1>2. /\ pc[c] = "sus"
      /\ \A d \in Cores :
            /\ pc'[d] = IF d = c THEN "ns" ELSE pc[d]
      /\ UNCHANGED <<serial, tgt, cpu, unflushed, node, pd_lock, cpu_lock, PWRCTL,
                     client_lock, val, suspend_mode, pmu, ram, sources, cpuif, ttc2,
                     coherent, resumed>>
  BY <1>1 DEF TypeOK, SuspendStart, Goto, psciVars, pmVars, gicVars
<1>3. TypeOK'
  BY <1>1
  DEF TypeOK, SuspendStart, Goto, psciVars, pmVars, gicVars, Steps, OnSteps, OffSteps,
      SusSteps, BootSteps
<1>4. PhaseInv'
  BY <1>1, <1>2 DEF PhaseInv, UpSteps, OnSteps, OffSteps, SuspendSteps, ResumeSteps
<1>5. AffInv'
  BY <1>1, <1>2 DEF AffInv, Off
<1>6. CallInv'
  BY <1>1, <1>2, NoTarget DEF AffInv, Off, OnSteps
<1>7. ClusterInv'
  BY <1>1, <1>2
  DEF ClusterInv, Holding, UpSteps, OnSteps, OffSteps, SuspendSteps, ResumeSteps
<1>8. AloneInv'
  BY <1>1, <1>2 DEF AloneInv, Down, Calm
<1>9. PmuInv' /\ ClientInv' /\ RequestInv' /\ WakeInv' /\ ContextInv' /\ RamInv'
  BY <1>1, <1>2
  DEF PmuInv, ClientInv, WriteSteps, RequestInv, UpSteps, OnSteps, WakeInv, ContextInv,
      RamInv
<1> QED
  BY <1>3, <1>4, <1>5, <1>6, <1>7, <1>8, <1>9 DEF IInv

LEMMA SuspendIpiStep ==
    ASSUME IInv, NEW c \in Cores, SuspendIpi(c)
    PROVE  IInv'
<1>1. /\ TypeOK /\ PhaseInv /\ PmuInv /\ AffInv /\ CallInv /\ ContextInv /\ ClientInv
      /\ RequestInv /\ ClusterInv /\ WakeInv /\ AloneInv /\ RamInv
  BY DEF IInv
<1>2. /\ pc[c] = "sus_ipi"
      /\ coherent' = coherent \/ pd_lock = c
      /\ \A d \in Cores :
            /\ pc'[d] = IF d = c THEN "wfi" ELSE pc[d]
            /\ pmu'[d] = IF d = c THEN "SUSPENDING" ELSE pmu[d]
      /\ pd_lock' = IF pd_lock = c THEN None ELSE pd_lock
      /\ UNCHANGED <<serial, tgt, cpu, unflushed, node, cpu_lock, PWRCTL, client_lock, val,
                     suspend_mode, ram, sources, cpuif, ttc2, resumed>>
  BY <1>1 DEF TypeOK, SuspendIpi, ToRam, Goto, psciVars, pmVars, gicVars
<1>3. TypeOK'
  BY <1>1
  DEF TypeOK, SuspendIpi, ToRam, Goto, psciVars, pmVars, gicVars, Steps, OnSteps, OffSteps,
      SusSteps, BootSteps
<1>4. PhaseInv'
  BY <1>1, <1>2 DEF PhaseInv, UpSteps, OnSteps, OffSteps, SuspendSteps, ResumeSteps
<1>5. AffInv'
  BY <1>1, <1>2
  DEF AffInv, Off, PhaseInv, UpSteps, OnSteps, OffSteps, SuspendSteps, ResumeSteps
<1>6. CallInv'
  BY <1>1, <1>2, NoTarget DEF AffInv, Off, OnSteps
<1>7. ClusterInv'
  BY <1>1, <1>2, NoCore
  DEF ClusterInv, Holding, UpSteps, OnSteps, OffSteps, SuspendSteps, ResumeSteps
<1>8. AloneInv'
  BY <1>1, <1>2, NoCore DEF AloneInv, Down, Calm
<1>9. RamInv'
  BY <1>1, <1>2
  DEF RamInv, ClusterInv, Holding, UpSteps, OnSteps, OffSteps, SuspendSteps, ResumeSteps
<1>10. PmuInv' /\ ClientInv' /\ RequestInv' /\ WakeInv' /\ ContextInv'
  BY <1>1, <1>2
  DEF PmuInv, ClientInv, WriteSteps, RequestInv, UpSteps, OnSteps, WakeInv, ContextInv
<1> QED
  BY <1>3, <1>4, <1>5, <1>6, <1>7, <1>8, <1>9, <1>10 DEF IInv

-----------------------------------------------------------------------------
(* The PMU and the hardware.                                                 *)
LEMMA PowerDownStep ==
    ASSUME IInv, NEW c \in Cores, PowerDown(c)
    PROVE  IInv'
<1>1. /\ TypeOK /\ PhaseInv /\ PmuInv /\ AffInv /\ CallInv /\ ContextInv /\ ClientInv
      /\ RequestInv /\ ClusterInv /\ WakeInv /\ AloneInv /\ RamInv
  BY DEF IInv
<1>2. /\ pc[c] = "wfi"
      /\ \A d \in Cores :
            /\ pc'[d] = IF d = c THEN "down" ELSE pc[d]
            /\ pmu'[d] = IF d = c THEN "SLEEP" ELSE pmu[d]
      /\ UNCHANGED <<serial, tgt, cpu, unflushed, node, pd_lock, cpu_lock, PWRCTL,
                     client_lock, val, suspend_mode, ram, sources, cpuif, ttc2, coherent,
                     resumed>>
  BY <1>1 DEF TypeOK, PowerDown, Goto, psciVars, pmVars, gicVars
<1>3. TypeOK'
  BY <1>1
  DEF TypeOK, PowerDown, Goto, psciVars, pmVars, gicVars, Steps, OnSteps, OffSteps,
      SusSteps, BootSteps
<1>4. PhaseInv'
  BY <1>1, <1>2 DEF PhaseInv, UpSteps, OnSteps, OffSteps, SuspendSteps, ResumeSteps
<1>5. AffInv'
  BY <1>1, <1>2 DEF AffInv, Off
<1>6. CallInv'
  <2>1. ASSUME NEW e \in Cores, pc'[e] \in OnSteps PROVE TargetInv(e, tgt[e])'
    <3>1. CASE e = c
      BY <1>1, <1>2, <2>1, <3>1 DEF TargetInv, Off, OnSteps
    <3>2. CASE e # c
      <4>1. pc[e] \in OnSteps /\ pc'[e] = pc[e] /\ tgt'[e] = tgt[e]
        BY <1>2, <2>1, <3>2 DEF OnSteps
      <4>2. tgt[e] \in Cores /\ TargetInv(e, tgt[e]) /\ tgt[e] # e
        BY <4>1, Targets
      <4> QED
        BY <1>1, <1>2, <3>2, <4>1, <4>2 DEF TargetInv, Off
    <3> QED BY <3>1, <3>2
  <2>2. ASSUME NEW e \in Cores, NEW u \in Cores, cpu_lock'[u] = e
        PROVE  pc'[e] \in OnSteps /\ tgt'[e] = u
    BY <1>1, <1>2, <2>2 DEF CallInv, OnSteps
  <2> QED BY <2>1, <2>2 DEF CallInv
<1>7. ClusterInv'
  BY <1>1, <1>2
  DEF ClusterInv, Holding, UpSteps, OnSteps, OffSteps, SuspendSteps, ResumeSteps
<1>8. AloneInv'
  BY <1>1, <1>2 DEF AloneInv, Down, Calm
<1>9. PmuInv' /\ ClientInv' /\ RequestInv' /\ WakeInv' /\ ContextInv' /\ RamInv'
  BY <1>1, <1>2
  DEF PmuInv, ClientInv, WriteSteps, RequestInv, UpSteps, OnSteps, WakeInv, ContextInv,
      RamInv
<1> QED
  BY <1>3, <1>4, <1>5, <1>6, <1>7, <1>8, <1>9 DEF IInv

(* Only the CPU interface of a suspended core is on, a core that is off stays *)
(* in wfi.                                                                   *)
LEMMA WfiReturnsStep ==
    ASSUME IInv, NEW c \in Cores, WfiReturns(c)
    PROVE  IInv'
<1>1. /\ TypeOK /\ PhaseInv /\ PmuInv /\ AffInv /\ CallInv /\ ContextInv /\ ClientInv
      /\ RequestInv /\ ClusterInv /\ WakeInv /\ AloneInv /\ RamInv
  BY DEF IInv
<1>2. /\ pc[c] = "wfi" /\ cpu[c].optee = "SUSPEND"
      /\ \A d \in Cores :
            /\ pc'[d] = IF d = c THEN "spin" ELSE pc[d]
      /\ UNCHANGED <<serial, tgt, cpu, unflushed, node, pd_lock, cpu_lock, PWRCTL,
                     client_lock, val, suspend_mode, pmu, ram, sources, cpuif, ttc2,
                     coherent, resumed>>
  BY <1>1
  DEF TypeOK, WfiReturns, Goto, psciVars, pmVars, gicVars, PhaseInv, WakeInv, CpuData
<1>3. TypeOK'
  BY <1>1
  DEF TypeOK, WfiReturns, Goto, psciVars, pmVars, gicVars, Steps, OnSteps, OffSteps,
      SusSteps, BootSteps
<1>4. PhaseInv'
  BY <1>1, <1>2 DEF PhaseInv, UpSteps, OnSteps, OffSteps, SuspendSteps, ResumeSteps
<1>5. AffInv'
  BY <1>1, <1>2 DEF AffInv, Off
<1>6. CallInv'
  BY <1>1, <1>2, NoTarget DEF AffInv, Off, OnSteps
<1>7. ClusterInv'
  BY <1>1, <1>2
  DEF ClusterInv, Holding, UpSteps, OnSteps, OffSteps, SuspendSteps, ResumeSteps
<1>8. AloneInv'
  BY <1>1, <1>2 DEF AloneInv, Down, Calm
<1>9. PmuInv' /\ ClientInv' /\ RequestInv' /\ WakeInv' /\ ContextInv' /\ RamInv'
  BY <1>1, <1>2
  DEF PmuInv, ClientInv, WriteSteps, RequestInv, UpSteps, OnSteps, WakeInv, ContextInv,
      RamInv
<1> QED
  BY <1>3, <1>4, <1>5, <1>6, <1>7, <1>8, <1>9 DEF IInv

LEMMA InterruptTakenStep ==
    ASSUME IInv, NEW c \in Cores, InterruptTaken(c)
    PROVE  IInv'
<1>1. /\ TypeOK /\ PhaseInv /\ PmuInv /\ AffInv /\ CallInv /\ ContextInv /\ ClientInv
      /\ RequestInv /\ ClusterInv /\ WakeInv /\ AloneInv /\ RamInv
  BY DEF IInv
<1>2. /\ pc[c] = "spin" /\ cpu[c].optee = "SUSPEND"
      /\ \A d \in Cores :
            /\ pc'[d] = IF d = c THEN "wfi" ELSE pc[d]
      /\ UNCHANGED <<serial, tgt, cpu, unflushed, node, pd_lock, cpu_lock, PWRCTL,
                     client_lock, val, suspend_mode, pmu, ram, sources, cpuif, ttc2,
                     coherent, resumed>>
  BY <1>1 DEF TypeOK, InterruptTaken, Goto, psciVars, pmVars, gicVars, PhaseInv, CpuData
<1>3. TypeOK'
  BY <1>1
  DEF TypeOK, InterruptTaken, Goto, psciVars, pmVars, gicVars, Steps, OnSteps, OffSteps,
      SusSteps, BootSteps
<1>4. PhaseInv'
  BY <1>1, <1>2 DEF PhaseInv, UpSteps, OnSteps, OffSteps, SuspendSteps, ResumeSteps
<1>5. AffInv'
  BY <1>1, <1>2 DEF AffInv, Off
<1>6. CallInv'
  BY <1>1, <1>2, NoTarget DEF AffInv, Off, OnSteps
<1>7. ClusterInv'
  BY <1>1, <1>2
  DEF ClusterInv, Holding, UpSteps, OnSteps, OffSteps, SuspendSteps, ResumeSteps
<1>8. AloneInv'
  BY <1>1, <1>2 DEF AloneInv, Down, Calm
<1>9. PmuInv' /\ ClientInv' /\ RequestInv' /\ WakeInv' /\ ContextInv' /\ RamInv'
  BY <1>1, <1>2
  DEF PmuInv, ClientInv, WriteSteps, RequestInv, UpSteps, OnSteps, WakeInv, ContextInv,
      RamInv
<1> QED
  BY <1>3, <1>4, <1>5, <1>6, <1>7, <1>8, <1>9 DEF IInv

LEMMA ApuDownStep ==
    ASSUME IInv, ApuDown
    PROVE  IInv'
<1>1. /\ TypeOK /\ PhaseInv /\ PmuInv /\ AffInv /\ CallInv /\ ContextInv /\ ClientInv
      /\ RequestInv /\ ClusterInv /\ WakeInv /\ AloneInv /\ RamInv
  BY DEF IInv
<1>2. /\ ram # None /\ \A c \in Cores : pmu[c] \in {"SLEEP", "FORCEDOFF"}
      /\ cpuif' = {}
      /\ UNCHANGED <<serial, pc, tgt, cpu, unflushed, node, pd_lock, cpu_lock, PWRCTL,
                     client_lock, val, suspend_mode, pmu, ram, sources, coherent, resumed>>
  BY <1>1 DEF TypeOK, ApuDown, Goto, psciVars, pmVars, gicVars
<1>3. TypeOK'
  BY <1>1
  DEF TypeOK, ApuDown, Goto, psciVars, pmVars, gicVars, Steps, OnSteps, OffSteps, SusSteps,
      BootSteps, SpiState
<1>4. PhaseInv'
  BY <1>1, <1>2 DEF PhaseInv, UpSteps, OnSteps, OffSteps, SuspendSteps, ResumeSteps
<1>5. AffInv'
  BY <1>1, <1>2 DEF AffInv, Off
<1>6. CallInv'
  BY <1>1, <1>2 DEF CallInv, TargetInv, Off, OnSteps
<1>7. ClusterInv'
  BY <1>1, <1>2
  DEF ClusterInv, Holding, UpSteps, OnSteps, OffSteps, SuspendSteps, ResumeSteps
<1>8. WakeInv'
  BY <1>1, <1>2 DEF WakeInv, UpSteps, OnSteps, PmuInv
<1>9. AloneInv'
  BY <1>1, <1>2 DEF AloneInv, Down, Calm
<1>10. RamInv'
  BY <1>1, <1>2 DEF RamInv, WakeInv, TypeOK
<1>11. PmuInv' /\ ClientInv' /\ RequestInv' /\ ContextInv'
  BY <1>1, <1>2 DEF PmuInv, ClientInv, WriteSteps, RequestInv, UpSteps, OnSteps, ContextInv
<1> QED
  BY <1>3, <1>4, <1>5, <1>6, <1>7, <1>8, <1>9, <1>10, <1>11 DEF IInv

(* Only a suspended core has its CPU interface on, or is suspended to RAM.   *)
LEMMA WakeStep ==
    ASSUME IInv, NEW c \in Cores, WakeByHeartbeat(c) \/ WakeByOther(c)
    PROVE  IInv'
<1>1. /\ TypeOK /\ PhaseInv /\ PmuInv /\ AffInv /\ CallInv /\ ContextInv /\ ClientInv
      /\ RequestInv /\ ClusterInv /\ WakeInv /\ AloneInv /\ RamInv
  BY DEF IInv
<1>2. /\ pc[c] = "down" /\ cpu[c].optee = "SUSPEND"
      /\ ram' = IF ram = c THEN None ELSE ram
      /\ \A d \in Cores :
            /\ pc'[d] = IF d = c THEN "warm" ELSE pc[d]
            /\ pmu'[d] = IF d = c THEN "ACTIVE" ELSE pmu[d]
      /\ UNCHANGED <<serial, tgt, cpu, unflushed, node, pd_lock, cpu_lock, PWRCTL,
                     client_lock, val, suspend_mode, cpuif, ttc2, coherent, resumed>>
  <2>1. Wake(c)
    BY DEF WakeByHeartbeat, WakeByOther
  <2>2. pc[c] = "down" /\ cpu[c] \in CpuData
    BY <1>1, <2>1 DEF Wake, TypeOK
  <2>3. cpu[c].optee = "SUSPEND"
    BY <1>1, <2>2 DEF WakeByHeartbeat, WakeByOther, PhaseInv, WakeInv, CpuData
  <2> QED
    BY <1>1, <2>1, <2>2, <2>3 DEF TypeOK, Wake, Goto, psciVars, pmVars, gicVars
<1>3. TypeOK'
  <2>1. ram' \in Cores \cup {None} /\ sources' \in SUBSET {"TTC2", "LINUX", "EXTERN"}
    BY <1>1 DEF TypeOK, Wake, WakeByHeartbeat, WakeByOther
  <2>2. /\ pc' \in [Cores -> Steps]
        /\ pmu' \in [Cores -> {"ACTIVE", "SUSPENDING", "SLEEP", "FORCEDOFF"}]
    BY <1>1 DEF TypeOK, Wake, WakeByHeartbeat, WakeByOther, Goto, Steps, BootSteps
  <2> QED
    BY <1>1, <1>2, <2>1, <2>2 DEF TypeOK
<1>4. PhaseInv'
  BY <1>1, <1>2 DEF PhaseInv, UpSteps, OnSteps, OffSteps, SuspendSteps, ResumeSteps
<1>5. AffInv'
  BY <1>1, <1>2 DEF AffInv, Off
<1>6. CallInv'
  BY <1>1, <1>2, NoTarget DEF AffInv, Off, OnSteps
<1>7. ClusterInv'
  BY <1>1, <1>2
  DEF ClusterInv, Holding, UpSteps, OnSteps, OffSteps, SuspendSteps, ResumeSteps
<1>8. WakeInv'
  BY <1>1, <1>2, NoCore DEF WakeInv, UpSteps, OnSteps, PhaseInv
<1>9. AloneInv'
  BY <1>1, <1>2 DEF AloneInv, Down, Calm
<1>10. PmuInv' /\ ClientInv' /\ RequestInv' /\ ContextInv' /\ RamInv'
  BY <1>1, <1>2
  DEF PmuInv, ClientInv, WriteSteps, RequestInv, UpSteps, OnSteps, ContextInv, RamInv
<1> QED
  BY <1>3, <1>4, <1>5, <1>6, <1>7, <1>8, <1>9, <1>10 DEF IInv

-----------------------------------------------------------------------------
(* Warm boot.  A core that was turned on is ON_PENDING, a suspended one ON.  *)
LEMMA WarmBootStep ==
    ASSUME IInv, NEW c \in Cores, WarmBoot(c)
    PROVE  IInv'
<1>1. /\ TypeOK /\ PhaseInv /\ PmuInv /\ AffInv /\ CallInv /\ ContextInv /\ ClientInv
      /\ RequestInv /\ ClusterInv /\ WakeInv /\ AloneInv /\ RamInv
  BY DEF IInv
<1>2. /\ pc[c] = "warm" /\ cpu[c].optee \in {"OFF", "SUSPEND"}
      /\ cpu[c].lvl \in {"cpu", "system", "invalid"} /\ (cpu[c].lvl # "cpu" => pd_lock = None)
      /\ \A d \in Cores :
            /\ pc'[d] = IF d = c
                        THEN IF cpu[c].optee = "OFF" THEN "on_fin" ELSE "fin_read"
                        ELSE pc[d]
      /\ pd_lock' = IF cpu[c].lvl = "cpu" THEN pd_lock ELSE c
      /\ UNCHANGED <<serial, tgt, cpu, unflushed, node, cpu_lock, PWRCTL, client_lock, val,
                     suspend_mode, pmu, ram, sources, cpuif, ttc2, coherent, resumed>>
  BY <1>1
  DEF TypeOK, WarmBoot, Goto, psciVars, pmVars, gicVars, PhaseInv, UpSteps, OnSteps,
      OffSteps, SuspendSteps, ResumeSteps, AffInv, Off, AffState, CpuData
<1>3. TypeOK'
  BY <1>1
  DEF TypeOK, WarmBoot, Goto, psciVars, pmVars, gicVars, Steps, OnSteps, OffSteps, SusSteps,
      BootSteps, PhaseInv, UpSteps, SuspendSteps, ResumeSteps, AffInv, Off, AffState
<1>4. PhaseInv'
  BY <1>1, <1>2 DEF PhaseInv, UpSteps, OnSteps, OffSteps, SuspendSteps, ResumeSteps
<1>5. AffInv'
  BY <1>1, <1>2 DEF AffInv, Off
<1>6. CallInv'
  <2>1. ASSUME NEW e \in Cores, pc'[e] \in OnSteps PROVE TargetInv(e, tgt[e])'
    <3>1. CASE e = c
      BY <1>1, <1>2, <2>1, <3>1 DEF TargetInv, Off, OnSteps
    <3>2. CASE e # c
      <4>1. pc[e] \in OnSteps /\ pc'[e] = pc[e] /\ tgt'[e] = tgt[e]
        BY <1>2, <2>1, <3>2 DEF OnSteps
      <4>2. tgt[e] \in Cores /\ TargetInv(e, tgt[e]) /\ tgt[e] # e
        BY <4>1, Targets
      <4> QED
        BY <1>1, <1>2, <3>2, <4>1, <4>2 DEF TargetInv, Off
    <3> QED BY <3>1, <3>2
  <2>2. ASSUME NEW e \in Cores, NEW u \in Cores, cpu_lock'[u] = e
        PROVE  pc'[e] \in OnSteps /\ tgt'[e] = u
    BY <1>1, <1>2, <2>2 DEF CallInv, OnSteps
  <2> QED BY <2>1, <2>2 DEF CallInv
<1>7. ClusterInv'
  BY <1>1, <1>2, NoCore
  DEF ClusterInv, Holding, UpSteps, OnSteps, OffSteps, SuspendSteps, ResumeSteps, PhaseInv
<1>8. AloneInv'
  BY <1>1, <1>2 DEF AloneInv, Down, Calm
<1>9. PmuInv' /\ ClientInv' /\ RequestInv' /\ WakeInv' /\ ContextInv' /\ RamInv'
  BY <1>1, <1>2
  DEF PmuInv, ClientInv, WriteSteps, RequestInv, UpSteps, OnSteps, WakeInv, ContextInv,
      RamInv
<1> QED
  BY <1>3, <1>4, <1>5, <1>6, <1>7, <1>8, <1>9 DEF IInv

LEMMA OnFinishStep ==
    ASSUME IInv, NEW c \in Cores, OnFinish(c)
    PROVE  IInv'
<1>1. /\ TypeOK /\ PhaseInv /\ PmuInv /\ AffInv /\ CallInv /\ ContextInv /\ ClientInv
      /\ RequestInv /\ ClusterInv /\ WakeInv /\ AloneInv /\ RamInv
  BY DEF IInv
<1>2. /\ pc[c] = "on_fin" /\ cpu_lock[c] = None
      /\ \A d \in Cores :
            /\ pc'[d] = IF d = c THEN "run" ELSE pc[d]
            /\ cpu'[d].optee = IF d = c THEN "ON" ELSE cpu[d].optee
            /\ cpu'[d].aff = cpu[d].aff /\ cpu'[d].local = cpu[d].local /\ cpu'[d].req = cpu[d].req
            /\ cpu'[d].lvl = cpu[d].lvl
      /\ cpuif' = cpuif \cup {c}
      /\ UNCHANGED <<serial, tgt, unflushed, node, pd_lock, cpu_lock, PWRCTL, client_lock,
                     val, suspend_mode, pmu, ram, sources, ttc2, coherent, resumed>>
  BY <1>1 DEF TypeOK, OnFinish, Goto, psciVars, pmVars, gicVars, CpuData
<1>3. /\ cpu \in [Cores -> CpuData]
      /\ cpu' = [cpu EXCEPT ![c].optee = "ON"]
  BY <1>1 DEF TypeOK, OnFinish
<1>4. \A d \in Cores : cpu'[d].ctx = cpu[d].ctx
  BY <1>3 DEF CpuData
<1>5. cpu' \in [Cores -> CpuData]
  <2>2. \A d \in Cores : cpu'[d] \in CpuData
    BY <1>3 DEF CpuData
  <2> QED
    BY <1>3, <2>2
<1>6. TypeOK'
  BY <1>1, <1>5
  DEF TypeOK, OnFinish, Goto, psciVars, pmVars, gicVars, Steps, OnSteps, OffSteps, SusSteps,
      BootSteps
<1>7. PhaseInv'
  BY <1>1, <1>2 DEF PhaseInv, UpSteps, OnSteps, OffSteps, SuspendSteps, ResumeSteps
<1>8. AffInv'
  BY <1>1, <1>2 DEF AffInv, Off
<1>9. CallInv'
  <2>1. ASSUME NEW e \in Cores, pc'[e] \in OnSteps PROVE TargetInv(e, tgt[e])'
    <3>1. CASE e = c
      BY <1>1, <1>2, <2>1, <3>1 DEF TargetInv, Off, OnSteps
    <3>2. CASE e # c
      <4>1. pc[e] \in OnSteps /\ pc'[e] = pc[e] /\ tgt'[e] = tgt[e]
        BY <1>2, <2>1, <3>2 DEF OnSteps
      <4>2. tgt[e] \in Cores /\ TargetInv(e, tgt[e]) /\ tgt[e] # e
        BY <4>1, Targets
      <4> QED
        BY <1>1, <1>2, <3>2, <4>1, <4>2, NoCore DEF TargetInv, Off
    <3> QED BY <3>1, <3>2
  <2>2. ASSUME NEW e \in Cores, NEW u \in Cores, cpu_lock'[u] = e
        PROVE  pc'[e] \in OnSteps /\ tgt'[e] = u
    BY <1>1, <1>2, <2>2 DEF CallInv, OnSteps
  <2> QED BY <2>1, <2>2 DEF CallInv
<1>10. ClusterInv'
  BY <1>1, <1>2
  DEF ClusterInv, Holding, UpSteps, OnSteps, OffSteps, SuspendSteps, ResumeSteps
<1>11. AloneInv'
  BY <1>1, <1>2 DEF AloneInv, Down, Calm
<1>12. PmuInv' /\ ClientInv' /\ RequestInv' /\ WakeInv' /\ ContextInv' /\ RamInv'
  BY <1>1, <1>2, <1>4
  DEF PmuInv, ClientInv, WriteSteps, RequestInv, UpSteps, OnSteps, WakeInv, ContextInv,
      RamInv
<1> QED
  BY <1>6, <1>7, <1>8, <1>9, <1>10, <1>11, <1>12 DEF IInv

(* After a suspend at the system level the GIC is initialised again.         *)
LEMMA SuspendFinishStep ==
    ASSUME IInv, NEW c \in Cores, SuspendFinish(c)
    PROVE  IInv'
<1>1. /\ TypeOK /\ PhaseInv /\ PmuInv /\ AffInv /\ CallInv /\ ContextInv /\ ClientInv
      /\ RequestInv /\ ClusterInv /\ WakeInv /\ AloneInv /\ RamInv
  BY DEF IInv
<1>2. /\ pc[c] = "fin_gic"
      /\ IF pd_lock = c /\ node = "OFF" THEN resumed' = TRUE ELSE UNCHANGED <<ttc2, resumed>>
      /\ \A d \in Cores :
            /\ pc'[d] = IF d = c THEN "run" ELSE pc[d]
            /\ cpu'[d].lvl = IF d = c THEN "invalid" ELSE cpu[d].lvl
            /\ cpu'[d].optee = IF d = c THEN "ON" ELSE cpu[d].optee
            /\ cpu'[d].aff = cpu[d].aff /\ cpu'[d].local = cpu[d].local /\ cpu'[d].req = cpu[d].req
      /\ cpuif' = cpuif \cup {c}
      /\ coherent' = TRUE
      /\ UNCHANGED <<serial, tgt, unflushed, node, pd_lock, cpu_lock, PWRCTL, client_lock,
                     val, suspend_mode, pmu, ram, sources>>
  BY <1>1
  DEF TypeOK, SuspendFinish, ToRam, plat_arm_gic_init, Goto, psciVars, pmVars, gicVars,
      CpuData
<1>3. /\ cpu \in [Cores -> CpuData]
      /\ cpu' = [cpu EXCEPT ![c].optee = "ON", ![c].lvl = "invalid"]
  BY <1>1 DEF TypeOK, SuspendFinish, ToRam, plat_arm_gic_init
<1>4. \A d \in Cores : cpu'[d].ctx = cpu[d].ctx
  BY <1>3 DEF CpuData
<1>5. cpu' \in [Cores -> CpuData]
  <2>2. \A d \in Cores : cpu'[d] \in CpuData
    BY <1>3 DEF CpuData
  <2> QED
    BY <1>3, <2>2
<1>6. TypeOK'
  <2>1. ttc2' \in SpiState
    BY <1>1 DEF TypeOK, SuspendFinish, ToRam, plat_arm_gic_init, SpiState
  <2>2. cpuif' \in SUBSET Cores /\ pc' \in [Cores -> Steps]
    BY <1>1, <1>2 DEF TypeOK, SuspendFinish, Goto, Steps, BootSteps
  <2>3. coherent' \in BOOLEAN /\ resumed' \in BOOLEAN
    BY <1>1 DEF TypeOK, SuspendFinish, ToRam, plat_arm_gic_init
  <2> QED
    BY <1>1, <1>2, <1>5, <2>1, <2>2, <2>3 DEF TypeOK
<1>7. PhaseInv'
  BY <1>1, <1>2 DEF PhaseInv, UpSteps, OnSteps, OffSteps, SuspendSteps, ResumeSteps
<1>8. AffInv'
  BY <1>1, <1>2 DEF AffInv, Off
<1>9. CallInv'
  BY <1>1, <1>2, NoTarget DEF AffInv, Off, OnSteps
<1>10. ContextInv'
  BY <1>1, <1>2, <1>4
  DEF ContextInv, PhaseInv, UpSteps, OnSteps, OffSteps, SuspendSteps, ResumeSteps
<1>11. ClusterInv'
  BY <1>1, <1>2
  DEF ClusterInv, Holding, UpSteps, OnSteps, OffSteps, SuspendSteps, ResumeSteps, PhaseInv,
      AffInv, Off, TypeOK, CpuData
<1>12. AloneInv'
  BY <1>1, <1>2
  DEF AloneInv, Down, Calm, ClusterInv, Holding, PhaseInv, UpSteps, OnSteps, OffSteps,
      SuspendSteps, ResumeSteps
<1>13. RamInv'
  BY <1>1, <1>2
  DEF RamInv, ClusterInv, Holding, AloneInv, PhaseInv, UpSteps, OnSteps, OffSteps,
      SuspendSteps, ResumeSteps
<1>14. PmuInv' /\ ClientInv' /\ RequestInv' /\ WakeInv'
  BY <1>1, <1>2 DEF PmuInv, ClientInv, WriteSteps, RequestInv, UpSteps, OnSteps, WakeInv
<1> QED
  BY <1>6, <1>7, <1>8, <1>9, <1>10, <1>11, <1>12, <1>13, <1>14 DEF IInv

LEMMA RunStep ==
    ASSUME IInv, NEW c \in Cores, Run(c)
    PROVE  IInv'
<1>1. /\ TypeOK /\ PhaseInv /\ PmuInv /\ AffInv /\ CallInv /\ ContextInv /\ ClientInv
      /\ RequestInv /\ ClusterInv /\ WakeInv /\ AloneInv /\ RamInv
  BY DEF IInv
<1>2. /\ pc[c] = "run"
      /\ \A d \in Cores :
            /\ pc'[d] = IF d = c THEN "ns" ELSE pc[d]
            /\ unflushed'[d] = IF d = c THEN "none" ELSE unflushed[d]
            /\ cpu'[d].aff = IF d = c THEN "ON" ELSE cpu[d].aff
            /\ cpu'[d].local = IF d = c THEN "RUN" ELSE cpu[d].local
            /\ cpu'[d].req = IF d = c
                             THEN IF pd_lock = c THEN "RUN" ELSE cpu[d].req
                             ELSE cpu[d].req
            /\ cpu'[d].lvl = cpu[d].lvl /\ cpu'[d].optee = cpu[d].optee
      /\ node' = IF pd_lock = c THEN "RUN" ELSE node
      /\ pd_lock' = IF pd_lock = c THEN None ELSE pd_lock
      /\ UNCHANGED <<serial, tgt, cpu_lock, PWRCTL, client_lock, val, suspend_mode, pmu,
                     ram, sources, cpuif, ttc2, coherent, resumed>>
  BY <1>1 DEF TypeOK, Run, Goto, psciVars, pmVars, gicVars, CpuData
<1>3. /\ cpu \in [Cores -> CpuData]
      /\ cpu' = [cpu EXCEPT ![c].aff = "ON", ![c].local = "RUN", ![c].ctx = FALSE,
                               ![c].req = IF pd_lock = c THEN "RUN" ELSE @]
  BY <1>1 DEF TypeOK, Run
<1>4. \A d \in Cores \ {c} : cpu'[d].ctx = cpu[d].ctx
  BY <1>3 DEF CpuData
<1>5. cpu' \in [Cores -> CpuData]
  <2> DEFINE q == IF pd_lock = c THEN "RUN" ELSE cpu[c].req
             r == [cpu[c] EXCEPT !.aff = "ON", !.local = "RUN", !.ctx = FALSE, !.req = q]
  <2>1. cpu' = [cpu EXCEPT ![c] = r]
    BY <1>3
  <2>2. cpu[c] \in CpuData
    BY <1>3
  <2>3. q \in {"RUN", "OFF"}
    BY <2>2 DEF CpuData
  <2> HIDE DEF q
  <2>4. r \in CpuData
    BY <2>2, <2>3 DEF CpuData, Aff
  <2> HIDE DEF r
  <2> QED
    BY <1>3, <2>1, <2>4
<1>6. TypeOK'
  BY <1>1, <1>5
  DEF TypeOK, Run, Goto, psciVars, pmVars, gicVars, Steps, OnSteps, OffSteps, SusSteps,
      BootSteps
<1>7. PhaseInv'
  BY <1>1, <1>2 DEF PhaseInv, UpSteps, OnSteps, OffSteps, SuspendSteps, ResumeSteps
<1>8. AffInv'
  BY <1>1, <1>2 DEF AffInv, Off
<1>9. CallInv'
  BY <1>1, <1>2, NoTarget DEF AffInv, Off, OnSteps, PhaseInv
<1>10. ContextInv'
  BY <1>1, <1>2, <1>4
  DEF ContextInv, PhaseInv, UpSteps, OnSteps, OffSteps, SuspendSteps, ResumeSteps
<1>11. ClusterInv'
  BY <1>1, <1>2, NoCore
  DEF ClusterInv, Holding, UpSteps, OnSteps, OffSteps, SuspendSteps, ResumeSteps, PhaseInv
<1>12. AloneInv'
  BY <1>1, <1>2
  DEF AloneInv, Down, Calm, PhaseInv, UpSteps, OnSteps, OffSteps, SuspendSteps, ResumeSteps
<1>13. PmuInv' /\ ClientInv' /\ RequestInv' /\ WakeInv' /\ RamInv'
  BY <1>1, <1>2
  DEF PmuInv, ClientInv, WriteSteps, RequestInv, UpSteps, OnSteps, WakeInv, RamInv
<1> QED
  BY <1>6, <1>7, <1>8, <1>9, <1>10, <1>11, <1>12, <1>13 DEF IInv

-----------------------------------------------------------------------------
(* After psci_setup the primary runs and every other core is down.           *)
LEMMA InitInv == Init => IInv
<1> SUFFICES ASSUME Init PROVE IInv
  OBVIOUS
<1>0. 0 \in Cores /\ None \notin Cores
  BY PowerAssumption, NoCore DEF Cores
<1>1. TypeOK
  <2>1. cpu \in [Cores -> CpuData]
    BY DEF Init, CpuData, Aff
  <2>2. ttc2 \in SpiState
    BY DEF Init, SpiState
  <2>3. pc \in [Cores -> Steps]
    BY DEF Init, Steps
  <2> QED
    BY <1>0, <2>1, <2>2, <2>3 DEF Init, TypeOK, Primary
<1>2. \A d \in Cores :
        /\ pc[d] = IF d = 0 THEN "ns" ELSE "down"
        /\ cpu[d].aff = IF d = 0 THEN "ON" ELSE "OFF"
        /\ cpu[d].req = IF d = 0 THEN "RUN" ELSE "OFF"
        /\ cpu[d].optee = IF d = 0 THEN "ON" ELSE "OFF"
        /\ cpu[d].lvl = "invalid"
        /\ cpu_lock[d] = None /\ unflushed[d] = "none"
        /\ pmu[d] = IF d = 0 THEN "ACTIVE" ELSE "FORCEDOFF"
  BY DEF Init, Primary
<1>3. /\ node = "RUN" /\ pd_lock = None /\ PWRCTL = {} /\ client_lock = None /\ ram = None
      /\ cpuif = {0} /\ coherent /\ ttc2 = [group |-> 0, targets |-> Cores, enabled |-> TRUE]
  BY DEF Init, Primary
<1>4. PhaseInv /\ PmuInv
  BY <1>2 DEF PhaseInv, PmuInv, UpSteps, OnSteps, OffSteps, SuspendSteps, ResumeSteps
<1>5. AffInv
  BY <1>2 DEF AffInv, Off
<1>6. CallInv
  BY <1>0, <1>2 DEF CallInv, OnSteps
<1>7. ContextInv
  BY <1>2 DEF ContextInv
<1>8. ClientInv /\ RequestInv
  BY <1>0, <1>2, <1>3 DEF ClientInv, RequestInv, WriteSteps
<1>9. ClusterInv
  BY <1>0, <1>2, <1>3
  DEF ClusterInv, Holding, UpSteps, OnSteps, SuspendSteps, ResumeSteps
<1>10. WakeInv
  BY <1>0, <1>2, <1>3 DEF WakeInv, UpSteps, OnSteps
<1>11. AloneInv
  BY <1>2 DEF AloneInv
<1>12. RamInv
  BY <1>3 DEF RamInv
<1> QED
  BY <1>1, <1>4, <1>5, <1>6, <1>7, <1>8, <1>9, <1>10, <1>11, <1>12 DEF IInv

(* A step that changes nothing.                                              *)
LEMMA StutterStep == IInv /\ UNCHANGED vars => IInv'
<1> SUFFICES ASSUME IInv, UNCHANGED vars PROVE IInv'
  OBVIOUS
<1> USE DEF vars, psciVars, pmVars, gicVars
<1>1. TypeOK' /\ PhaseInv' /\ PmuInv' /\ AffInv' /\ ContextInv' /\ ClientInv' /\ RequestInv'
  BY DEF IInv, TypeOK, PhaseInv, PmuInv, AffInv, Off, ContextInv, ClientInv, RequestInv
<1>2. CallInv'
  BY DEF IInv, CallInv, TargetInv, Off
<1>3. ClusterInv' /\ WakeInv' /\ AloneInv' /\ RamInv'
  BY DEF IInv, ClusterInv, Holding, WakeInv, AloneInv, Calm, Down, RamInv
<1> QED
  BY <1>1, <1>2, <1>3 DEF IInv

(* Every step of the specification.                                         *)
LEMMA InvStep == IInv /\ [Next]_vars => IInv'
<1> SUFFICES ASSUME IInv, [Next]_vars PROVE IInv'
  OBVIOUS
<1>1. CASE UNCHANGED vars
  BY <1>1, StutterStep
<1>2. CASE ApuDown
  BY <1>2, ApuDownStep
<1>3. ASSUME NEW c \in Cores, Smc(c) PROVE IInv'
  BY <1>3, CpuOnStep, CpuOffStep, CpuSuspendStep, SystemSuspendStep,
     pm_set_suspend_modeStep DEF Smc
<1>4. ASSUME NEW c \in Cores, El3(c) PROVE IInv'
  <2>1. CASE psci_cpu_on_start(c)
    BY <2>1, OnFlushStep, OnCheckStep, OnStatusStep, OnUndoStep, OnUnflushStep, OnWakeStep,
       OnContextStep DEF psci_cpu_on_start
  <2>2. CASE psci_do_cpu_off(c)
    BY <2>2, OffIpiStep, OffAffStep, OffInvStep DEF psci_do_cpu_off
  <2>3. CASE psci_cpu_suspend_start(c)
    BY <2>3, LastOnCpuStep, SuspendBeginsStep, SuspendReturnsStep, SuspendIpiStep
    DEF psci_cpu_suspend_start
  <2>4. CASE psci_warmboot_entrypoint(c)
    BY <2>4, WarmBootStep, OnFinishStep, SuspendFinishStep, RunStep
    DEF psci_warmboot_entrypoint
  <2>5. CASE ClientRead(c) \/ pm_client_wakeup(c) \/ pm_client_suspend(c)
    BY <2>5, ClientReadStep, pm_client_wakeupStep, pm_client_suspendStep
  <2> QED
    BY <1>4, <2>1, <2>2, <2>3, <2>4, <2>5 DEF El3
<1>5. ASSUME NEW c \in Cores, \/ PowerDown(c) \/ WfiReturns(c) \/ InterruptTaken(c)
                              \/ WakeByHeartbeat(c) \/ WakeByOther(c)
      PROVE  IInv'
  BY <1>5, PowerDownStep, WfiReturnsStep, InterruptTakenStep, WakeStep
<1> QED
  BY <1>1, <1>2, <1>3, <1>4, <1>5 DEF Next

(* The strengthening, which the theorems below draw on, holds always.        *)
THEOREM Inductive == Spec => []IInv
  BY InitInv, InvStep, PTL DEF Spec

-----------------------------------------------------------------------------
(* The types of CpuPower.                                                    *)
THEOREM TypeCorrect == Spec => []TypeOK
<1>1. IInv => TypeOK
  BY DEF IInv
<1> QED
  BY <1>1, Inductive, PTL

(* Whatever the interleaving of any number of cores, no panic is reached and *)
(* no assertion of lib/psci and opteed_pm.c about another core fails: one    *)
(* retry of ON_PENDING is enough, and nobody wakes up OFF.                   *)
THEOREM NoPanic == Spec => []AssertionsHold
<1>1. ASSUME IInv PROVE AssertionsHold
  <2>1. /\ TypeOK /\ PhaseInv /\ AffInv
    BY <1>1 DEF IInv
  <2> SUFFICES ASSUME NEW c \in Cores
               PROVE  /\ pc[c] # "panic"
                      /\ pc[c] \in {"on_status", "on_read", "on_write", "on_wake"} =>
                            AffState(tgt[c]) = "ON_PENDING"
                      /\ pc[c] = "on_fin" =>
                            AffState(c) = "ON_PENDING" /\ cpu[c].optee = "OFF"
                      /\ pc[c] \in {"fin_read", "fin_write", "fin_gic"} =>
                            /\ AffState(c) = "ON"
                            /\ cpu[c].local = "OFF"
                            /\ cpu[c].optee = "SUSPEND"
                      /\ pc[c] = "ns" => AffState(c) = "ON" /\ cpu[c].optee = "ON"
    BY DEF AssertionsHold
  <2>2. pc[c] # "panic"
    BY <2>1 DEF PhaseInv
  <2>3. pc[c] \in {"on_status", "on_read", "on_write", "on_wake"} =>
           AffState(tgt[c]) = "ON_PENDING"
    BY <1>1, Targets DEF OnSteps, TargetInv, AffState
  <2>4. pc[c] = "on_fin" => AffState(c) = "ON_PENDING" /\ cpu[c].optee = "OFF"
    BY <2>1 DEF PhaseInv, OffSteps, AffInv, Off, AffState
  <2>5. pc[c] \in {"fin_read", "fin_write", "fin_gic"} =>
           AffState(c) = "ON" /\ cpu[c].local = "OFF" /\ cpu[c].optee = "SUSPEND"
    BY <2>1 DEF PhaseInv, ResumeSteps, AffInv, Off, AffState
  <2>6. pc[c] = "ns" => AffState(c) = "ON" /\ cpu[c].optee = "ON"
    BY <2>1 DEF PhaseInv, UpSteps, AffInv, Off, AffState
  <2> QED
    BY <2>2, <2>3, <2>4, <2>5, <2>6
<1> QED
  BY <1>1, Inductive, PTL

(* A core leaves EL3 only with a context that its suspend saved or that the  *)
(* CPU_ON which woke it has prepared, under cpu_lock.                        *)
THEOREM LeavesWithContext == Spec => []ContextReady
<1>1. IInv => ContextReady
  BY DEF IInv, ContextInv, ContextReady
<1> QED
  BY <1>1, Inductive, PTL

(* The read-modify-writes of APU_PWRCTL in pm_client.c do not undo each      *)
(* other, for any number of cores.                                           *)
THEOREM RequestsStand == Spec => []RequestStands
<1>1. IInv => RequestStands
  BY DEF IInv, RequestInv, RequestStands, UpSteps
<1> QED
  BY <1>1, Inductive, PTL

(* The coordination under the node's lock never takes the cluster down under *)
(* a running core.                                                           *)
THEOREM ClusterStaysUp == Spec => []ClusterRuns
<1>1. ASSUME IInv PROVE ClusterRuns
  <2>1. TypeOK /\ ClusterInv
    BY <1>1 DEF IInv
  <2> QED
    BY <2>1 DEF TypeOK, ClusterInv, ClusterRuns, UpSteps
<1> QED
  BY <1>1, Inductive, PTL

(* With hotplug serialised as Linux does it, SYSTEM_SUSPEND is alone when it *)
(* takes the cluster out of the interconnect.                                *)
THEOREM CoherentRunning == Spec => []CoherentWhileRunning
<1>1. ASSUME IInv PROVE CoherentWhileRunning
  <2>1. PhaseInv /\ AloneInv /\ RamInv
    BY <1>1 DEF IInv
  <2>2. ASSUME serial, NEW c \in Cores, pc[c] = "ns" PROVE coherent
    <3>1. ASSUME NEW d \in Cores, cpu[d].lvl = "system" PROVE FALSE
      BY <2>1, <2>2, <3>1 DEF PhaseInv, AloneInv, Down, UpSteps
    <3> QED
      BY <2>1, <2>2, <3>1 DEF RamInv
  <2> QED
    BY <2>2 DEF CoherentWhileRunning
<1> QED
  BY <1>1, Inductive, PTL

(* The heartbeat's IRQ_TTC2_0 reaches EL3 on whichever core runs, through    *)
(* hotplug and idle, until the GIC is initialised again by a resume.         *)
THEOREM HeartbeatReaches == Spec => []HeartbeatUntilResume
<1>1. ASSUME IInv PROVE HeartbeatUntilResume
  <2>1. PhaseInv /\ AloneInv /\ RamInv /\ WakeInv
    BY <1>1 DEF IInv
  <2>2. ASSUME serial, ~resumed, NEW c \in Cores, pc[c] = "ns"
        PROVE  ttc2.group = 0 /\ ttc2.enabled /\ c \in ttc2.targets \cap cpuif
    <3>1. ASSUME NEW d \in Cores, cpu[d].lvl = "system" PROVE FALSE
      BY <2>1, <2>2, <3>1 DEF PhaseInv, AloneInv, Down, UpSteps
    <3>2. ttc2 = [group |-> 0, targets |-> Cores, enabled |-> TRUE]
      BY <2>1, <2>2, <3>1 DEF RamInv
    <3>3. c \in cpuif
      BY <2>1, <2>2 DEF WakeInv, UpSteps
    <3> QED
      BY <3>2, <3>3
  <2> QED
    BY <2>2 DEF HeartbeatUntilResume, HeartbeatRouted
<1> QED
  BY <1>1, Inductive, PTL
=============================================================================

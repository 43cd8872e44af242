---------------------------- MODULE TmrWdtProofs ----------------------------
(****************************************************************************)
(* Proofs about TmrWdt, for every default and every set of reload values    *)
(* above the kick period, and any number of upsets.                         *)
(****************************************************************************)
EXTENDS TmrWdt, TLAPS

(* The longest reload period, and the periods below it.                      *)
LEMMA Periods ==
    /\ MaxReload \in Nat
    /\ RELOAD_DEFAULT \in 1..MaxReload /\ RELOAD_DEFAULT > KickPeriod
    /\ \A r \in Reloads : r \in 0..MaxReload /\ (r = 0 \/ r > KickPeriod)
    /\ KickPeriod \in Nat
<1> DEFINE S == Reloads \cup {RELOAD_DEFAULT}
<1>1. S \subseteq Nat
  BY ReloadAssumption, PeriodAssumption
<1>2. \E m \in S : \A r \in S : r <= m
  BY PeriodAssumption
<1>3. MaxReload \in S /\ \A r \in S : r <= MaxReload
  BY <1>2, Zenon DEF MaxReload
<1> QED BY <1>1, <1>3, ReloadAssumption, PeriodAssumption

(* What Linux writes is a register's word, and to RELOAD a reload value.     *)
LEMMA Writes ==
    ASSUME NEW w \in LinuxWrites \cup {NoWrite}, w.addr # None
    PROVE  /\ w.addr \in RegNums /\ w.data \in Nat
           /\ w.addr = RELOAD => w.data \in Reloads
<1> USE DEF RegNums, None, CTRL, RELOAD, KICK
<1>1. ASSUME NEW r, NEW n, w = Word(r, n) PROVE w.addr = r /\ w.data = n
  BY <1>1 DEF Word
<1>2. CASE w \in {Word(CTRL, 0), Word(CTRL, 1)}
  BY <1>1, <1>2
<1>3. ASSUME NEW n \in Reloads, w = Word(RELOAD, n)
      PROVE  w.addr = RELOAD /\ w.data = n /\ n \in Nat
  BY <1>1, <1>3, PeriodAssumption
<1>4. ASSUME NEW n \in {3, 5, 6, 7}, w = Word(KICK, n)
      PROVE  w.addr = KICK /\ w.data = n /\ n \in Nat
  BY <1>1, <1>4
<1>5. w # NoWrite
  BY DEF NoWrite
<1> QED BY <1>2, <1>3, <1>4, <1>5 DEF LinuxWrites

(* The periods a dog can be given.                                           *)
LEMMA EffectiveReload ==
    ASSUME ReloadInv
    PROVE  reload_eff \in 1..MaxReload /\ reload_eff > KickPeriod
<1>1. slv_reg[RELOAD] \in 0..MaxReload
        /\ (slv_reg[RELOAD] = 0 \/ slv_reg[RELOAD] > KickPeriod)
  BY Periods DEF ReloadInv
<1> QED BY <1>1, Periods DEF reload_eff

LEMMA InvInit == Init => IInv
<1> SUFFICES ASSUME Init PROVE IInv
  OBVIOUS
<1> USE DEF RegNums, Dogs
<1>1. TypeOK
  BY Periods, PeriodAssumption DEF Init, CoreInit, TypeOK
<1>2. ReloadInv
  BY Periods DEF Init, CoreInit, ReloadInv, RELOAD
<1>3. CounterInv
  BY Periods DEF Init, CoreInit, CounterInv
<1>4. SingleFault
  BY Periods DEF Init, SingleFault
<1> QED BY <1>1, <1>2, <1>3, <1>4 DEF IInv

(* A cycle of the clock, whatever is written in it.                          *)
LEMMA ClockStep ==
    ASSUME IInv, NEW w \in LinuxWrites \cup {NoWrite}, ClockWith(w)
    PROVE  IInv'
<1>1. TypeOK /\ ReloadInv /\ CounterInv /\ SingleFault
  BY DEF IInv
<1>2. reload_eff \in 1..MaxReload /\ reload_eff > KickPeriod
  BY <1>1, EffectiveReload
<1>3. /\ counter' = [d \in Dogs |-> IF Reloaded(w, d) THEN reload_eff
                                    ELSE IF counter[d] = 0 THEN 0 ELSE counter[d] - 1]
      /\ silence' = [d \in Dogs |-> IF Reloaded(w, d) THEN 0
                                    ELSE IF silence[d] < MaxReload THEN silence[d] + 1
                                    ELSE MaxReload]
      /\ due' = [d \in Dogs |-> IF Reloaded(w, d) THEN reload_eff ELSE due[d]]
      /\ upset' = {d \in upset : ~Reloaded(w, d)}
      /\ UNCHANGED <<linux, upsets>>
      /\ linux = "up" => FedInTime(w)
  BY DEF ClockWith, Cycle, NextCounter, Reloaded
<1>4. slv_reg' \in [RegNums -> Nat] /\ slv_reg'[RELOAD] \in Reloads \cup {0}
  <2>1. /\ slv_reg' = IF w.addr # None /\ w.strb
                      THEN [slv_reg EXCEPT ![w.addr] = w.data] ELSE slv_reg
        /\ slv_reg \in [RegNums -> Nat] /\ slv_reg[RELOAD] \in Reloads \cup {0}
    BY <1>1 DEF ClockWith, Cycle, TypeOK, ReloadInv
  <2>2. CASE w.addr # None /\ w.strb
    <3>1. /\ w.addr \in RegNums /\ w.data \in Nat
          /\ w.addr = RELOAD => w.data \in Reloads
      BY <2>2, Writes
    <3> QED BY <2>1, <2>2, <3>1 DEF RegNums, RELOAD
  <2>3. CASE ~(w.addr # None /\ w.strb)
    BY <2>1, <2>3
  <2> QED BY <2>2, <2>3
<1> HIDE DEF Reloaded
<1>5. TypeOK'
  BY <1>1, <1>2, <1>3, <1>4, Periods DEF TypeOK
<1>6. ReloadInv'
  BY <1>1, <1>2, <1>3, <1>4 DEF ReloadInv
<1>7. CounterInv'
  <2> SUFFICES ASSUME NEW d \in Dogs, d \notin upset'
               PROVE  counter'[d] = IF silence'[d] < due'[d] THEN due'[d] - silence'[d] ELSE 0
    BY DEF CounterInv
  <2>1. CASE Reloaded(w, d)
    BY <1>2, <1>3, <2>1, Periods
  <2>2. CASE ~Reloaded(w, d)
    <3>1. counter[d] = IF silence[d] < due[d] THEN due[d] - silence[d] ELSE 0
      BY <1>1, <1>3, <2>2 DEF CounterInv
    <3>2. silence[d] \in 0..MaxReload /\ due[d] \in 1..MaxReload
      BY <1>1 DEF TypeOK
    <3>3. /\ counter'[d] = IF counter[d] = 0 THEN 0 ELSE counter[d] - 1
          /\ silence'[d] = IF silence[d] < MaxReload THEN silence[d] + 1 ELSE MaxReload
          /\ due'[d] = due[d]
      BY <1>3, <2>2
    <3> QED BY <3>1, <3>2, <3>3, Periods
  <2> QED BY <2>1, <2>2
<1>8. SingleFault'
  <2>1. CASE linux = "up"
    <3>1. PICK b \in Dogs : /\ upset \subseteq {b}
                            /\ \A d \in Dogs \ {b} : Reloaded(w, d) \/ silence[d] < KickPeriod
      BY <1>3, <2>1 DEF FedInTime
    <3>2. ASSUME NEW d \in Dogs \ {b} PROVE silence'[d] <= KickPeriod
      <4>1. silence[d] \in 0..MaxReload
        BY <1>1 DEF TypeOK
      <4> QED BY <1>3, <3>1, <4>1, Periods
    <3> QED BY <1>3, <3>1, <3>2 DEF SingleFault
  <2>2. CASE linux # "up"
    BY <1>1, <1>3, <2>2 DEF SingleFault
  <2> QED BY <2>1, <2>2
<1> QED BY <1>5, <1>6, <1>7, <1>8 DEF IInv

(* An upset makes the dog it hits the one that may be out of order.          *)
LEMMA UpsetStep ==
    ASSUME IInv, NEW d \in Dogs, Upset(d)
    PROVE  IInv'
<1>1. TypeOK /\ ReloadInv /\ CounterInv
  BY DEF IInv
<1>2. PICK n \in 0..MaxReload : counter' = [counter EXCEPT ![d] = n]
  BY DEF Upset
<1>3. /\ upsets < MaxUpsets /\ upsets' = upsets + 1
      /\ upset \subseteq {d} /\ upset' = {d}
      /\ linux = "up" => \A e \in Dogs \ {d} : silence[e] <= KickPeriod
      /\ UNCHANGED <<slv_reg, linux, silence, due>>
  BY DEF Upset
<1>4. TypeOK'
  BY <1>1, <1>2, <1>3, PeriodAssumption DEF TypeOK
<1>5. ReloadInv'
  BY <1>1, <1>3 DEF ReloadInv
<1>6. CounterInv'
  BY <1>1, <1>2, <1>3 DEF CounterInv, TypeOK
<1>7. SingleFault'
  BY <1>3 DEF SingleFault
<1> QED BY <1>4, <1>5, <1>6, <1>7 DEF IInv

LEMMA InvNext == IInv /\ [Next]_vars => IInv'
<1> SUFFICES ASSUME IInv, [Next]_vars PROVE IInv'
  OBVIOUS
<1>1. CASE Clock
  BY <1>1, ClockStep DEF Clock, LinuxCycle, IdleCycle
<1>2. CASE LinuxDies
  BY <1>2 DEF LinuxDies, IInv, TypeOK, ReloadInv, CounterInv, SingleFault
<1>3. CASE \E d \in Dogs : Upset(d)
  BY <1>3, UpsetStep
<1>4. CASE UNCHANGED vars
  BY <1>4 DEF vars, IInv, TypeOK, ReloadInv, CounterInv, SingleFault
<1> QED BY <1>1, <1>2, <1>3, <1>4 DEF Next

(* The inductive strengthening holds of Layer 1.                             *)
THEOREM Invariance == Spec => []IInv
  BY InvInit, InvNext, PTL DEF Spec

(* No counter leaves the range of the reload values (tmr_wdt_core.v), and    *)
(* the history keeps its types.                                              *)
THEOREM TypeCorrect == Spec => []TypeOK
<1>1. IInv => TypeOK
  BY DEF IInv
<1> QED BY <1>1, Invariance, PTL

(* While Linux feeds two dogs in time the voter stays quiet.                 *)
THEOREM QuietWhileFed == Spec => []NoFalseAlarm
<1>1. IInv => NoFalseAlarm
  <2> SUFFICES ASSUME IInv, linux = "up", NEW d \in Dogs, NEW e \in Dogs,
                      d # e, to(d), to(e)
               PROVE  FALSE
    BY DEF NoFalseAlarm, maj_2of3
  <2>1. PICK b \in Dogs : /\ upset \subseteq {b}
                          /\ \A x \in Dogs \ {b} : silence[x] <= KickPeriod
    BY DEF IInv, SingleFault
  <2>2. ASSUME NEW x \in Dogs \ {b} PROVE counter[x] # 0
    <3>1. /\ silence[x] \in Nat /\ due[x] \in Nat
          /\ silence[x] <= KickPeriod /\ due[x] > KickPeriod
          /\ counter[x] = IF silence[x] < due[x] THEN due[x] - silence[x] ELSE 0
      BY <2>1, Periods DEF IInv, TypeOK, ReloadInv, CounterInv
    <3> QED BY <3>1, Periods
  <2> QED BY <2>1, <2>2 DEF to
<1> QED BY <1>1, Invariance, PTL

(* Dogs that were not fed for their periods bark: two of them in spite of an *)
(* upset, all three without one.                                             *)
THEOREM BarksInTime == Spec => []AlarmInTime
<1>1. IInv => AlarmInTime
  <2> SUFFICES ASSUME IInv, enable, \A d \in Dogs : silence[d] >= due[d]
               PROVE  maj_2of3 /\ (upset = {} => all_3)
    BY DEF AlarmInTime
  <2>1. ASSUME NEW d \in Dogs \ upset PROVE to(d)
    <3>1. /\ silence[d] \in Nat /\ due[d] \in Nat /\ silence[d] >= due[d]
          /\ counter[d] = IF silence[d] < due[d] THEN due[d] - silence[d] ELSE 0
      BY Periods DEF IInv, TypeOK, CounterInv
    <3> QED BY <3>1 DEF to
  <2>2. PICK b \in Dogs : upset \subseteq {b}
    BY DEF IInv, SingleFault
  <2>3. \E d, e \in Dogs \ {b} : d # e
    BY DEF Dogs
  <2> QED BY <2>1, <2>2, <2>3 DEF maj_2of3, all_3
<1> QED BY <1>1, Invariance, PTL
=============================================================================

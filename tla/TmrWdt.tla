------------------------------- MODULE TmrWdt -------------------------------
(****************************************************************************)
(* Layer 1 in its surroundings: Linux configures and feeds the three dogs   *)
(* until it dies, and single-event upsets put arbitrary values into one     *)
(* counter at a time (the fault tmr_wdt_core.v line 5 is about).            *)
(****************************************************************************)
EXTENDS TmrWdtCore

CONSTANTS
    Reloads,      \* values Linux writes to RELOAD
    KickPeriod,   \* an enabled dog is fed at least every KickPeriod cycles
    MaxUpsets     \* bound: upsets explored

ASSUME PeriodAssumption ==
    /\ Reloads \subseteq Nat
    /\ KickPeriod \in Nat
    /\ RELOAD_DEFAULT > KickPeriod
    /\ \A r \in Reloads : r = 0 \/ r > KickPeriod
    /\ \E m \in Reloads \cup {RELOAD_DEFAULT} :    \* RELOAD has 32 bits
          \A r \in Reloads \cup {RELOAD_DEFAULT} : r <= m
    /\ MaxUpsets \in Nat

VARIABLES
    linux,     \* "up" or "dead"
    silence,   \* history: dog -> cycles since it was reloaded (saturating)
    due,       \* history: dog -> the value it was reloaded with
    upset,     \* dogs hit by an upset and not reloaded since
    upsets     \* upsets so far

vars == <<slv_reg, counter, linux, silence, due, upset, upsets>>

MaxReload == CHOOSE m \in Reloads \cup {RELOAD_DEFAULT} :
                \A r \in Reloads \cup {RELOAD_DEFAULT} : r <= m

TypeOK ==
    /\ slv_reg \in [RegNums -> Nat]
    /\ counter \in [Dogs -> 0..MaxReload]
    /\ linux \in {"up", "dead"}
    /\ silence \in [Dogs -> 0..MaxReload]
    /\ due \in [Dogs -> 1..MaxReload]
    /\ upset \in SUBSET Dogs
    /\ upsets \in 0..MaxUpsets

Init ==
    /\ CoreInit
    /\ linux = "up"
    /\ silence = [d \in Dogs |-> 0]
    /\ due = [d \in Dogs |-> RELOAD_DEFAULT]
    /\ upset = {}
    /\ upsets = 0

Word(r, n) == [addr |-> r, data |-> n, strb |-> TRUE]

(* Writes of tmr_wdt_test: configure, feed all dogs or all but one, enable.  *)
LinuxWrites ==
    {Word(CTRL, 0), Word(CTRL, 1)}
    \cup {Word(RELOAD, r) : r \in Reloads}
    \cup {Word(KICK, dogs) : dogs \in {3, 5, 6, 7}}

Reloaded(w, d) == ~enable \/ kick(w, d)

(* A live Linux does not let the period of a dog pass, except of one that it *)
(* starves; no other dog is upset then.                                      *)
FedInTime(w) ==
    \E b \in Dogs : /\ upset \subseteq {b}
                    /\ \A d \in Dogs \ {b} :
                          Reloaded(w, d) \/ silence[d] < KickPeriod

(* A cycle with write w: the registers, and the history that goes with it.   *)
ClockWith(w) ==
    /\ linux = "up" => FedInTime(w)
    /\ Cycle(w)
    /\ silence' = [d \in Dogs |->
                     IF Reloaded(w, d) THEN 0
                     ELSE IF silence[d] < MaxReload THEN silence[d] + 1
                     ELSE MaxReload]
    /\ due' = [d \in Dogs |-> IF Reloaded(w, d) THEN reload_eff ELSE due[d]]
    /\ upset' = {d \in upset : ~Reloaded(w, d)}
    /\ UNCHANGED <<linux, upsets>>

LinuxCycle == linux = "up" /\ \E w \in LinuxWrites : ClockWith(w)

IdleCycle == ClockWith(NoWrite)

LinuxDies ==
    /\ linux = "up"
    /\ linux' = "dead"
    /\ UNCHANGED <<slv_reg, counter, silence, due, upset, upsets>>

(* An upset of dog d: single faults only, so the others are in order.  A     *)
(* counter above MaxReload would only bark later than one of these, and d is *)
(* out of order until its next reload in any case.                           *)
Upset(d) ==
    /\ upsets < MaxUpsets
    /\ upset \subseteq {d}
    /\ linux = "up" => \A e \in Dogs \ {d} : silence[e] <= KickPeriod
    /\ upset' = {d}
    /\ upsets' = upsets + 1
    /\ \E n \in 0..MaxReload : counter' = [counter EXCEPT ![d] = n]
    /\ UNCHANGED <<slv_reg, linux, silence, due>>

Clock == LinuxCycle \/ IdleCycle

Next == Clock \/ LinuxDies \/ \E d \in Dogs : Upset(d)

(* The fabric clock runs.                                                    *)
Spec == Init /\ [][Next]_vars /\ WF_vars(Clock)

-----------------------------------------------------------------------------
(* Layer 1 filters single faults: as long as Linux feeds two dogs in time,   *)
(* neither an upset of the third nor its starvation makes the voter raise    *)
(* maj_2of3, through every change of RELOAD (0 included), disabling and      *)
(* enabling (the voter of tmr_wdt_core.v, reload_eff of the AXI wrapper).    *)
NoFalseAlarm == linux = "up" => ~maj_2of3

(* No alarm is late either: once the dogs have not been fed for the reload   *)
(* periods they were given, two of them agree whatever an upset did to the   *)
(* third, and without an upset all three do.                                 *)
AlarmInTime ==
    (enable /\ \A d \in Dogs : silence[d] >= due[d])
    => maj_2of3 /\ (upset = {} => all_3)

(* A dead Linux is reported to the PS by all three dogs and stays reported.  *)
DeadReported == (linux = "dead" /\ enable) ~> [](all_3)

-----------------------------------------------------------------------------
(* The inductive strengthening behind the safety properties.                 *)

(* RELOAD was set by Linux or never, and no dog was given a period as short  *)
(* as the one it is fed with.                                                *)
ReloadInv ==
    /\ slv_reg[RELOAD] \in Reloads \cup {0}
    /\ \A d \in Dogs : due[d] > KickPeriod

(* A dog that no upset has hit is as far down as its silence says.           *)
CounterInv ==
    \A d \in Dogs \ upset :
        counter[d] = IF silence[d] < due[d] THEN due[d] - silence[d] ELSE 0

(* One dog at most is out of order; a live Linux has fed the others.         *)
SingleFault ==
    \E b \in Dogs :
        /\ upset \subseteq {b}
        /\ linux = "up" => \A d \in Dogs \ {b} : silence[d] <= KickPeriod

IInv == TypeOK /\ ReloadInv /\ CounterInv /\ SingleFault
=============================================================================

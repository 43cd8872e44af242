----------------------------- MODULE Layer3Proofs -----------------------------
(****************************************************************************)
(* Proofs about Layer3: for any number of cores, any threshold, and any     *)
(* ratio of the two clocks.                                                 *)
(****************************************************************************)
EXTENDS Layer3, Integers, TLAPS

(* The types as the provers need them.                                       *)
LEMMA Types ==
    ASSUME TypeOK
    PROVE  /\ HEARTBEAT \in Nat /\ PrevHbVal \in Nat /\ MissedCount \in Nat /\ Armed \in 0..1
           /\ floor \in Nat /\ polls \in Nat /\ ticks \in Nat /\ reboots \in Nat
           /\ NumCores \in Nat /\ NumCores >= 1 /\ MaxPolls \in Nat /\ MaxPolls >= 1
           /\ BootPolls \in Nat /\ MaxTicks \in Nat /\ MaxReboots \in Nat
           /\ MISS_THRESHOLD \in Nat /\ MISS_THRESHOLD >= 1
           /\ HB!Window \subseteq Nat
<1>1. HB!Window \subseteq Nat
  BY BoundsAssumption DEF TypeOK, HB!Window
<1> QED BY <1>1, BoundsAssumption, ThresholdAssumption DEF TypeOK, MonTypeOK

(* What TypeOK says of the numbers and steps, and of the Booleans.           *)
Numbers ==
    /\ MonTypeOK
    /\ floor \in Nat
    /\ tz \in TzStates
    /\ polls \in 0..(MaxPolls + BootPolls)
    /\ ticks \in 0..MaxTicks
    /\ reboots \in 0..MaxReboots

Booleans == started \in BOOLEAN /\ beating \in BOOLEAN /\ excuse \in BOOLEAN

LEMMA TypesSplit == TypeOK <=> Numbers /\ Booleans
  BY Zenon DEF TypeOK, Numbers, Booleans

LEMMA SlateInit == Init => Slate
<1> SUFFICES ASSUME Init PROVE Slate
  OBVIOUS
<1>1. Numbers
  BY BoundsAssumption, ThresholdAssumption
  DEF Init, Numbers, MonTypeOK, PmuSteps, TzStates, MonInit, HB!HbInit
<1>2. Booleans
  BY Zenon DEF Init, Booleans, HB!HbInit
<1>3. SlateInv
  BY BoundsAssumption, ThresholdAssumption
  DEF Init, SlateInv, Recovering, MonInit, HB!HbInit
<1> QED BY <1>1, <1>2, <1>3, TypesSplit DEF Slate

(* The types and the phases of PMU and APU are preserved by every step,      *)
(* Linux reboots included.                                                   *)
LEMMA SlateNext == Slate /\ [Next]_vars => Slate'
<1> SUFFICES ASSUME Slate, [Next]_vars PROVE Slate'
  OBVIOUS
<1>1. TypeOK /\ Numbers /\ Booleans /\ SlateInv
  BY TypesSplit DEF Slate
<1> USE <1>1, Types DEF TzStates, PmuSteps
<1>2. CASE Tick
  <2>1. Numbers'
    BY <1>2 DEF Numbers, MonTypeOK, SlateInv, Tick, HB!Begin, hbState, monVars
  <2>2. Booleans'
    BY <1>2, Zenon DEF Booleans, Tick, HB!Begin, hbState
  <2>3. SlateInv'
    BY <1>2 DEF SlateInv, Recovering, Tick, HB!Begin, hbState, monVars
  <2> QED BY <2>1, <2>2, <2>3, Zenon DEF Slate, TypeOK, Numbers, Booleans
<1>3. CASE Beat
  <2>1. Numbers'
    BY <1>3 DEF Numbers, MonTypeOK, SlateInv, Beat, HB!Publish, HB!Finish, hbState, monVars
  <2>2. Booleans'
    BY <1>3, Zenon DEF Booleans, Beat, HB!Publish, HB!Finish, hbState
  <2>3. SlateInv'
    BY <1>3 DEF SlateInv, Recovering, Beat, HB!Publish, HB!Finish, hbState, monVars
  <2> QED BY <2>1, <2>2, <2>3, Zenon DEF Slate, TypeOK, Numbers, Booleans
<1>4. CASE Hang
  <2>1. Numbers'
    BY <1>4 DEF Numbers, MonTypeOK, SlateInv, Hang, hbState, monVars
  <2>2. Booleans'
    BY <1>4, Zenon DEF Booleans, Hang, hbState
  <2>3. SlateInv'
    BY <1>4 DEF SlateInv, Recovering, Hang, hbState, monVars
  <2> QED BY <2>1, <2>2, <2>3, Zenon DEF Slate, TypeOK, Numbers, Booleans
<1>5. CASE Resume
  <2>1. Numbers'
    BY <1>5 DEF Numbers, MonTypeOK, SlateInv, Resume, hbState, monVars
  <2>2. Booleans'
    BY <1>5, Zenon DEF Booleans, Resume, hbState
  <2>3. SlateInv'
    BY <1>5 DEF SlateInv, Recovering, Resume, hbState, monVars
  <2> QED BY <2>1, <2>2, <2>3, Zenon DEF Slate, TypeOK, Numbers, Booleans
<1>6. CASE Die
  <2>1. Numbers'
    BY <1>6 DEF Numbers, MonTypeOK, SlateInv, Die, hbState, monVars
  <2>2. Booleans'
    BY <1>6, Zenon DEF Booleans, Die, hbState
  <2>3. SlateInv'
    BY <1>6 DEF SlateInv, Recovering, Die, hbState, monVars
  <2> QED BY <2>1, <2>2, <2>3, Zenon DEF Slate, TypeOK, Numbers, Booleans
<1>7. CASE Reboot
  <2>1. Numbers'
    BY <1>7 DEF Numbers, MonTypeOK, SlateInv, Reboot, hbState, monVars
  <2>2. Booleans'
    BY <1>7, Zenon DEF Booleans, Reboot, hbState
  <2>3. SlateInv'
    BY <1>7 DEF SlateInv, Recovering, Reboot, hbState, monVars
  <2> QED BY <2>1, <2>2, <2>3, Zenon DEF Slate, TypeOK, Numbers, Booleans
<1>8. CASE Boot
  <2>1. Numbers'
    BY <1>8 DEF Numbers, MonTypeOK, SlateInv, Boot, hbState, monVars
  <2>2. Booleans'
    BY <1>8, Zenon DEF Booleans, Boot, hbState
  <2>3. SlateInv'
    BY <1>8 DEF SlateInv, Recovering, Boot, hbState, monVars
  <2> QED BY <2>1, <2>2, <2>3, Zenon DEF Slate, TypeOK, Numbers, Booleans
<1>9. CASE Startup
  <2>1. Numbers'
    BY <1>9 DEF Numbers, MonTypeOK, SlateInv, Startup, SwdtMonitorInit, hbState, monVars
  <2>2. Booleans'
    BY <1>9, Zenon DEF Booleans, Startup, SwdtMonitorInit, hbState
  <2>3. SlateInv'
    BY <1>9 DEF SlateInv, Recovering, Startup, SwdtMonitorInit, hbState, monVars
  <2> QED BY <2>1, <2>2, <2>3, Zenon DEF Slate, TypeOK, Numbers, Booleans
<1>10. CASE Poll
  <2>1. Numbers'
    BY <1>10 DEF Numbers, MonTypeOK, SlateInv, Poll, PollAllowed, SwdtMonitorCallback, PollUnarmed, PollAdvanced, PollMissed, Advanced, hbState, monVars
  <2>2. Booleans'
    BY <1>10, Zenon DEF Booleans, Poll, PollAllowed, SwdtMonitorCallback, PollUnarmed, PollAdvanced, PollMissed, Advanced, hbState
  <2>3. SlateInv'
    <3>1. CASE PollUnarmed
      BY <1>10, <3>1 DEF SlateInv, Recovering, Poll, PollAllowed, SwdtMonitorCallback,
         PollUnarmed, hbState
    <3>2. CASE PollAdvanced
      BY <1>10, <3>2 DEF SlateInv, Recovering, Poll, PollAllowed, SwdtMonitorCallback,
         PollAdvanced, hbState
    <3>3. CASE PollMissed
      <4>1. /\ pmu = "idle" /\ Armed = 1 /\ UNCHANGED <<Armed, HEARTBEAT, tz, beating>>
            /\ MissedCount' = MissedCount + 1
            /\ pmu' = IF MissedCount' >= MISS_THRESHOLD THEN "wipe" ELSE pmu
        BY <1>10, <3>3 DEF Poll, SwdtMonitorCallback, PollMissed, hbState
      <4>2. MissedCount < MISS_THRESHOLD
        BY <4>1 DEF SlateInv, Numbers, MonTypeOK
      <4>3. tz = "alive" => polls' <= IF beating THEN 1 ELSE MaxPolls
        BY <1>10 DEF Poll, PollAllowed
      <4> QED BY <4>1, <4>2, <4>3 DEF SlateInv, Recovering
    <3> QED BY <1>10, <3>1, <3>2, <3>3 DEF Poll, SwdtMonitorCallback
  <2> QED BY <2>1, <2>2, <2>3, Zenon DEF Slate, TypeOK, Numbers, Booleans
<1>11. CASE Wipe
  <2>1. Numbers'
    BY <1>11 DEF Numbers, MonTypeOK, SlateInv, Wipe, WipePl, hbState, monVars
  <2>2. Booleans'
    BY <1>11, Zenon DEF Booleans, Wipe, WipePl, hbState
  <2>3. SlateInv'
    BY <1>11 DEF SlateInv, Recovering, Wipe, WipePl, hbState, monVars
  <2> QED BY <2>1, <2>2, <2>3, Zenon DEF Slate, TypeOK, Numbers, Booleans
<1>12. CASE Down
  <2>1. Numbers'
    BY <1>12 DEF Numbers, MonTypeOK, SlateInv, Down, ForceDown, hbState, monVars
  <2>2. Booleans'
    BY <1>12, Zenon DEF Booleans, Down, ForceDown, hbState
  <2>3. SlateInv'
    BY <1>12 DEF SlateInv, Recovering, Down, ForceDown, hbState, monVars
  <2> QED BY <2>1, <2>2, <2>3, Zenon DEF Slate, TypeOK, Numbers, Booleans
<1>13. CASE Clear
  <2>1. Numbers'
    BY <1>13 DEF Numbers, MonTypeOK, SlateInv, Clear, ClearState, hbState, monVars
  <2>2. Booleans'
    BY <1>13, Zenon DEF Booleans, Clear, ClearState, hbState
  <2>3. SlateInv'
    BY <1>13 DEF SlateInv, Recovering, Clear, ClearState, hbState, monVars
  <2> QED BY <2>1, <2>2, <2>3, Zenon DEF Slate, TypeOK, Numbers, Booleans
<1>14. CASE Reset
  <2>1. Numbers'
    BY <1>14 DEF Numbers, MonTypeOK, SlateInv, Reset, ResetSystem, hbState, monVars
  <2>2. Booleans'
    BY <1>14, Zenon DEF Booleans, Reset, ResetSystem, hbState
  <2>3. SlateInv'
    BY <1>14 DEF SlateInv, Recovering, Reset, ResetSystem, hbState, monVars
  <2> QED BY <2>1, <2>2, <2>3, Zenon DEF Slate, TypeOK, Numbers, Booleans
<1>15. CASE UNCHANGED vars
  BY <1>15 DEF vars, Slate, TypeOK, MonTypeOK, SlateInv, Recovering
<1> QED BY <1>2, <1>3, <1>4, <1>5, <1>6, <1>7, <1>8, <1>9, <1>10, <1>11, <1>12, <1>13, <1>14, <1>15 DEF Next, TriggerReset

LEMMA SlateInvariance == Spec => []Slate
  BY SlateInit, SlateNext, PTL DEF Spec

(* The variables keep their types: the callback never counts beyond the      *)
(* threshold, at which it calls TriggerReset.                                *)
THEOREM TypeCorrect == Spec => []TypeOK
<1>1. Slate => TypeOK
  BY DEF Slate
<1> QED BY <1>1, SlateInvariance, PTL

(* While the APU boots after a forced reset the monitor is unarmed and       *)
(* starts no other one, Linux reboots and a TF-A that comes back to life     *)
(* while TriggerReset runs included.                                         *)
THEOREM SlateIsClean == Spec => []CleanSlate
<1>1. Slate => CleanSlate
  BY DEF Slate, SlateInv, CleanSlate
<1> QED BY <1>1, SlateInvariance, PTL

-----------------------------------------------------------------------------
(* From here on the APU has not been rebooted by Linux under the monitor: no *)
(* step so far was a Reboot.                                                 *)
LEMMA NotRebooted ==
    ASSUME TypeOK, [Next]_vars, reboots' = 0
    PROVE  reboots = 0 /\ ~Reboot
<1>1. ~Reboot
  BY Types DEF Reboot
<1>2. reboots' = reboots
  BY <1>1 DEF Next, Tick, Beat, Hang, Resume, Die, Boot, Startup, Poll, TriggerReset, Wipe,
              Down, Clear, Reset, vars
<1> QED BY <1>1, <1>2

(* The threshold is beyond what a beating TF-A can make the PMU miss.        *)
Margin == MISS_THRESHOLD > StallPolls

LEMMA Multiples ==
    ASSUME NEW a \in Nat, NEW b \in Nat, NEW m \in Nat, a <= b
    PROVE  a * m \in Nat /\ a * m <= b * m /\ (a + 1) * m = a * m + m
<1>1. PICK d \in Nat : b = a + d
  <2>1. b - a \in Nat /\ b = a + (b - a)
    OBVIOUS
  <2> QED BY <2>1
<1>2. b * m = a * m + d * m /\ (a + 1) * m = a * m + m
  BY <1>1
<1>3. a * m \in Nat /\ d * m \in Nat
  OBVIOUS
<1> QED BY <1>2, <1>3

LEMMA BeatInit == Init => BeatInv
  BY DEF Init, BeatInv, Bootable, MonInit, HB!HbInit

LEMMA BeatNext ==
    ASSUME Slate, BeatInv, [Next]_vars, ~Reboot
    PROVE  BeatInv'
<1>1. TypeOK /\ SlateInv /\ tz \in TzStates
  BY DEF Slate, TypeOK
<1> USE <1>1, Types DEF BeatInv, Bootable
<1>2. CASE Tick
  BY <1>2 DEF SlateInv, HB!Window, Tick, HB!Begin, HB!MaxLead, hbState, monVars
<1>3. CASE Beat
  BY <1>3 DEF SlateInv, HB!Window, Beat, HB!Publish, HB!Finish, hbState, monVars
<1>4. CASE Hang
  BY <1>4 DEF SlateInv, HB!Window, Hang, hbState, monVars
<1>5. CASE Resume
  BY <1>5 DEF SlateInv, HB!Window, Resume, hbState, monVars
<1>6. CASE Die
  BY <1>6 DEF SlateInv, HB!Window, Die, hbState, monVars
<1>7. CASE Reboot
  BY <1>7
<1>8. CASE Boot
  BY <1>8 DEF SlateInv, HB!Window, Boot, hbState, monVars
<1>9. CASE Startup
  BY <1>9 DEF SlateInv, HB!Window, Startup, SwdtMonitorInit, hbState, monVars
<1>10. CASE Poll
  BY <1>10 DEF SlateInv, HB!Window, Poll, PollAllowed, SwdtMonitorCallback, PollUnarmed, PollAdvanced, PollMissed, Advanced, hbState, monVars
<1>11. CASE Wipe
  BY <1>11 DEF SlateInv, HB!Window, Wipe, WipePl, hbState, monVars
<1>12. CASE Down
  BY <1>12 DEF SlateInv, HB!Window, Down, ForceDown, hbState, monVars
<1>13. CASE Clear
  BY <1>13 DEF SlateInv, HB!Window, Clear, ClearState, hbState, monVars
<1>14. CASE Reset
  BY <1>14 DEF SlateInv, HB!Window, Reset, ResetSystem, hbState, monVars
<1>15. CASE UNCHANGED vars
  BY <1>15 DEF vars, HB!Window
<1> QED BY <1>2, <1>3, <1>4, <1>5, <1>6, <1>7, <1>8, <1>9, <1>10, <1>11, <1>12, <1>13, <1>14, <1>15 DEF Next, TriggerReset

(* The counts behind StallInv, as the provers need them.                     *)
LEMMA Counts ==
    ASSUME TypeOK
    PROVE  /\ Ahead \in Nat /\ Kept \in Nat /\ HB!MaxLead \in Nat
           /\ Kept <= Ahead /\ Kept <= HB!MaxLead
           /\ Ahead * MaxPolls \in Nat /\ Kept * MaxPolls \in Nat
           /\ Kept * MaxPolls <= Ahead * MaxPolls
           /\ StallPolls \in Nat
<1>1. Ahead \in Nat /\ HB!MaxLead \in Nat
  BY Types DEF Ahead, HB!MaxLead
<1>2. Kept \in Nat /\ Kept <= Ahead /\ Kept <= HB!MaxLead
  BY <1>1 DEF Kept
<1>3. MaxPolls \in Nat /\ NumCores - 1 \in Nat
  BY Types
<1>4. StallPolls \in Nat
  BY <1>3, Multiples DEF StallPolls
<1> QED BY <1>1, <1>2, <1>3, <1>4, Multiples

(* A new interval: its floor is higher, and if the register is still at      *)
(* PrevHbVal it is no further than MaxLead below it.                         *)
LEMMA TickStall ==
    ASSUME Slate, BeatInv, StallInv, Tick
    PROVE  StallInv'
<1> SUFFICES ASSUME tz = "alive", Armed = 1, ~excuse
             PROVE  StallInv'
  BY DEF StallInv, Tick, monVars
<1>1. /\ ~beating /\ beating' = TRUE /\ polls' = 0
      /\ UNCHANGED <<HEARTBEAT, PrevHbVal, MissedCount>>
  BY DEF Tick, HB!Begin, monVars
<1>2. PICK f \in Nat : /\ floor' = f
                       /\ floor + 1 <= f
                       /\ HEARTBEAT <= f + HB!MaxLead
                       /\ HEARTBEAT > floor
  BY Types DEF Slate, BeatInv, Tick, HB!Begin, HB!Window
<1>3. /\ PrevHbVal <= floor + NumCores /\ MissedCount <= StallPolls
      /\ HEARTBEAT = PrevHbVal => MissedCount + StayPolls <= StallPolls
      /\ HEARTBEAT # PrevHbVal /\ Ahead > 0 => MissedCount + BackPolls <= StallPolls
  BY DEF StallInv
<1>4. StallPolls' = StallPolls
  BY DEF StallPolls
<1>5. TypeOK /\ floor \in Nat /\ PrevHbVal \in Nat /\ NumCores \in Nat
      /\ polls \in Nat /\ polls <= MaxPolls /\ MaxPolls \in Nat /\ MaxPolls >= 1
      /\ MissedCount \in Nat /\ HEARTBEAT \in Nat /\ StallPolls \in Nat
      /\ HB!MaxLead \in Nat
  BY <1>1, Types, Counts DEF Slate, SlateInv, TypeOK
<1>6. CASE PrevHbVal <= f
  <2>1. Ahead' = 0
    BY <1>1, <1>2, <1>5, <1>6 DEF Ahead
  <2>2. StayPolls' = 1
    BY <1>1, <1>2, <1>5, <1>6 DEF StayPolls
  <2>3. HEARTBEAT = PrevHbVal => StayPolls \in Nat /\ StayPolls >= 1
    BY <1>2, <1>5, Counts DEF StayPolls
  <2>4. HEARTBEAT = PrevHbVal => MissedCount + 1 <= StallPolls
    BY <1>3, <1>5, <2>3
  <2> QED BY <1>1, <1>2, <1>3, <1>4, <1>5, <1>6, <2>1, <2>2, <2>4 DEF StallInv
<1>7. CASE PrevHbVal > f
  <2>1. PICK ahead \in Nat : /\ ahead = PrevHbVal - (f + 1)
                             /\ ahead + 1 <= Ahead
                             /\ HEARTBEAT = PrevHbVal => ahead + 1 <= HB!MaxLead
    BY <1>2, <1>5, <1>7 DEF Ahead
  <2>2. Ahead' = ahead
    BY <1>1, <1>2, <1>5, <1>7, <2>1 DEF Ahead
  <2>3. PICK kept \in Nat : Kept' = kept /\ kept <= ahead
    <3>1. Kept' = IF ahead <= HB!MaxLead THEN ahead ELSE HB!MaxLead
      BY <2>2 DEF Kept, HB!MaxLead
    <3> QED BY <1>5, <2>1, <3>1
  <2>4. StayPolls' = MaxPolls + kept * MaxPolls + 1
    BY <1>1, <1>2, <1>5, <1>7, <2>3 DEF StayPolls
  <2>5. BackPolls' = 1 + ahead * MaxPolls + 1
    BY <1>1, <2>2 DEF BackPolls
  <2>6. /\ kept * MaxPolls \in Nat /\ ahead * MaxPolls \in Nat
        /\ kept * MaxPolls <= ahead * MaxPolls
        /\ (ahead + 1) * MaxPolls = ahead * MaxPolls + MaxPolls
    BY <1>5, <2>1, <2>3, Multiples
  <2>7. MissedCount + ahead * MaxPolls + MaxPolls + 1 <= StallPolls
    <3>1. CASE HEARTBEAT = PrevHbVal
      <4>1. Kept \in Nat /\ ahead + 1 <= Kept /\ ahead + 1 \in Nat
        BY <2>1, <3>1, <1>5, Counts DEF Kept
      <4>2. (ahead + 1) * MaxPolls <= Kept * MaxPolls
        BY <1>5, <4>1, Multiples
      <4>3. StayPolls >= Kept * MaxPolls + 1 /\ StayPolls \in Nat /\ Kept * MaxPolls \in Nat
        BY <1>2, <1>5, <3>1, Counts DEF StayPolls
      <4> QED BY <1>3, <1>5, <2>6, <3>1, <4>2, <4>3
    <3>2. CASE HEARTBEAT # PrevHbVal
      <4>1. Ahead \in Nat /\ ahead + 1 \in Nat /\ Ahead * MaxPolls \in Nat /\ Ahead > 0
        BY <1>5, <2>1, Counts
      <4>2. (ahead + 1) * MaxPolls <= Ahead * MaxPolls
        BY <1>5, <2>1, <4>1, Multiples
      <4>3. BackPolls = Ahead * MaxPolls + 1
        BY <1>1, <4>1 DEF BackPolls
      <4> QED BY <1>3, <1>5, <2>6, <3>2, <4>1, <4>2, <4>3
    <3> QED BY <3>1, <3>2
  <2>8. /\ MissedCount + (MaxPolls + kept * MaxPolls + 1) <= StallPolls
        /\ MissedCount + (1 + ahead * MaxPolls + 1) <= StallPolls
    BY <1>5, <2>6, <2>7
  <2>9. PrevHbVal <= f + NumCores
    BY <1>2, <1>3, <1>5
  <2> QED BY <1>1, <1>2, <1>3, <1>4, <2>2, <2>4, <2>5, <2>8, <2>9 DEF StallInv
<1> QED BY <1>5, <1>6, <1>7

(* A beat: what was allowed for while beating covers what it publishes.      *)
LEMMA BeatStall ==
    ASSUME Slate, StallInv, Beat
    PROVE  StallInv'
<1> SUFFICES ASSUME tz = "alive", Armed = 1, ~excuse
             PROVE  StallInv'
  BY DEF StallInv, Beat, monVars
<1>1. beating /\ UNCHANGED <<floor, polls, PrevHbVal, MissedCount>>
  BY DEF Slate, Beat, HB!Publish, HB!Finish, monVars
<1>2. HEARTBEAT' = PrevHbVal => PrevHbVal > floor
  BY Types DEF Slate, Beat, HB!Publish, HB!Finish, HB!Window
<1>3. UNCHANGED <<Ahead, Kept, StayPolls, StallPolls>>
  BY <1>1 DEF Ahead, Kept, StayPolls, StallPolls, HB!MaxLead
<1>4. TypeOK /\ MissedCount \in Nat /\ StallPolls \in Nat /\ Ahead * MaxPolls \in Nat
  BY Types, Counts DEF Slate
<1>5. PICK back \in Nat : BackPolls' = back /\ back <= BackPolls /\ BackPolls \in Nat
  <2>1. BackPolls' = (IF beating' /\ polls = 0 THEN 1 ELSE 0) + Ahead * MaxPolls + 1
    BY <1>1, <1>3 DEF BackPolls
  <2>2. BackPolls = (IF polls = 0 THEN 1 ELSE 0) + Ahead * MaxPolls + 1
    BY <1>1 DEF BackPolls
  <2> QED BY <1>4, <2>1, <2>2
<1>6. /\ PrevHbVal <= floor + NumCores /\ MissedCount <= StallPolls
      /\ PrevHbVal > floor => MissedCount + StayPolls <= StallPolls
      /\ Ahead > 0 => MissedCount + BackPolls <= StallPolls
  BY <1>1 DEF StallInv
<1>7. Ahead > 0 => MissedCount + back <= StallPolls
  BY <1>4, <1>5, <1>6
<1> QED BY <1>1, <1>2, <1>3, <1>5, <1>6, <1>7 DEF StallInv

(* A poll that samples the register: everything is still to come.            *)
LEMMA SampleStall ==
    ASSUME Slate, BeatInv, Poll, PrevHbVal' = HEARTBEAT, MissedCount' = 0, tz = "alive",
           started
    PROVE  StallInv'
<1>1. /\ UNCHANGED <<HEARTBEAT, floor, beating, tz>>
      /\ polls' = polls + 1
      /\ polls < IF beating THEN 1 ELSE MaxPolls
  BY DEF Poll, PollAllowed, SwdtMonitorCallback, hbState
<1>2. /\ TypeOK /\ floor \in Nat /\ HEARTBEAT \in Nat /\ polls \in Nat
      /\ NumCores \in Nat /\ NumCores >= 1 /\ MaxPolls \in Nat /\ MaxPolls >= 1
      /\ HEARTBEAT <= floor + NumCores /\ HB!MaxLead \in Nat /\ StallPolls \in Nat
  BY Types, Counts DEF Slate, BeatInv
<1>3. beating \/ HEARTBEAT > floor
  BY <1>2 DEF BeatInv, HB!Window
<1>4. PICK ahead \in Nat : Ahead' = ahead /\ ahead <= NumCores - 1
  <2>1. Ahead' = IF HEARTBEAT > floor THEN HEARTBEAT - (floor + 1) ELSE 0
    BY <1>1 DEF Ahead
  <2> QED BY <1>2, <2>1
<1>5. PICK kept \in Nat : /\ Kept' = kept /\ kept <= ahead
                          /\ kept <= IF NumCores > 2 THEN NumCores - 2 ELSE 0
  BY <1>2, <1>4 DEF Kept, HB!MaxLead
<1>6. /\ kept * MaxPolls \in Nat /\ ahead * MaxPolls \in Nat
      /\ (kept + 1) * MaxPolls = kept * MaxPolls + MaxPolls
      /\ ahead * MaxPolls <= (NumCores - 1) * MaxPolls /\ (NumCores - 1) * MaxPolls \in Nat
  BY <1>2, <1>4, <1>5, Multiples
<1>7. StayPolls' <= StallPolls
  <2>1. CASE HEARTBEAT > floor
    <3>1. StayPolls' = (MaxPolls - (polls + 1)) + kept * MaxPolls + 1
      BY <1>1, <1>2, <1>5, <2>1 DEF StayPolls
    <3>2. CASE NumCores = 1
      <4>1. kept = 0
        BY <1>4, <1>5, <3>2
      <4> QED BY <1>1, <1>2, <3>1, <3>2, <4>1 DEF StallPolls
    <3>3. CASE NumCores > 1
      <4>1. kept + 1 <= NumCores - 1 /\ kept + 1 \in Nat /\ NumCores - 1 \in Nat
        BY <1>2, <1>5, <3>3
      <4>2. (kept + 1) * MaxPolls <= (NumCores - 1) * MaxPolls
        BY <1>2, <4>1, Multiples
      <4>3. StallPolls = (NumCores - 1) * MaxPolls + 1
        BY <3>3 DEF StallPolls
      <4> QED BY <1>2, <1>6, <3>1, <4>2, <4>3
    <3> QED BY <1>2, <3>2, <3>3
  <2>2. CASE ~(HEARTBEAT > floor)
    <3>1. StayPolls' = 1 - (polls + 1)
      BY <1>1, <1>2, <2>2 DEF StayPolls
    <3> QED BY <1>2, <3>1
  <2> QED BY <2>1, <2>2
<1>8. ahead > 0 /\ beating => BackPolls' <= StallPolls
  <2> SUFFICES ASSUME ahead > 0, beating PROVE BackPolls' <= StallPolls
    OBVIOUS
  <2>1. BackPolls' = ahead * MaxPolls + 1
    BY <1>1, <1>2, <1>4, <1>6 DEF BackPolls
  <2>2. StallPolls = (NumCores - 1) * MaxPolls + 1
    BY <1>2, <1>4 DEF StallPolls
  <2> QED BY <1>6, <2>1, <2>2
<1>9. /\ StallPolls' = StallPolls
      /\ MissedCount' + StayPolls' = StayPolls' /\ MissedCount' + BackPolls' = BackPolls'
  BY <1>1, <1>2, <1>4, <1>5, <1>6 DEF StallPolls, StayPolls, BackPolls
<1> QED BY <1>1, <1>2, <1>4, <1>7, <1>8, <1>9 DEF StallInv

(* A missed poll is one of those allowed for.                                *)
LEMMA MissStall ==
    ASSUME Slate, BeatInv, StallInv, Poll, PollMissed
    PROVE  StallInv'
<1> SUFFICES ASSUME tz = "alive", Armed = 1, ~excuse
             PROVE  StallInv'
  BY DEF StallInv, Poll, PollMissed, Advanced
<1>1. /\ UNCHANGED <<HEARTBEAT, PrevHbVal, floor, beating, tz>>
      /\ MissedCount' = MissedCount + 1 /\ polls' = polls + 1
      /\ polls < IF beating THEN 1 ELSE MaxPolls
      /\ HEARTBEAT = PrevHbVal
  BY DEF Poll, PollAllowed, PollMissed, Advanced, SwdtMonitorCallback, hbState
<1>2. /\ TypeOK /\ floor \in Nat /\ HEARTBEAT \in Nat /\ polls \in Nat
      /\ MaxPolls \in Nat /\ MaxPolls >= 1 /\ MissedCount \in Nat /\ StallPolls \in Nat
  BY Types, Counts DEF Slate
<1>3. beating \/ PrevHbVal > floor
  BY <1>1, <1>2 DEF BeatInv, HB!Window
<1>4. UNCHANGED <<Ahead, Kept, StallPolls>>
  BY <1>1 DEF Ahead, Kept, StallPolls, HB!MaxLead
<1>5. StayPolls \in Int /\ StayPolls >= 1 /\ StayPolls' = StayPolls - 1
  BY <1>1, <1>2, <1>3, <1>4, Counts DEF StayPolls
<1>6. beating => BackPolls \in Int /\ BackPolls' = BackPolls - 1
  BY <1>1, <1>2, <1>4, Counts DEF BackPolls
<1> QED BY <1>1, <1>2, <1>4, <1>5, <1>6 DEF StallInv

(* Everything else leaves the counts alone, or takes TF-A out of the race.   *)
LEMMA StallNext ==
    ASSUME Slate, BeatInv, StallInv, [Next]_vars, ~Reboot
    PROVE  StallInv'
<1>1. CASE Tick
  BY <1>1, TickStall
<1>2. CASE Beat
  BY <1>2, BeatStall
<1>3. CASE Hang \/ Die
  BY <1>3 DEF Hang, Die, StallInv
<1>4. CASE Resume
  BY <1>4 DEF Resume, BeatInv, StallInv
<1>5. CASE Reboot
  BY <1>5
<1>6. CASE Boot
  BY <1>6 DEF Boot, BeatInv, Slate, SlateInv, StallInv
<1>7. ASSUME UNCHANGED <<floor, HEARTBEAT, PrevHbVal, MissedCount, Armed, tz, polls, excuse,
                         beating>>
      PROVE  StallInv'
  <2>1. UNCHANGED <<Ahead, Kept>>
    BY <1>7 DEF Ahead, Kept, HB!MaxLead
  <2>2. UNCHANGED <<StallPolls, StayPolls, BackPolls>>
    BY <1>7, <2>1 DEF StallPolls, StayPolls, BackPolls
  <2> QED BY <1>7, <2>1, <2>2 DEF StallInv
<1>8. CASE Startup
  BY <1>7, <1>8 DEF Startup, SwdtMonitorInit, hbState
<1>9. CASE Poll
  <2> SUFFICES ASSUME tz = "alive", Armed' = 1, ~excuse'
               PROVE  StallInv'
    BY <1>9 DEF Poll, StallInv
  <2>1. CASE PollUnarmed
    <3>1. HEARTBEAT # 0 /\ PrevHbVal' = HEARTBEAT /\ MissedCount' = MissedCount
      BY <2>1 DEF PollUnarmed
    <3>2. MissedCount = 0
      BY <2>1 DEF PollUnarmed, Slate, SlateInv
    <3>3. started
      BY <3>1 DEF BeatInv
    <3> QED BY <1>9, <3>1, <3>2, <3>3, SampleStall
  <2>2. CASE PollAdvanced
    <3>1. started
      BY <2>2 DEF PollAdvanced, BeatInv
    <3> QED BY <1>9, <2>2, <3>1, SampleStall DEF PollAdvanced
  <2>3. CASE PollMissed
    BY <1>9, <2>3, MissStall
  <2> QED BY <1>9, <2>1, <2>2, <2>3 DEF Poll, SwdtMonitorCallback
<1>10. CASE Wipe
  BY <1>7, <1>10 DEF Wipe, WipePl, hbState
<1>11. CASE Down \/ Reset
  BY <1>11 DEF Down, ForceDown, Reset, StallInv
<1>12. CASE Clear
  BY <1>12 DEF Clear, ClearState, Slate, SlateInv, StallInv
<1>13. CASE UNCHANGED vars
  BY <1>7, <1>13 DEF vars
<1> QED BY <1>1, <1>2, <1>3, <1>4, <1>5, <1>6, <1>8, <1>9, <1>10, <1>11, <1>12, <1>13
        DEF Next, TriggerReset

(* The threshold is reached only where TF-A has not been beating.            *)
LEMMA ResetNext ==
    ASSUME Margin, Slate, BeatInv, StallInv', NoFalseReset, [Next]_vars
    PROVE  NoFalseReset'
<1> USE DEF NoFalseReset, Recovering
<1>1. CASE Poll
  <2> SUFFICES ASSUME Recovering' PROVE excuse'
    OBVIOUS
  <2>1. pmu = "idle" /\ PollMissed /\ MissedCount' >= MISS_THRESHOLD /\ Armed = 1
    BY <1>1 DEF Poll, SwdtMonitorCallback, PollUnarmed, PollAdvanced, PollMissed
  <2>2. tz' = tz /\ excuse' = excuse /\ Armed' = 1
    BY <1>1, <2>1 DEF Poll, PollMissed
  <2>3. tz \in {"alive", "hung", "dead"}
    BY <2>1 DEF Slate, TypeOK, TzStates, SlateInv, BeatInv
  <2>4. CASE tz = "alive"
    <3> SUFFICES ASSUME ~excuse PROVE FALSE
      BY <2>2
    <3>1. MissedCount' <= StallPolls
      BY <2>2, <2>4 DEF StallInv, StallPolls
    <3>2. MissedCount' = MissedCount + 1 /\ MissedCount \in Nat /\ MISS_THRESHOLD \in Nat
          /\ StallPolls \in Nat
      BY <2>1, Types, Counts DEF PollMissed, Slate
    <3> QED BY <2>1, <3>1, <3>2 DEF Margin
  <2>5. CASE tz \in {"hung", "dead"}
    BY <2>2, <2>5 DEF BeatInv
  <2> QED BY <2>3, <2>4, <2>5
<1>2. CASE Tick \/ Beat \/ Hang \/ Resume \/ Die \/ Reboot \/ Boot
  BY <1>2 DEF Tick, Beat, Hang, Resume, Die, Reboot, Boot, monVars
<1>3. CASE Startup
  BY <1>3 DEF Startup, SwdtMonitorInit
<1>4. CASE TriggerReset
  BY <1>4 DEF TriggerReset, Wipe, WipePl, Down, ForceDown, Clear, ClearState, Reset, ResetSystem
<1>5. CASE UNCHANGED vars
  BY <1>5 DEF vars
<1> QED BY <1>1, <1>2, <1>3, <1>4, <1>5 DEF Next

LEMMA Invariance ==
    ASSUME Margin
    PROVE  Spec => []IInv
<1>1. Init => IInv
  BY SlateInit, BeatInit DEF Init, MonInit, IInv, StallInv, NoFalseReset, Recovering
<1>2. IInv /\ [Next]_vars => IInv'
  BY SlateNext, NotRebooted, BeatNext, StallNext, ResetNext DEF IInv, Slate
<1> QED BY <1>1, <1>2, PTL DEF Spec

(* Until Linux reboots the APU, the PMU never resets a system whose          *)
(* TrustZone has been beating, if MISS_THRESHOLD is greater than             *)
(* StallPolls: for the four cores of the ZCU102 and two polls to an interval *)
(* StallPolls is 7, and MISS_THRESHOLD is 8.                                 *)
THEOREM NoFalseResets ==
    ASSUME Margin
    PROVE  Spec => []NoFalseResetBeforeReboot
<1>1. IInv => NoFalseResetBeforeReboot
  BY DEF IInv, NoFalseResetBeforeReboot
<1> QED BY <1>1, Invariance, PTL

(* Until Linux reboots the APU, a forced reset always finds the PL blank and *)
(* the APU cores off, which the boot after it needs to get through.          *)
THEOREM ResetBoots == Spec => [](reboots = 0 => Bootable)
<1>1. Init => (reboots = 0 => BeatInv)
  BY BeatInit
<1>2. Slate /\ (reboots = 0 => BeatInv) /\ [Next]_vars => (reboots = 0 => BeatInv)'
  BY NotRebooted, BeatNext DEF Slate
<1>3. (reboots = 0 => BeatInv) => (reboots = 0 => Bootable)
  BY DEF BeatInv
<1> QED BY <1>1, <1>2, <1>3, SlateInvariance, PTL DEF Spec
=============================================================================

------------------------------ MODULE Heartbeat ------------------------------
(****************************************************************************)
(* What the EL3 heartbeat promises to its reader, the PMU: an abstraction   *)
(* of Ttc2Heartbeat in which the cores and their lost updates have gone.    *)
(*                                                                          *)
(* In every timer interval the register is written with values of a window  *)
(* above `floor', the counter's value at the start of the interval; the     *)
(* floor rises from interval to interval, and is never further than MaxLead *)
(* below what the register shows.                                           *)
(****************************************************************************)
EXTENDS Naturals

CONSTANT NumCores   \* cores that may run the handler, at least one

VARIABLES
    started,    \* an interval has begun since boot
    beating,    \* the interrupt of the current interval is being handled
    floor,      \* the counter when the current interval began
    HEARTBEAT   \* the register

hbVars == <<started, beating, floor, HEARTBEAT>>

MaxLead == IF NumCores > 2 THEN NumCores - 2 ELSE 0

Window == (floor + 1)..(floor + NumCores)

HbInit ==
    /\ started = FALSE
    /\ beating = FALSE
    /\ floor = 0
    /\ HEARTBEAT = 0

(* A timer interval elapses.                                                 *)
Begin ==
    /\ ~beating
    /\ beating' = TRUE
    /\ started' = TRUE
    /\ \/ ~started /\ floor' = floor
       \/ started /\ floor' \in {f \in Window : HEARTBEAT <= f + MaxLead}
    /\ UNCHANGED HEARTBEAT

(* A core publishes its value, possibly as the last one.                     *)
Publish ==
    /\ beating
    /\ HEARTBEAT' \in Window
    /\ beating' \in BOOLEAN
    /\ UNCHANGED <<started, floor>>

(* The last core leaves the handler.                                         *)
Finish ==
    /\ beating
    /\ HEARTBEAT \in Window
    /\ beating' = FALSE
    /\ UNCHANGED <<started, floor, HEARTBEAT>>

HbNext == Begin \/ Publish \/ Finish

HbSpec == HbInit /\ [][HbNext]_hbVars
=============================================================================

-------------------------------- MODULE Mutex --------------------------------
(****************************************************************************)
(* What the lock of BakeryLock promises its callers, and what CpuPower      *)
(* takes for granted of pd_lock and client_lock: taking it is one step, one *)
(* core has it at a time, and a core that wants it is not passed over for   *)
(* ever while it comes free again and again.                                *)
(****************************************************************************)
CONSTANT Cpus

VARIABLE state    \* cpu -> "idle", "waiting" or "holding"

MutexInit == state = [c \in Cpus |-> "idle"]

Request(c) ==
    /\ state[c] = "idle"
    /\ state' = [state EXCEPT ![c] = "waiting"]

Acquire(c) ==
    /\ state[c] = "waiting"
    /\ \A d \in Cpus : state[d] # "holding"
    /\ state' = [state EXCEPT ![c] = "holding"]

Release(c) ==
    /\ state[c] = "holding"
    /\ state' = [state EXCEPT ![c] = "idle"]

MutexNext == \E c \in Cpus : Request(c) \/ Acquire(c) \/ Release(c)

MutexSafety == MutexInit /\ [][MutexNext]_state

MutexSpec == /\ MutexSafety
             /\ \A c \in Cpus : SF_state(Acquire(c)) /\ WF_state(Release(c))
==============================================================================

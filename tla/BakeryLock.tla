----------------------------- MODULE BakeryLock -----------------------------
(****************************************************************************)
(* TF-A's bakery lock in coherent memory (lib/locks/bakery).  Two of them   *)
(* serialise the power management of the ZynqMP port: pm_client_secure_lock *)
(* around APU_PWRCTL, pm_secure_lock around the mailbox of the PMU.         *)
(*                                                                          *)
(* One step is one access to lock_data, which is single-copy atomic, fully  *)
(* ordered memory.  A core that waits sleeps in wfe until the event of a    *)
(* releasing core, which is remembered if it comes before the wfe.          *)
(****************************************************************************)
EXTENDS Naturals, FiniteSets

CONSTANTS
    BAKERY_LOCK_MAX_CPUS,   \* PLATFORM_CORE_COUNT
    TICKET_BITS,            \* width of the ticket in lock_data, 15
    MaxTicket               \* bound: tickets explored

(* The priority has eight bits for the core.                                 *)
ASSUME BakeryAssumption ==
    /\ BAKERY_LOCK_MAX_CPUS \in 1..256
    /\ 2^TICKET_BITS \in Nat
    /\ MaxTicket \in 1..(2^TICKET_BITS - 1)

Cpus == 0..(BAKERY_LOCK_MAX_CPUS - 1)

VARIABLES
    lock_data,      \* cpu -> choosing flag and ticket number, shared
    pc,             \* cpu -> where it is
    they,           \* cpu -> loop variable of both loops
    my_ticket,      \* cpu -> local
    their_ticket,   \* cpu -> local
    event           \* cpu -> event register of wfe

vars == <<lock_data, pc, they, my_ticket, their_ticket, event>>

(* Mutant of make_bakery_data: the reader does not shift the ticket back.    *)
make_bakery_dataShifted(choosing, num) ==
    [choosing |-> choosing, number |-> (2 * num) % 2^TICKET_BITS]

(* What the 16 bits of an entry hold of a ticket.                            *)
make_bakery_data(choosing, num) ==
    [choosing |-> choosing, number |-> num % 2^TICKET_BITS]

TypeOK ==
    /\ lock_data \in [Cpus -> [choosing : BOOLEAN, number : 0..MaxTicket]]
    /\ pc \in [Cpus -> {"out", "ticket", "compare", "wfe", "recheck", "in", "sev"}]
    /\ they \in [Cpus -> 0..BAKERY_LOCK_MAX_CPUS]
    /\ my_ticket \in [Cpus -> 0..MaxTicket]
    /\ their_ticket \in [Cpus -> 0..MaxTicket]
    /\ event \in [Cpus -> BOOLEAN]

Init ==
    /\ lock_data = [c \in Cpus |-> make_bakery_data(FALSE, 0)]
    /\ pc = [c \in Cpus |-> "out"]
    /\ they = [c \in Cpus |-> 0]
    /\ my_ticket = [c \in Cpus |-> 0]
    /\ their_ticket = [c \in Cpus |-> 0]
    /\ event = [c \in Cpus |-> FALSE]

Goto(me, step) == pc' = [pc EXCEPT ![me] = step]

(* The loop goes on with the next contender.                                 *)
Advance(me) == they' = [they EXCEPT ![me] = @ + 1]

Choosing == {c \in Cpus : pc[c] = "ticket"}

(* No ticket can exceed MaxTicket if one more core draws one: each of those  *)
(* drawing adds at most one to the highest.                                  *)
TicketsLeft == \A c \in Cpus : my_ticket[c] + Cardinality(Choosing) + 1 <= MaxTicket

-----------------------------------------------------------------------------
(* bakery_get_ticket: flag that the ticket is being chosen ...               *)
BeginTicket(me) ==
    /\ pc[me] = "out"
    /\ TicketsLeft
    /\ lock_data' = [lock_data EXCEPT ![me] = make_bakery_data(TRUE, 0)]
    /\ they' = [they EXCEPT ![me] = 0]
    /\ Goto(me, "ticket")
    /\ UNCHANGED <<my_ticket, their_ticket, event>>

(* Mutant of ReadTicket: the highest ticket is not kept.                     *)
ReadTicketForgets(me) ==
    /\ pc[me] = "ticket"
    /\ they[me] < BAKERY_LOCK_MAX_CPUS
    /\ Advance(me)
    /\ UNCHANGED <<lock_data, pc, my_ticket, their_ticket, event>>

(* ... find the highest ticket, one core after the other ...                 *)
ReadTicket(me) ==
    /\ pc[me] = "ticket"
    /\ they[me] < BAKERY_LOCK_MAX_CPUS
    /\ LET number == lock_data[they[me]].number
       IN  my_ticket' = [my_ticket EXCEPT ![me] = IF number > @ THEN number ELSE @]
    /\ Advance(me)
    /\ UNCHANGED <<lock_data, pc, their_ticket, event>>

(* Mutant of TakeTicket: the highest ticket is taken again.                  *)
TakeTicketNotRaised(me) ==
    /\ pc[me] = "ticket"
    /\ they[me] = BAKERY_LOCK_MAX_CPUS
    /\ my_ticket' = [my_ticket EXCEPT ![me] = IF @ = 0 THEN 1 ELSE @]
    /\ lock_data' = [lock_data EXCEPT ![me] = make_bakery_data(FALSE, my_ticket'[me])]
    /\ they' = [they EXCEPT ![me] = 0]
    /\ Goto(me, "compare")
    /\ UNCHANGED <<their_ticket, event>>

(* ... and publish a higher one.                                             *)
TakeTicket(me) ==
    /\ pc[me] = "ticket"
    /\ they[me] = BAKERY_LOCK_MAX_CPUS
    /\ my_ticket' = [my_ticket EXCEPT ![me] = @ + 1]
    /\ lock_data' = [lock_data EXCEPT ![me] = make_bakery_data(FALSE, my_ticket'[me])]
    /\ they' = [they EXCEPT ![me] = 0]
    /\ Goto(me, "compare")
    /\ UNCHANGED <<their_ticket, event>>

(* bakery_get_priority: (t << 8) | pos.                                      *)
bakery_get_priority(t, pos) == t * 256 + pos

(* bakery_lock_get: a contender with a ticket and a higher priority.         *)
Before(number, other, me) ==
    /\ number # 0
    /\ bakery_get_priority(number, other) < bakery_get_priority(my_ticket[me], me)

(* Mutant of Compare: a contender that is choosing is not waited for.        *)
CompareAtOnce(me) ==
    /\ pc[me] = "compare"
    /\ they[me] < BAKERY_LOCK_MAX_CPUS
    /\ they[me] # me
    /\ LET data == lock_data[they[me]]
       IN  IF Before(data.number, they[me], me)
           THEN /\ their_ticket' = [their_ticket EXCEPT ![me] = data.number]
                /\ Goto(me, "wfe")
                /\ UNCHANGED they
           ELSE Advance(me) /\ UNCHANGED <<pc, their_ticket>>
    /\ UNCHANGED <<lock_data, my_ticket, event>>

(* One contender: spin while it chooses, then wait if it comes first.        *)
Compare(me) ==
    /\ pc[me] = "compare"
    /\ they[me] < BAKERY_LOCK_MAX_CPUS
    /\ they[me] # me
    /\ LET data == lock_data[they[me]]
       IN  /\ ~data.choosing
           /\ IF Before(data.number, they[me], me)
              THEN /\ their_ticket' = [their_ticket EXCEPT ![me] = data.number]
                   /\ Goto(me, "wfe")
                   /\ UNCHANGED they
              ELSE Advance(me) /\ UNCHANGED <<pc, their_ticket>>
    /\ UNCHANGED <<lock_data, my_ticket, event>>

SkipSelf(me) ==
    /\ pc[me] = "compare"
    /\ they[me] = me
    /\ Advance(me)
    /\ UNCHANGED <<lock_data, pc, my_ticket, their_ticket, event>>

WaitForEvent(me) ==
    /\ pc[me] = "wfe"
    /\ event[me]
    /\ event' = [event EXCEPT ![me] = FALSE]
    /\ Goto(me, "recheck")
    /\ UNCHANGED <<lock_data, they, my_ticket, their_ticket>>

(* The wait is over when the ticket seen has changed, to whatever it is.     *)
Recheck(me) ==
    /\ pc[me] = "recheck"
    /\ IF lock_data[they[me]].number = their_ticket[me]
       THEN Goto(me, "wfe") /\ UNCHANGED they
       ELSE Goto(me, "compare") /\ Advance(me)
    /\ UNCHANGED <<lock_data, my_ticket, their_ticket, event>>

Enter(me) ==
    /\ pc[me] = "compare"
    /\ they[me] = BAKERY_LOCK_MAX_CPUS
    /\ Goto(me, "in")
    /\ UNCHANGED <<lock_data, they, my_ticket, their_ticket, event>>

(* bakery_lock_release: drop the ticket ...                                  *)
DropTicket(me) ==
    /\ pc[me] = "in"
    /\ lock_data' = [lock_data EXCEPT ![me] = make_bakery_data(FALSE, 0)]
    /\ my_ticket' = [my_ticket EXCEPT ![me] = 0]
    /\ their_ticket' = [their_ticket EXCEPT ![me] = 0]
    /\ Goto(me, "sev")
    /\ UNCHANGED <<they, event>>

(* ... and wake every core.                                                  *)
Sev(me) ==
    /\ pc[me] = "sev"
    /\ event' = [c \in Cpus |-> TRUE]
    /\ Goto(me, "out")
    /\ UNCHANGED <<lock_data, they, my_ticket, their_ticket>>

bakery_lock_get(me) ==
    \/ ReadTicket(me) \/ TakeTicket(me) \/ Compare(me) \/ SkipSelf(me)
    \/ WaitForEvent(me) \/ Recheck(me) \/ Enter(me)

bakery_lock_release(me) == DropTicket(me) \/ Sev(me)

Next == \E me \in Cpus : BeginTicket(me) \/ bakery_lock_get(me) \/ bakery_lock_release(me)

(* A core runs its EL3 code, and its critical section ends: neither of the   *)
(* two locks is held across a wait for anything but the PMU's answer.        *)
Fairness == \A me \in Cpus : WF_vars(bakery_lock_get(me) \/ bakery_lock_release(me))

Spec == Init /\ [][Next]_vars /\ Fairness

-----------------------------------------------------------------------------
(* At most one core is between bakery_lock_get and bakery_lock_release.      *)
MutualExclusion ==
    \A c, d \in Cpus : pc[c] = "in" /\ pc[d] = "in" => c = d

(* Cores that have drawn their ticket for this acquisition.                  *)
HasTicket(c) == pc[c] \in {"compare", "wfe", "recheck", "in"}

(* The lock goes to the lowest ticket, ties to the lower core: nobody who    *)
(* has drawn a ticket is overtaken by a core that came to the lock later     *)
(* ("The CPU with the highest priority (lowest numerical value) acquires the *)
(* lock", bakery_lock_coherent.c line 89), also if it comes back for it      *)
(* while the other still waits for its old ticket to change.                 *)
ServedInOrder ==
    \A c, d \in Cpus : pc[c] = "in" /\ d # c /\ HasTicket(d) =>
        bakery_get_priority(my_ticket[c], c) < bakery_get_priority(my_ticket[d], d)

(* Where the callers of the lock are in its abstract view.                   *)
LockState(c) == CASE pc[c] \in {"out", "sev"} -> "idle"
                  [] pc[c] = "in" -> "holding"
                  [] OTHER -> "waiting"

LockStates == [c \in Cpus |-> LockState(c)]

Abs == INSTANCE Mutex WITH state <- LockStates

(* bakery_lock_get and bakery_lock_release, access by access, implement the  *)
(* atomic lock, its fairness included: no event is lost between reading a    *)
(* ticket and the wfe, and no waiting core is passed for ever.               *)
RefinesMutex == Abs!MutexSpec

-----------------------------------------------------------------------------
(* The inductive strengthening behind the safety properties.                 *)

(* Every core that is drawing a ticket may still add one to the highest.     *)
TicketInv == \A c \in Cpus : my_ticket[c] + Cardinality(Choosing) <= MaxTicket

(* A core's choosing flag is up while it draws its ticket.                   *)
ChoosingInv == \A c \in Cpus : lock_data[c].choosing <=> pc[c] = "ticket"

(* What a core has published is what it knows.                               *)
DataInv ==
    \A c \in Cpus :
        /\ lock_data[c].number = IF HasTicket(c) THEN my_ticket[c] ELSE 0
        /\ HasTicket(c) => my_ticket[c] > 0
        /\ pc[c] \in {"out", "sev"} => my_ticket[c] = 0
        /\ pc[c] \in {"wfe", "recheck"} =>
              they[c] < BAKERY_LOCK_MAX_CPUS /\ they[c] # c /\ their_ticket[c] > 0
        /\ pc[c] = "in" => they[c] = BAKERY_LOCK_MAX_CPUS

(* c need not wait for d: d has the later ticket, or will draw one that is,  *)
(* because it has not read the ticket of c yet or has counted it in.         *)
Ahead(c, d) ==
    /\ HasTicket(d) =>
          bakery_get_priority(my_ticket[c], c) < bakery_get_priority(my_ticket[d], d)
    /\ pc[d] = "ticket" => they[d] <= c \/ my_ticket[d] >= my_ticket[c]

(* So it is for every contender that the loop of c has passed, and for the   *)
(* one it waits for as soon as the ticket it saw has changed.                *)
OrderInv ==
    \A c, d \in Cpus :
        HasTicket(c) /\ d # c =>
            /\ d < they[c] => Ahead(c, d)
            /\ pc[c] \in {"wfe", "recheck"} /\ they[c] = d =>
                  lock_data[d].number = their_ticket[c] \/ Ahead(c, d)

IInv == TypeOK /\ TicketInv /\ ChoosingInv /\ DataInv /\ OrderInv
=============================================================================

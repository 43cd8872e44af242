-------------------------- MODULE BakeryLockProofs --------------------------
(****************************************************************************)
(* Proofs about BakeryLock, for any number of cores up to 256.              *)
(****************************************************************************)
EXTENDS BakeryLock, FiniteSetTheorems, TLAPS

(* The sets of cores are finite.                                             *)
LEMMA CpusFinite ==
    \A S \in SUBSET Cpus : IsFiniteSet(S) /\ Cardinality(S) \in Nat
<1>1. IsFiniteSet(Cpus)
  BY BakeryAssumption, FS_Interval DEF Cpus
<1> QED BY <1>1, FS_Subset, FS_CardinalityType

LEMMA Bounds ==
    /\ MaxTicket \in Nat \ {0}
    /\ 0 \in 0..MaxTicket
    /\ BAKERY_LOCK_MAX_CPUS \in 1..256
<1>1. MaxTicket \in Nat \ {0}
  BY BakeryAssumption
<1> QED BY <1>1, BakeryAssumption

(* The fields of an entry.                                                   *)
LEMMA Fields ==
    ASSUME NEW choosing, NEW n, NEW e, e = [choosing |-> choosing, number |-> n]
    PROVE  e.choosing = choosing /\ e.number = n
  BY SMT

(* A ticket within the bound fits into the bits it has.                      *)
LEMMA TicketFits ==
    ASSUME NEW choosing \in BOOLEAN, NEW n \in 0..MaxTicket
    PROVE  /\ make_bakery_data(choosing, n) = [choosing |-> choosing, number |-> n]
           /\ make_bakery_data(choosing, n) \in [choosing : BOOLEAN, number : 0..MaxTicket]
<1> DEFINE M == 2^TICKET_BITS
<1>1. M \in Nat /\ n \in Nat /\ n < M
  BY BakeryAssumption
<1>2. n % M = n
  <2> HIDE DEF M
  <2> QED BY <1>1
<1>3. make_bakery_data(choosing, n) = [choosing |-> choosing, number |-> n]
  BY <1>2 DEF make_bakery_data
<1>4. [choosing |-> choosing, number |-> n] \in [choosing : BOOLEAN, number : 0..MaxTicket]
  BY Zenon
<1> QED BY <1>3, <1>4

(* A later ticket is a later priority, whoever has it.                       *)
LEMMA LaterTicket ==
    ASSUME NEW c \in Cpus, NEW d \in Cpus, NEW s \in Nat, NEW t \in Nat, s < t
    PROVE  bakery_get_priority(s, c) < bakery_get_priority(t, d)
  BY BakeryAssumption DEF Cpus, bakery_get_priority

(* The types, as the provers need them.                                      *)
LEMMA Types ==
    ASSUME TypeOK
    PROVE  /\ pc \in [Cpus -> {"out", "ticket", "compare", "wfe", "recheck", "in", "sev"}]
           /\ they \in [Cpus -> Nat]
           /\ my_ticket \in [Cpus -> Nat]
           /\ their_ticket \in [Cpus -> Nat]
           /\ \A c \in Cpus : they[c] <= BAKERY_LOCK_MAX_CPUS
           /\ \A c \in Cpus : my_ticket[c] <= MaxTicket
           /\ \A c \in Cpus : lock_data[c].number \in Nat
           /\ Cpus \subseteq Nat
           /\ \A c \in Nat : c < BAKERY_LOCK_MAX_CPUS <=> c \in Cpus
           /\ BAKERY_LOCK_MAX_CPUS \in Nat
           /\ MaxTicket \in Nat
           /\ Cardinality(Choosing) \in Nat
<1>1. \A c \in Cpus : lock_data[c].number \in 0..MaxTicket
  BY DEF TypeOK
<1>2. Cardinality(Choosing) \in Nat
  BY CpusFinite DEF Choosing
<1> QED BY <1>1, <1>2, Bounds DEF TypeOK, Cpus

(* The entry of a core after it has written it.                              *)
LEMMA Written ==
    ASSUME TypeOK, NEW me \in Cpus, NEW choosing \in BOOLEAN, NEW n \in 0..MaxTicket,
           lock_data' = [lock_data EXCEPT ![me] = make_bakery_data(choosing, n)]
    PROVE  /\ lock_data' \in [Cpus -> [choosing : BOOLEAN, number : 0..MaxTicket]]
           /\ \A c \in Cpus : lock_data'[c].number = IF c = me THEN n ELSE lock_data[c].number
           /\ lock_data'[me].choosing = choosing
           /\ \A c \in Cpus : c # me => lock_data'[c] = lock_data[c]
<1> DEFINE entry == make_bakery_data(choosing, n)
<1>1. entry = [choosing |-> choosing, number |-> n]
  BY TicketFits, Zenon
<1>2. entry \in [choosing : BOOLEAN, number : 0..MaxTicket]
  BY TicketFits, Zenon
<1>3. entry.choosing = choosing
  BY <1>1, Fields, Zenon
<1>4. entry.number = n
  BY <1>1, Fields, Zenon
<1> HIDE DEF entry
<1>5. lock_data' = [lock_data EXCEPT ![me] = entry]
  BY DEF entry
<1>6. lock_data \in [Cpus -> [choosing : BOOLEAN, number : 0..MaxTicket]]
  BY DEF TypeOK
<1>7. lock_data' \in [Cpus -> [choosing : BOOLEAN, number : 0..MaxTicket]]
  BY <1>2, <1>5, <1>6
<1>8. lock_data'[me] = entry /\ \A c \in Cpus : c # me => lock_data'[c] = lock_data[c]
  BY <1>5, <1>6
<1>9. \A c \in Cpus : lock_data'[c].number = IF c = me THEN n ELSE lock_data[c].number
  BY <1>4, <1>8
<1>10. lock_data'[me].choosing = choosing
  BY <1>3, <1>8, Zenon
<1> QED BY <1>7, <1>8, <1>9, <1>10, Zenon
(* The initial state satisfies the invariant.                                *)
LEMMA InvInit == Init => IInv
<1> SUFFICES ASSUME Init PROVE IInv
  OBVIOUS
<1>1. make_bakery_data(FALSE, 0) = [choosing |-> FALSE, number |-> 0]
  BY TicketFits, Bounds, Zenon
<1>2. TypeOK
  <2>1. /\ pc \in [Cpus -> {"out", "ticket", "compare", "wfe", "recheck", "in", "sev"}]
        /\ they \in [Cpus -> 0..BAKERY_LOCK_MAX_CPUS]
        /\ my_ticket \in [Cpus -> 0..MaxTicket]
        /\ their_ticket \in [Cpus -> 0..MaxTicket]
    BY Bounds DEF Init
  <2>2. event \in [Cpus -> BOOLEAN]
    BY Zenon DEF Init
  <2>3. make_bakery_data(FALSE, 0) \in [choosing : BOOLEAN, number : 0..MaxTicket]
    BY TicketFits, Bounds, Zenon
  <2>4. lock_data \in [Cpus -> [choosing : BOOLEAN, number : 0..MaxTicket]]
    BY <2>3, Zenon DEF Init
  <2> QED BY <2>1, <2>2, <2>4, Zenon DEF TypeOK
<1>3. Choosing = {}
  BY DEF Init, Choosing
<1>4. TicketInv
  BY <1>3, FS_EmptySet, Bounds DEF Init, TicketInv
<1>5. DataInv
  <2>1. ASSUME NEW c \in Cpus PROVE lock_data[c].number = 0
    <3>1. lock_data[c] = [choosing |-> FALSE, number |-> 0]
      BY <1>1, Zenon DEF Init
    <3> QED BY <3>1
  <2> QED BY <2>1 DEF Init, DataInv, HasTicket
<1>7. ChoosingInv
  <2> SUFFICES ASSUME NEW c \in Cpus PROVE lock_data[c].choosing <=> pc[c] = "ticket"
    BY DEF ChoosingInv
  <2>1. lock_data[c] = [choosing |-> FALSE, number |-> 0]
    BY <1>1, Zenon DEF Init
  <2>2. lock_data[c].choosing = FALSE
    BY <2>1, Fields, Zenon
  <2>3. pc[c] # "ticket"
    BY DEF Init
  <2> QED BY <2>2, <2>3, Zenon
<1>6. OrderInv
  BY DEF Init, OrderInv, HasTicket
<1> QED BY <1>2, <1>4, <1>5, <1>6, <1>7 DEF IInv


(* A core that starts to draw a ticket has read nobody's yet.                *)
LEMMA BeginTicketStep ==
    ASSUME IInv, NEW me \in Cpus, BeginTicket(me)
    PROVE  IInv'
<1>1. /\ pc' = [pc EXCEPT ![me] = "ticket"]
      /\ they' = [they EXCEPT ![me] = 0]
      /\ UNCHANGED <<my_ticket, their_ticket, event>>
      /\ pc[me] = "out" /\ TicketsLeft
  BY DEF BeginTicket, Goto
<1>2. TypeOK
  BY DEF IInv
<1>3. /\ lock_data' \in [Cpus -> [choosing : BOOLEAN, number : 0..MaxTicket]]
      /\ \A c \in Cpus : lock_data'[c].number = IF c = me THEN 0 ELSE lock_data[c].number
      /\ lock_data'[me].choosing = TRUE
      /\ \A c \in Cpus : c # me => lock_data'[c] = lock_data[c]
  BY <1>2, Written, Bounds, Zenon DEF BeginTicket
<1>4. TypeOK'
  BY <1>1, <1>2, <1>3, Bounds DEF TypeOK
<1>5. TicketInv'
  <2>1. Choosing' = Choosing \cup {me} /\ me \notin Choosing
    BY <1>1, <1>2, Types DEF Choosing
  <2>2. Cardinality(Choosing') = Cardinality(Choosing) + 1
    BY <2>1, CpusFinite, FS_AddElement DEF Choosing
  <2> QED BY <1>1, <1>2, <2>2, Types DEF TicketInv, TicketsLeft
<1>6. ChoosingInv'
  <2> SUFFICES ASSUME NEW c \in Cpus PROVE (lock_data[c].choosing <=> pc[c] = "ticket")'
    BY DEF ChoosingInv
  <2>1. pc'[me] = "ticket" /\ (c # me => pc'[c] = pc[c])
    BY <1>1, <1>2, Types
  <2> QED BY <1>3, <2>1, Zenon DEF IInv, ChoosingInv
<1>7. DataInv'
  BY <1>1, <1>2, <1>3, Types DEF IInv, DataInv, HasTicket
<1>8. OrderInv'
  BY <1>1, <1>2, <1>3, Types DEF IInv, OrderInv, DataInv, HasTicket, Ahead
<1> QED BY <1>4, <1>5, <1>6, <1>7, <1>8 DEF IInv

(* Only the flags and the steps decide ChoosingInv: it survives a step that  *)
(* leaves both the entries and the set of choosing cores alone.              *)
LEMMA FlagsKept ==
    ASSUME ChoosingInv, UNCHANGED lock_data,
           \A c \in Cpus : pc'[c] = "ticket" <=> pc[c] = "ticket"
    PROVE  ChoosingInv' /\ Choosing' = Choosing
<1>1. ChoosingInv'
  BY Zenon DEF ChoosingInv
<1>2. Choosing' = Choosing
  BY Zenon DEF Choosing
<1> QED BY <1>1, <1>2

(* A core that has counted in the ticket of c, or has it still to read, does *)
(* so after one more read.                                                   *)
LEMMA ReadTicketStep ==
    ASSUME IInv, NEW me \in Cpus, ReadTicket(me)
    PROVE  IInv'
<1> DEFINE n == lock_data[they[me]].number
           highest == IF n > my_ticket[me] THEN n ELSE my_ticket[me]
<1>1. TypeOK /\ TicketInv /\ ChoosingInv /\ DataInv /\ OrderInv
  BY DEF IInv
<1>2. /\ pc[me] = "ticket" /\ they[me] \in Cpus
      /\ they' = [they EXCEPT ![me] = they[me] + 1]
      /\ my_ticket' = [my_ticket EXCEPT ![me] = highest]
      /\ UNCHANGED <<lock_data, pc, their_ticket, event>>
  BY <1>1, Types DEF ReadTicket, Advance
<1>3. n \in Nat /\ n = (IF HasTicket(they[me]) THEN my_ticket[they[me]] ELSE 0)
  BY <1>1, <1>2, Types DEF DataInv
<1>4. /\ highest \in Nat /\ highest >= n /\ highest >= my_ticket[me]
      /\ highest = my_ticket[me] \/ highest = my_ticket[they[me]]
  BY <1>1, <1>2, <1>3, Types
<1> HIDE DEF n, highest
<1>5. TypeOK'
  <2>1. highest \in 0..MaxTicket
    BY <1>1, <1>2, <1>4, Types
  <2>2. they[me] + 1 \in 0..BAKERY_LOCK_MAX_CPUS
    BY <1>1, <1>2, Types
  <2> QED BY <1>1, <1>2, <2>1, <2>2 DEF TypeOK
<1>6. ChoosingInv' /\ Choosing' = Choosing
  BY <1>1, <1>2, FlagsKept
<1>7. TicketInv'
  BY <1>1, <1>2, <1>4, <1>6, Types DEF TicketInv
<1>8. DataInv'
  BY <1>1, <1>2, Types DEF DataInv, HasTicket
<1>9. OrderInv'
  <2> SUFFICES ASSUME NEW c \in Cpus, NEW d \in Cpus, HasTicket(c)', d # c
               PROVE  /\ (d < they[c] => Ahead(c, d))'
                      /\ (pc[c] \in {"wfe", "recheck"} /\ they[c] = d =>
                             lock_data[d].number = their_ticket[c] \/ Ahead(c, d))'
    BY Zenon DEF OrderInv
  <2>1. /\ c # me /\ HasTicket(c) /\ my_ticket'[c] = my_ticket[c]
        /\ they'[c] = they[c] /\ pc'[c] = pc[c]
    BY <1>1, <1>2, Types DEF HasTicket
  <2>2. Ahead(c, d) => Ahead(c, d)'
    <3>1. CASE d = me
      <4> SUFFICES ASSUME Ahead(c, me) PROVE Ahead(c, me)'
        BY <3>1
      <4>1. they[me] <= c \/ my_ticket[me] >= my_ticket[c]
        BY <1>2 DEF Ahead
      <4>2. they[me] = c => n = my_ticket[c]
        BY <1>3, <2>1
      <4>3. they'[me] = they[me] + 1 /\ my_ticket'[me] = highest
        BY <1>1, <1>2, Types
      <4>4. they[me] + 1 <= c \/ highest >= my_ticket[c]
        <5>1. /\ they[me] \in Nat /\ c \in Nat
              /\ my_ticket[me] \in Nat /\ my_ticket[c] \in Nat
          BY <1>1, Types
        <5> QED BY <1>3, <1>4, <4>1, <4>2, <5>1
      <4>5. ~HasTicket(me)'
        BY <1>2 DEF HasTicket
      <4> QED BY <2>1, <4>3, <4>4, <4>5 DEF Ahead
    <3>2. CASE d # me
      BY <1>1, <1>2, <2>1, <3>2, Types DEF Ahead, HasTicket
    <3> QED BY <3>1, <3>2
  <2> QED BY <1>1, <1>2, <2>1, <2>2 DEF OrderInv
<1> QED BY <1>5, <1>6, <1>7, <1>8, <1>9 DEF IInv

(* The ticket drawn is later than that of every core already past this one.  *)
LEMMA TakeTicketStep ==
    ASSUME IInv, NEW me \in Cpus, TakeTicket(me)
    PROVE  IInv'
<1> DEFINE t == my_ticket[me] + 1
<1>1. TypeOK /\ TicketInv /\ ChoosingInv /\ DataInv /\ OrderInv
  BY DEF IInv
<1>2. /\ pc[me] = "ticket" /\ they[me] = BAKERY_LOCK_MAX_CPUS
      /\ pc' = [pc EXCEPT ![me] = "compare"]
      /\ they' = [they EXCEPT ![me] = 0]
      /\ my_ticket' = [my_ticket EXCEPT ![me] = t]
      /\ UNCHANGED <<their_ticket, event>>
  BY DEF TakeTicket, Goto
<1>3. my_ticket'[me] = t
  BY <1>1, <1>2, Types
<1>4. Choosing' = Choosing \ {me} /\ me \in Choosing
  BY <1>1, <1>2, Types DEF Choosing
<1>5. Cardinality(Choosing') = Cardinality(Choosing) - 1
  BY <1>4, CpusFinite, FS_RemoveElement DEF Choosing
<1>6. Cardinality(Choosing') \in Nat
  BY <1>4, CpusFinite DEF Choosing
<1>7. TicketInv' /\ t \in 0..MaxTicket /\ t > 0
  BY <1>1, <1>2, <1>5, <1>6, Types DEF TicketInv
<1>8. lock_data' = [lock_data EXCEPT ![me] = make_bakery_data(FALSE, t)]
  BY <1>3 DEF TakeTicket
<1> HIDE DEF t
<1>9. /\ lock_data' \in [Cpus -> [choosing : BOOLEAN, number : 0..MaxTicket]]
      /\ \A c \in Cpus : lock_data'[c].number = IF c = me THEN t ELSE lock_data[c].number
      /\ lock_data'[me].choosing = FALSE
      /\ \A c \in Cpus : c # me => lock_data'[c] = lock_data[c]
  BY <1>1, <1>7, <1>8, Written, Zenon
<1>10. TypeOK'
  <2>1. they' \in [Cpus -> 0..BAKERY_LOCK_MAX_CPUS]
    BY <1>1, <1>2, Bounds DEF TypeOK
  <2>2. my_ticket' \in [Cpus -> 0..MaxTicket]
    BY <1>1, <1>2, <1>7 DEF TypeOK
  <2> QED BY <1>1, <1>2, <1>9, <2>1, <2>2 DEF TypeOK
<1>11. ChoosingInv'
  <2> SUFFICES ASSUME NEW c \in Cpus PROVE (lock_data[c].choosing <=> pc[c] = "ticket")'
    BY DEF ChoosingInv
  <2>1. pc'[me] # "ticket" /\ (c # me => pc'[c] = pc[c])
    BY <1>1, <1>2, Types
  <2> QED BY <1>1, <1>9, <2>1, Zenon DEF ChoosingInv
<1>12. DataInv'
  BY <1>1, <1>2, <1>7, <1>9, Types DEF DataInv, HasTicket
<1>13. OrderInv'
  <2> SUFFICES ASSUME NEW c \in Cpus, NEW d \in Cpus, HasTicket(c)', d # c
               PROVE  /\ (d < they[c] => Ahead(c, d))'
                      /\ (pc[c] \in {"wfe", "recheck"} /\ they[c] = d =>
                             lock_data[d].number = their_ticket[c] \/ Ahead(c, d))'
    BY Zenon DEF OrderInv
  <2>1. CASE c = me
    BY <1>1, <1>2, <2>1, Types
  <2>2. CASE c # me /\ d = me
    <3>1. /\ HasTicket(c) /\ my_ticket'[c] = my_ticket[c] /\ pc'[c] = pc[c]
          /\ they'[c] = they[c] /\ pc'[me] = "compare"
      BY <1>1, <1>2, <2>2, Types DEF HasTicket
    <3>2. Ahead(c, d) => Ahead(c, d)'
      <4> SUFFICES ASSUME Ahead(c, me) PROVE Ahead(c, me)'
        BY <2>2
      <4>1. my_ticket[c] < t
        BY <1>1, <1>2, Types DEF Ahead, t
      <4>2. bakery_get_priority(my_ticket[c], c) < bakery_get_priority(t, me)
        BY <1>1, <1>7, <4>1, LaterTicket, Types
      <4> QED BY <1>3, <3>1, <4>2 DEF Ahead
    <3>3. pc[c] \in {"wfe", "recheck"} => lock_data[me].number # their_ticket[c]
      BY <1>1, <1>2, Types DEF DataInv, HasTicket
    <3> QED BY <1>1, <1>2, <2>2, <3>1, <3>2, <3>3 DEF OrderInv
  <2>3. CASE c # me /\ d # me
    BY <1>1, <1>2, <1>9, <2>3, Types DEF OrderInv, HasTicket, Ahead
  <2> QED BY <2>1, <2>2, <2>3
<1> QED BY <1>7, <1>10, <1>11, <1>12, <1>13 DEF IInv

(* A contender is passed only when its ticket is later, or none.             *)
LEMMA CompareStep ==
    ASSUME IInv, NEW me \in Cpus, Compare(me)
    PROVE  IInv'
<1> DEFINE other == they[me]
<1>1. TypeOK /\ TicketInv /\ ChoosingInv /\ DataInv /\ OrderInv
  BY DEF IInv
<1>2. /\ pc[me] = "compare" /\ other \in Cpus /\ other # me
      /\ UNCHANGED <<lock_data, my_ticket, event>>
  BY <1>1, Types DEF Compare
<1>3. pc[other] # "ticket"
  BY <1>1, <1>2, Zenon DEF Compare, ChoosingInv
<1>4. lock_data[other].number = IF HasTicket(other) THEN my_ticket[other] ELSE 0
  BY <1>1, <1>2 DEF DataInv
<1> HIDE DEF other
<1>5. CASE /\ Before(lock_data[other].number, other, me)
           /\ their_ticket' = [their_ticket EXCEPT ![me] = lock_data[other].number]
           /\ pc' = [pc EXCEPT ![me] = "wfe"]
           /\ UNCHANGED they
  <2>1. lock_data[other].number \in 0..MaxTicket /\ lock_data[other].number > 0
    BY <1>1, <1>2, <1>4, <1>5, Types DEF Before, TypeOK
  <2>2. TypeOK'
    BY <1>1, <1>2, <1>5, <2>1 DEF TypeOK
  <2>3. ChoosingInv' /\ Choosing' = Choosing
    BY <1>1, <1>2, <1>5, Types, FlagsKept
  <2>4. TicketInv'
    BY <1>1, <1>2, <2>3 DEF TicketInv
  <2>5. DataInv'
    BY <1>1, <1>2, <1>5, <2>1, Types DEF DataInv, HasTicket, other
  <2>6. OrderInv'
    BY <1>1, <1>2, <1>5, Types DEF OrderInv, HasTicket, Ahead, other
  <2> QED BY <2>2, <2>3, <2>4, <2>5, <2>6 DEF IInv
<1>6. CASE /\ ~Before(lock_data[other].number, other, me)
           /\ they' = [they EXCEPT ![me] = other + 1]
           /\ UNCHANGED <<pc, their_ticket>>
  <2>1. TypeOK'
    <3>1. other + 1 \in 0..BAKERY_LOCK_MAX_CPUS
      BY <1>1, <1>2, Types
    <3> QED BY <1>1, <1>2, <1>6, <3>1 DEF TypeOK
  <2>2. ChoosingInv' /\ Choosing' = Choosing
    BY <1>1, <1>2, <1>6, FlagsKept
  <2>3. TicketInv'
    BY <1>1, <1>2, <2>2 DEF TicketInv
  <2>4. DataInv'
    BY <1>1, <1>2, <1>6, Types DEF DataInv, HasTicket
  <2>5. Ahead(me, other)
    <3> SUFFICES ASSUME HasTicket(other)
                 PROVE  bakery_get_priority(my_ticket[me], me)
                          < bakery_get_priority(my_ticket[other], other)
      BY <1>3 DEF Ahead
    <3>1. /\ lock_data[other].number = my_ticket[other] /\ my_ticket[other] # 0
          /\ my_ticket[other] \in Nat /\ my_ticket[me] \in Nat
      BY <1>1, <1>2, <1>4, Types DEF DataInv
    <3>2. ~(bakery_get_priority(my_ticket[other], other)
              < bakery_get_priority(my_ticket[me], me))
      BY <1>6, <3>1 DEF Before
    <3>3. me \in 0..255 /\ other \in 0..255
      BY <1>2, BakeryAssumption DEF Cpus
    <3> QED BY <1>2, <3>1, <3>2, <3>3 DEF bakery_get_priority
  <2>6. OrderInv'
    <3> SUFFICES ASSUME NEW c \in Cpus, NEW d \in Cpus, HasTicket(c)', d # c
                 PROVE  /\ (d < they[c] => Ahead(c, d))'
                        /\ (pc[c] \in {"wfe", "recheck"} /\ they[c] = d =>
                               lock_data[d].number = their_ticket[c] \/ Ahead(c, d))'
      BY Zenon DEF OrderInv
    <3>1. HasTicket(c) /\ (Ahead(c, d) => Ahead(c, d)')
      BY <1>1, <1>2, <1>6, Types DEF HasTicket, Ahead
    <3>2. CASE c = me
      <4>1. they'[me] = other + 1
        BY <1>1, <1>6, Types
      <4>2. d < other + 1 => d = other \/ d < other
        BY <1>1, <1>2, Types
      <4>3. d < other => Ahead(me, d)
        BY <1>1, <3>1, <3>2 DEF OrderInv, other
      <4>4. pc'[me] = "compare"
        BY <1>2, <1>6
      <4> QED BY <2>5, <3>1, <3>2, <4>1, <4>2, <4>3, <4>4
    <3>3. CASE c # me
      BY <1>1, <1>2, <1>6, <3>1, <3>3, Types DEF OrderInv
    <3> QED BY <3>2, <3>3
  <2> QED BY <2>1, <2>2, <2>3, <2>4, <2>6 DEF IInv
<1> QED BY <1>5, <1>6 DEF Compare, Goto, Advance, other

LEMMA SkipSelfStep ==
    ASSUME IInv, NEW me \in Cpus, SkipSelf(me)
    PROVE  IInv'
<1>1. TypeOK /\ TicketInv /\ ChoosingInv /\ DataInv /\ OrderInv
  BY DEF IInv
<1>2. /\ pc[me] = "compare" /\ they[me] = me
      /\ they' = [they EXCEPT ![me] = me + 1]
      /\ UNCHANGED <<lock_data, pc, my_ticket, their_ticket, event>>
  BY DEF SkipSelf, Advance
<1>3. TypeOK'
  <2>1. me + 1 \in 0..BAKERY_LOCK_MAX_CPUS
    BY <1>1, Types
  <2> QED BY <1>1, <1>2, <2>1 DEF TypeOK
<1>4. ChoosingInv' /\ Choosing' = Choosing
  BY <1>1, <1>2, FlagsKept
<1>5. TicketInv'
  BY <1>1, <1>2, <1>4 DEF TicketInv
<1>6. DataInv'
  BY <1>1, <1>2, Types DEF DataInv, HasTicket
<1>7. OrderInv'
  BY <1>1, <1>2, Types DEF OrderInv, HasTicket, Ahead
<1> QED BY <1>3, <1>4, <1>5, <1>6, <1>7 DEF IInv

LEMMA WaitForEventStep ==
    ASSUME IInv, NEW me \in Cpus, WaitForEvent(me)
    PROVE  IInv'
<1>1. TypeOK /\ TicketInv /\ ChoosingInv /\ DataInv /\ OrderInv
  BY DEF IInv
<1>2. /\ pc[me] = "wfe" /\ pc' = [pc EXCEPT ![me] = "recheck"]
      /\ UNCHANGED <<lock_data, they, my_ticket, their_ticket>>
  BY DEF WaitForEvent, Goto
<1>3. TypeOK'
  <2>1. event' \in [Cpus -> BOOLEAN]
    BY <1>1, Zenon DEF WaitForEvent, TypeOK
  <2> QED BY <1>1, <1>2, <2>1 DEF TypeOK
<1>4. ChoosingInv' /\ Choosing' = Choosing
  BY <1>1, <1>2, Types, FlagsKept
<1>5. TicketInv'
  BY <1>1, <1>2, <1>4 DEF TicketInv
<1>6. DataInv'
  BY <1>1, <1>2, Types DEF DataInv, HasTicket
<1>7. OrderInv'
  BY <1>1, <1>2, Types DEF OrderInv, HasTicket, Ahead
<1> QED BY <1>3, <1>4, <1>5, <1>6, <1>7 DEF IInv

(* A changed ticket means that the contender has come back behind this core. *)
LEMMA RecheckStep ==
    ASSUME IInv, NEW me \in Cpus, Recheck(me)
    PROVE  IInv'
<1>1. TypeOK /\ TicketInv /\ ChoosingInv /\ DataInv /\ OrderInv
  BY DEF IInv
<1>2. /\ pc[me] = "recheck"
      /\ UNCHANGED <<lock_data, my_ticket, their_ticket, event>>
  BY DEF Recheck
<1>3. they[me] \in Cpus /\ they[me] # me
  BY <1>1, <1>2, Types DEF DataInv
<1>4. CASE pc' = [pc EXCEPT ![me] = "wfe"] /\ UNCHANGED they
  <2>1. TypeOK'
    BY <1>1, <1>2, <1>4 DEF TypeOK
  <2>2. ChoosingInv' /\ Choosing' = Choosing
    BY <1>1, <1>2, <1>4, Types, FlagsKept
  <2>3. TicketInv'
    BY <1>1, <1>2, <2>2 DEF TicketInv
  <2>4. DataInv'
    BY <1>1, <1>2, <1>4, Types DEF DataInv, HasTicket
  <2>5. OrderInv'
    BY <1>1, <1>2, <1>4, Types DEF OrderInv, HasTicket, Ahead
  <2> QED BY <2>1, <2>2, <2>3, <2>4, <2>5 DEF IInv
<1>5. CASE /\ lock_data[they[me]].number # their_ticket[me]
           /\ pc' = [pc EXCEPT ![me] = "compare"]
           /\ they' = [they EXCEPT ![me] = they[me] + 1]
  <2>1. TypeOK'
    <3>1. they[me] + 1 \in 0..BAKERY_LOCK_MAX_CPUS
      BY <1>1, <1>3, Types
    <3> QED BY <1>1, <1>2, <1>5, <3>1 DEF TypeOK
  <2>2. ChoosingInv' /\ Choosing' = Choosing
    BY <1>1, <1>2, <1>5, Types, FlagsKept
  <2>3. TicketInv'
    BY <1>1, <1>2, <2>2 DEF TicketInv
  <2>4. DataInv'
    BY <1>1, <1>2, <1>5, Types DEF DataInv, HasTicket
  <2>5. Ahead(me, they[me])
    BY <1>1, <1>2, <1>3, <1>5 DEF OrderInv, HasTicket
  <2>6. OrderInv'
    BY <1>1, <1>2, <1>3, <1>5, <2>5, Types DEF OrderInv, HasTicket, Ahead
  <2> QED BY <2>1, <2>2, <2>3, <2>4, <2>6 DEF IInv
<1> QED BY <1>4, <1>5 DEF Recheck, Goto, Advance

LEMMA EnterStep ==
    ASSUME IInv, NEW me \in Cpus, Enter(me)
    PROVE  IInv'
<1>1. TypeOK /\ TicketInv /\ ChoosingInv /\ DataInv /\ OrderInv
  BY DEF IInv
<1>2. /\ pc[me] = "compare" /\ they[me] = BAKERY_LOCK_MAX_CPUS
      /\ pc' = [pc EXCEPT ![me] = "in"]
      /\ UNCHANGED <<lock_data, they, my_ticket, their_ticket, event>>
  BY DEF Enter, Goto
<1>3. TypeOK'
  BY <1>1, <1>2 DEF TypeOK
<1>4. ChoosingInv' /\ Choosing' = Choosing
  BY <1>1, <1>2, Types, FlagsKept
<1>5. TicketInv'
  BY <1>1, <1>2, <1>4 DEF TicketInv
<1>6. DataInv'
  BY <1>1, <1>2, Types DEF DataInv, HasTicket
<1>7. OrderInv'
  BY <1>1, <1>2, Types DEF OrderInv, HasTicket, Ahead
<1> QED BY <1>3, <1>4, <1>5, <1>6, <1>7 DEF IInv

(* Nobody has to wait for a core without a ticket.                           *)
LEMMA DropTicketStep ==
    ASSUME IInv, NEW me \in Cpus, DropTicket(me)
    PROVE  IInv'
<1>1. TypeOK /\ TicketInv /\ ChoosingInv /\ DataInv /\ OrderInv
  BY DEF IInv
<1>2. /\ pc[me] = "in" /\ pc' = [pc EXCEPT ![me] = "sev"]
      /\ my_ticket' = [my_ticket EXCEPT ![me] = 0]
      /\ their_ticket' = [their_ticket EXCEPT ![me] = 0]
      /\ UNCHANGED <<they, event>>
  BY DEF DropTicket, Goto
<1>3. /\ lock_data' \in [Cpus -> [choosing : BOOLEAN, number : 0..MaxTicket]]
      /\ \A c \in Cpus : lock_data'[c].number = IF c = me THEN 0 ELSE lock_data[c].number
      /\ lock_data'[me].choosing = FALSE
      /\ \A c \in Cpus : c # me => lock_data'[c] = lock_data[c]
  BY <1>1, Written, Bounds, Zenon DEF DropTicket
<1>4. TypeOK'
  <2>1. my_ticket' \in [Cpus -> 0..MaxTicket] /\ their_ticket' \in [Cpus -> 0..MaxTicket]
    BY <1>1, <1>2, Bounds DEF TypeOK
  <2> QED BY <1>1, <1>2, <1>3, <2>1 DEF TypeOK
<1>5. ChoosingInv'
  <2> SUFFICES ASSUME NEW c \in Cpus PROVE (lock_data[c].choosing <=> pc[c] = "ticket")'
    BY DEF ChoosingInv
  <2>1. pc'[me] # "ticket" /\ (c # me => pc'[c] = pc[c])
    BY <1>1, <1>2, Types
  <2> QED BY <1>1, <1>3, <2>1, Zenon DEF ChoosingInv
<1>6. TicketInv'
  <2>1. Choosing' = Choosing
    BY <1>1, <1>2, Types DEF Choosing
  <2> QED BY <1>1, <1>2, <2>1, Types DEF TicketInv
<1>7. DataInv'
  BY <1>1, <1>2, <1>3, Types DEF DataInv, HasTicket
<1>8. OrderInv'
  BY <1>1, <1>2, <1>3, Types DEF OrderInv, HasTicket, Ahead
<1> QED BY <1>4, <1>5, <1>6, <1>7, <1>8 DEF IInv

LEMMA SevStep ==
    ASSUME IInv, NEW me \in Cpus, Sev(me)
    PROVE  IInv'
<1>1. TypeOK /\ TicketInv /\ ChoosingInv /\ DataInv /\ OrderInv
  BY DEF IInv
<1>2. /\ pc[me] = "sev" /\ pc' = [pc EXCEPT ![me] = "out"]
      /\ UNCHANGED <<lock_data, they, my_ticket, their_ticket>>
  BY DEF Sev, Goto
<1>3. TypeOK'
  <2>1. event' \in [Cpus -> BOOLEAN]
    BY Zenon DEF Sev
  <2> QED BY <1>1, <1>2, <2>1 DEF TypeOK
<1>4. ChoosingInv' /\ Choosing' = Choosing
  BY <1>1, <1>2, Types, FlagsKept
<1>5. TicketInv'
  BY <1>1, <1>2, <1>4 DEF TicketInv
<1>6. DataInv'
  BY <1>1, <1>2, Types DEF DataInv, HasTicket
<1>7. OrderInv'
  BY <1>1, <1>2, Types DEF OrderInv, HasTicket, Ahead
<1> QED BY <1>3, <1>4, <1>5, <1>6, <1>7 DEF IInv

LEMMA InvStutter == IInv /\ UNCHANGED vars => IInv'
<1> SUFFICES ASSUME IInv, UNCHANGED vars PROVE IInv'
  OBVIOUS
<1>1. TypeOK /\ TicketInv /\ ChoosingInv /\ DataInv /\ OrderInv
  BY DEF IInv
<1>2. UNCHANGED <<lock_data, pc, they, my_ticket, their_ticket, event>>
  BY DEF vars
<1>3. TypeOK'
  BY <1>1, <1>2 DEF TypeOK
<1>4. ChoosingInv' /\ Choosing' = Choosing
  BY <1>1, <1>2, FlagsKept
<1>5. TicketInv'
  BY <1>1, <1>2, <1>4 DEF TicketInv
<1>6. DataInv'
  BY <1>1, <1>2 DEF DataInv, HasTicket
<1>7. OrderInv'
  BY <1>1, <1>2 DEF OrderInv, HasTicket, Ahead
<1> QED BY <1>3, <1>4, <1>5, <1>6, <1>7 DEF IInv

(* Every step of every core preserves the invariant.                         *)
LEMMA InvNext == IInv /\ [Next]_vars => IInv'
<1> SUFFICES ASSUME IInv, [Next]_vars PROVE IInv'
  OBVIOUS
<1>1. CASE UNCHANGED vars
  BY <1>1, InvStutter
<1>2. ASSUME NEW me \in Cpus, BeginTicket(me) PROVE IInv'
  BY <1>2, BeginTicketStep
<1>3. ASSUME NEW me \in Cpus, bakery_lock_get(me) PROVE IInv'
  BY <1>3, ReadTicketStep, TakeTicketStep, CompareStep, SkipSelfStep,
     WaitForEventStep, RecheckStep, EnterStep DEF bakery_lock_get
<1>4. ASSUME NEW me \in Cpus, bakery_lock_release(me) PROVE IInv'
  BY <1>4, DropTicketStep, SevStep DEF bakery_lock_release
<1> QED BY <1>1, <1>2, <1>3, <1>4 DEF Next

(* The inductive strengthening holds of the lock.                            *)
THEOREM Invariance == Spec => []IInv
  BY InvInit, InvNext, PTL DEF Spec

(* Every entry stays within its bits: the ticket of lock_data never wraps    *)
(* while MaxTicket, the highest one explored, fits (make_bakery_data).       *)
THEOREM TypeCorrect == Spec => []TypeOK
<1>1. IInv => TypeOK
  BY DEF IInv
<1> QED BY <1>1, Invariance, PTL

(* Of two cores in the lock each would be ahead of the other.                *)
LEMMA InvExcludes == IInv => MutualExclusion
<1> SUFFICES ASSUME IInv, NEW c \in Cpus, NEW d \in Cpus, pc[c] = "in", pc[d] = "in", c # d
             PROVE  FALSE
  BY DEF MutualExclusion
<1>1. TypeOK /\ DataInv /\ OrderInv
  BY DEF IInv
<1>2. Ahead(c, d) /\ Ahead(d, c) /\ HasTicket(c) /\ HasTicket(d)
  BY <1>1, Types DEF DataInv, OrderInv, HasTicket
<1>3. my_ticket[c] \in Nat /\ my_ticket[d] \in Nat /\ c \in Nat /\ d \in Nat
  BY <1>1, Types
<1> QED BY <1>2, <1>3 DEF Ahead, bakery_get_priority

(* The lock is held by one core at a time (bakery_lock_get), for any number  *)
(* of cores the priority has room for.                                       *)
THEOREM Exclusion == Spec => []MutualExclusion
  BY InvExcludes, Invariance, PTL

(* The holder has the highest priority of all cores with a ticket, also of   *)
(* those that came back for the lock while it waited (bakery_lock_get).      *)
THEOREM Order == Spec => []ServedInOrder
<1>1. IInv => ServedInOrder
  <2> SUFFICES ASSUME IInv, NEW c \in Cpus, NEW d \in Cpus, pc[c] = "in", d # c, HasTicket(d)
               PROVE  bakery_get_priority(my_ticket[c], c)
                        < bakery_get_priority(my_ticket[d], d)
    BY DEF ServedInOrder
  <2>1. TypeOK /\ DataInv /\ OrderInv
    BY DEF IInv
  <2>2. Ahead(c, d)
    BY <2>1, Types DEF DataInv, OrderInv, HasTicket
  <2> QED BY <2>2 DEF Ahead
<1> QED BY <1>1, Invariance, PTL

(* A step inside bakery_lock_get or bakery_lock_release is no step of the    *)
(* abstract lock.                                                            *)
LEMMA InnerStep ==
    ASSUME TypeOK, NEW me \in Cpus, NEW step,
           pc' = [pc EXCEPT ![me] = step],
           \/ /\ pc[me] \in {"ticket", "compare", "wfe", "recheck"}
              /\ step \in {"ticket", "compare", "wfe", "recheck"}
           \/ pc[me] = "sev" /\ step = "out"
    PROVE  LockStates' = LockStates
<1>1. pc \in [Cpus -> {"out", "ticket", "compare", "wfe", "recheck", "in", "sev"}]
  BY Types
<1>2. ASSUME NEW c \in Cpus PROVE LockState(c)' = LockState(c)
  BY <1>1 DEF LockState
<1> QED BY <1>2 DEF LockStates

(* Where a core changes its place in the abstract lock, it alone does.       *)
LEMMA OuterStep ==
    ASSUME TypeOK, NEW me \in Cpus, NEW step,
           pc' = [pc EXCEPT ![me] = step]
    PROVE  LockStates' = [LockStates EXCEPT ![me] = LockState(me)']
<1>1. pc \in [Cpus -> {"out", "ticket", "compare", "wfe", "recheck", "in", "sev"}]
  BY Types
<1>2. ASSUME NEW c \in Cpus, c # me PROVE LockState(c)' = LockState(c)
  BY <1>1, <1>2 DEF LockState
<1> QED BY <1>2 DEF LockStates

(* bakery_lock_get takes the lock in the step that leaves its loop, and      *)
(* bakery_lock_release frees it in the store that drops the ticket: access   *)
(* by access they implement the atomic lock.                                 *)
THEOREM Refinement == Spec => Abs!MutexSafety
<1>1. Init => Abs!MutexInit
  BY DEF Init, Abs!MutexInit, LockStates, LockState
<1>2. IInv /\ IInv' /\ [Next]_vars => [Abs!MutexNext]_LockStates
  <2> SUFFICES ASSUME IInv, IInv', [Next]_vars
               PROVE  Abs!MutexNext \/ LockStates' = LockStates
    OBVIOUS
  <2>1. TypeOK
    BY DEF IInv
  <2>2. CASE UNCHANGED vars
    BY <2>2 DEF vars, LockStates, LockState
  <2>3. ASSUME NEW me \in Cpus, BeginTicket(me) PROVE Abs!Request(me)
    <3>1. pc[me] = "out" /\ pc' = [pc EXCEPT ![me] = "ticket"]
      BY <2>3 DEF BeginTicket, Goto
    <3>2. LockStates' = [LockStates EXCEPT ![me] = "waiting"]
      <4>1. LockState(me)' = "waiting"
        BY <2>1, <3>1, Types DEF LockState
      <4> QED BY <2>1, <3>1, <4>1, OuterStep
    <3>3. LockStates[me] = "idle"
      BY <3>1 DEF LockStates, LockState
    <3> QED BY <3>2, <3>3 DEF Abs!Request
  <2>4. ASSUME NEW me \in Cpus, bakery_lock_get(me)
        PROVE  Abs!Acquire(me) \/ LockStates' = LockStates
    <3>1. CASE ReadTicket(me) \/ SkipSelf(me)
      BY <3>1 DEF ReadTicket, SkipSelf, LockStates, LockState
    <3>2. CASE TakeTicket(me) \/ WaitForEvent(me) \/ Recheck(me)
      BY <2>1, <3>2, InnerStep DEF TakeTicket, WaitForEvent, Recheck, Goto
    <3>3. CASE Compare(me)
      <4>1. CASE UNCHANGED pc
        BY <4>1 DEF LockStates, LockState
      <4>2. CASE pc[me] = "compare" /\ pc' = [pc EXCEPT ![me] = "wfe"]
        BY <2>1, <4>2, InnerStep
      <4> QED BY <3>3, <4>1, <4>2 DEF Compare, Goto
    <3>4. CASE Enter(me)
      <4>1. pc[me] = "compare" /\ pc' = [pc EXCEPT ![me] = "in"]
        BY <3>4 DEF Enter, Goto
      <4>2. LockStates' = [LockStates EXCEPT ![me] = "holding"]
        <5>1. LockState(me)' = "holding"
          BY <2>1, <4>1, Types DEF LockState
        <5> QED BY <2>1, <4>1, <5>1, OuterStep
      <4>3. LockStates[me] = "waiting"
        BY <4>1 DEF LockStates, LockState
      <4>4. ASSUME NEW d \in Cpus PROVE LockStates[d] # "holding"
        <5>1. pc'[me] = "in" /\ (d # me => pc'[d] = pc[d])
          BY <2>1, <4>1, Types
        <5>2. MutualExclusion'
          <6>1. (IInv => MutualExclusion)'
            BY InvExcludes, PTL
          <6> QED BY <6>1
        <5>3. pc[d] # "in"
          BY <4>1, <5>1, <5>2 DEF MutualExclusion
        <5> QED BY <5>3 DEF LockStates, LockState
      <4> QED BY <4>2, <4>3, <4>4 DEF Abs!Acquire
    <3> QED BY <2>4, <3>1, <3>2, <3>3, <3>4 DEF bakery_lock_get
  <2>5. ASSUME NEW me \in Cpus, bakery_lock_release(me)
        PROVE  Abs!Release(me) \/ LockStates' = LockStates
    <3>1. CASE Sev(me)
      BY <2>1, <3>1, InnerStep DEF Sev, Goto
    <3>2. CASE DropTicket(me)
      <4>1. pc[me] = "in" /\ pc' = [pc EXCEPT ![me] = "sev"]
        BY <3>2 DEF DropTicket, Goto
      <4>2. LockStates' = [LockStates EXCEPT ![me] = "idle"]
        <5>1. LockState(me)' = "idle"
          BY <2>1, <4>1, Types DEF LockState
        <5> QED BY <2>1, <4>1, <5>1, OuterStep
      <4>3. LockStates[me] = "holding"
        BY <4>1 DEF LockStates, LockState
      <4> QED BY <4>2, <4>3 DEF Abs!Release
    <3> QED BY <2>5, <3>1, <3>2 DEF bakery_lock_release
  <2> QED BY <2>2, <2>3, <2>4, <2>5 DEF Next, Abs!MutexNext
<1> QED BY <1>1, <1>2, Invariance, PTL DEF Spec, Abs!MutexSafety
=============================================================================

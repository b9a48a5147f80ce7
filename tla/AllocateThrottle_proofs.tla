----------------------- MODULE AllocateThrottle_proofs -----------------------
(***************************************************************************)
(* Proofs about AllocateThrottle, for every interval, number of callers    *)
(* and bound on the clock and the calls.                                   *)
(***************************************************************************)
EXTENDS AllocateThrottle, FiniteSetTheorems, TLAPS

\* The k-th slot is not before the k - 1 intervals that precede it.
Floor(k) == (k - 1) * Interval

\* Slots lie below nextAllocate, in the order of their tickets, not below their
\* floor, and requests go out at their slot or later.
SlotInv ==
    /\ TypeOK
    /\ SlotsApart
    /\ nextAllocate >= Floor(tickets + 1)
    /\ \A c \in Caller : Active(c) =>
         /\ ticket[c] \in 1 .. tickets
         /\ slot[c] + Interval <= nextAllocate
         /\ slot[c] >= Floor(ticket[c])
         /\ pc[c] = "create" => slot[c] <= now
    /\ \A k \in issued : Floor(k) <= now

\* The floors of successive tickets are Interval apart.
LEMMA FloorFacts ==
    ASSUME NEW k \in Nat
    PROVE  Floor(k + 1) \in Nat /\ Floor(k) \in Int
           /\ Floor(k + 1) = Floor(k) + Interval
<1>1. Interval \in Nat
  BY IntervalAssumption
<1>2. k * Interval = (k - 1) * Interval + Interval
  BY <1>1
<1> QED
  BY <1>1, <1>2 DEF Floor

\* An unused throttle satisfies SlotInv.
LEMMA InitSlot == Init => SlotInv
<1>1. Floor(1) = 0
  BY IntervalAssumption DEF Floor
<1> QED
  BY <1>1 DEF Init, SlotInv, TypeOK, SlotsApart, Active

\* Reserving, waiting, giving up, creating and time preserve SlotInv.
LEMMA NextSlot == SlotInv /\ [Next]_vars => SlotInv'
<1> SUFFICES ASSUME SlotInv, [Next]_vars PROVE SlotInv'
  OBVIOUS
<1> USE IntervalAssumption DEF SlotInv, TypeOK, SlotsApart, Active
<1>1. ASSUME NEW c \in Caller, Reserve(c) PROVE SlotInv'
  <2> DEFINE f == FreeSlot
  <2>1. f \in Nat /\ f >= now /\ f >= nextAllocate /\ (~(f > now) => f = now)
    BY DEF FreeSlot
  <2>2. Floor(tickets + 1) \in Nat
        /\ Floor((tickets + 1) + 1) = Floor(tickets + 1) + Interval
    BY FloorFacts
  <2>3. /\ slot' = [slot EXCEPT ![c] = f]
        /\ nextAllocate' = f + Interval
        /\ pc' = [pc EXCEPT ![c] = IF f > now THEN "wait" ELSE "create"]
        /\ cancelled' = [cancelled EXCEPT ![c] = FALSE]
        /\ tickets' = tickets + 1
        /\ ticket' = [ticket EXCEPT ![c] = tickets + 1]
        /\ UNCHANGED <<now, issued>>
    BY <1>1 DEF Reserve
  <2> HIDE DEF f
  <2>4. TypeOK'
    BY <2>1, <2>3
  <2>5. nextAllocate' >= Floor(tickets + 1)' /\ nextAllocate >= Floor(tickets + 1)
    BY <2>1, <2>2, <2>3 DEF Floor
  <2>6. \A e \in Caller \ {c} : /\ ticket'[e] = ticket[e] /\ slot'[e] = slot[e]
                                /\ pc'[e] = pc[e]
    BY <2>3
  <2>7. /\ ticket'[c] = tickets + 1 /\ slot'[c] = f
        /\ pc'[c] = IF f > now THEN "wait" ELSE "create"
    BY <2>3
  <2>8. SlotsApart'
    <3> SUFFICES ASSUME NEW e \in Caller, NEW g \in Caller, Active(e)', Active(g)',
                        ticket'[e] < ticket'[g]
                 PROVE  slot'[e] + Interval <= slot'[g]
      BY <2>3
    <3>1. CASE e = c
      BY <2>6, <2>7, <3>1
    <3>2. CASE e # c /\ g = c
      BY <2>1, <2>6, <2>7, <3>2
    <3>3. CASE e # c /\ g # c
      BY <2>6, <3>3
    <3> QED BY <3>1, <3>2, <3>3
  <2>9. ASSUME NEW e \in Caller, Active(e)'
        PROVE  /\ ticket'[e] \in 1 .. tickets'
               /\ slot'[e] + Interval <= nextAllocate'
               /\ slot'[e] >= Floor(ticket'[e])
               /\ pc'[e] = "create" => slot'[e] <= now'
    <3>1. CASE e = c
      BY <2>1, <2>2, <2>3, <2>5, <2>7, <3>1
    <3>2. CASE e # c
      BY <2>1, <2>3, <2>6, <2>9, <3>2
    <3> QED BY <3>1, <3>2
  <2>10. \A k \in issued' : Floor(k) <= now'
    BY <2>3
  <2> QED
    BY <2>3, <2>4, <2>5, <2>8, <2>9, <2>10 DEF Floor
<1>2. ASSUME NEW c \in Caller, TimerFires(c) PROVE SlotInv'
  BY <1>2 DEF TimerFires, Floor
<1>3. ASSUME NEW c \in Caller, GiveUp(c) PROVE SlotInv'
  BY <1>3 DEF GiveUp, Floor
<1>4. ASSUME NEW c \in Caller, Create(c) PROVE SlotInv'
  <2>1. /\ pc' = [pc EXCEPT ![c] = "idle"]
        /\ UNCHANGED <<now, nextAllocate, slot, cancelled, tickets, ticket>>
        /\ issued' \subseteq issued \cup {ticket[c]}
        /\ ticket[c] \in 1 .. tickets /\ slot[c] >= Floor(ticket[c])
        /\ slot[c] <= now
    BY <1>4 DEF Create
  <2>2. Floor(ticket[c]) \in Int
    BY FloorFacts
  <2>3. Floor(ticket[c]) <= now
    BY <2>1, <2>2
  <2>4. \A k \in issued' : Floor(k) <= now'
    BY <2>1, <2>3
  <2>5. TypeOK' /\ SlotsApart'
    BY <2>1
  <2>6. nextAllocate' >= Floor(tickets + 1)'
    BY <2>1 DEF Floor
  <2>7. \A e \in Caller : Active(e)' =>
          /\ e # c /\ Active(e)
          /\ ticket'[e] = ticket[e] /\ slot'[e] = slot[e] /\ pc'[e] = pc[e]
    BY <2>1
  <2> QED
    BY <2>1, <2>4, <2>5, <2>6, <2>7 DEF Floor
<1>5. ASSUME NEW c \in Caller, Cancel(c) PROVE SlotInv'
  BY <1>5 DEF Cancel, Floor
<1>6. CASE Tick
  <2>1. now' = now + 1 /\ \A k \in issued : Floor(k) \in Int
    BY <1>6, FloorFacts DEF Tick
  <2> QED
    BY <1>6, <2>1 DEF Tick, Floor
<1>7. CASE UNCHANGED vars
  BY <1>7 DEF vars, Floor
<1> QED
  BY <1>1, <1>2, <1>3, <1>4, <1>5, <1>6, <1>7 DEF Next

\* As many floors lie at or below a time t as intervals have begun by t.
LEMMA FloorsUpTo ==
    ASSUME NEW t \in Nat, NEW k \in Nat, Floor(k) <= t
    PROVE  k <= t \div Interval + 1
<1> DEFINE q == t \div Interval
<1>1. Interval \in Nat \ {0} /\ q \in Nat /\ t < (q + 1) * Interval
  BY IntervalAssumption
<1>2. ASSUME k >= q + 2 PROVE FALSE
  <2>1. PICK j \in Nat : k - 1 = q + 1 + j
    <3>1. k - 1 - (q + 1) \in Nat
      BY <1>1, <1>2
    <3> QED
      BY <1>1, <3>1
  <2>2. (k - 1) * Interval = (q + 1) * Interval + j * Interval
    BY <1>1, <2>1
  <2>3. j * Interval \in Nat
    BY <1>1
  <2> QED
    BY <1>1, <2>2, <2>3 DEF Floor
<1> QED
  BY <1>1, <1>2

\* The tickets whose floor is not after now are few enough.
LEMMA SlotsBoundRate == SlotInv => RateBound
<1> SUFFICES ASSUME SlotInv PROVE RateBound
  OBVIOUS
<1> DEFINE n == now \div Interval + 1
<1>1. n \in Nat /\ now \in Nat
  BY IntervalAssumption DEF SlotInv, TypeOK
<1>2. issued \subseteq 1 .. n
  <2>1. ASSUME NEW k \in issued PROVE k \in 1 .. n
    <3>1. k \in Nat /\ k >= 1 /\ Floor(k) <= now
      BY DEF SlotInv, TypeOK
    <3> QED
      BY <1>1, <3>1, FloorsUpTo
  <2> QED BY <2>1
<1> HIDE DEF n
<1>3. IsFiniteSet(1 .. n) /\ Cardinality(1 .. n) = n
  BY <1>1, FS_Interval
<1>4. Cardinality(issued) <= Cardinality(1 .. n)
  BY <1>2, <1>3, FS_Subset
<1> QED
  BY <1>3, <1>4 DEF RateBound, n

\* The throttle's clock, slots and tickets keep their types.
THEOREM TypeCorrect == Spec => []TypeOK
<1>1. SlotInv => TypeOK
  BY DEF SlotInv
<1> QED
  BY <1>1, InitSlot, NextSlot, PTL DEF Spec

\* No two callers hold slots closer than the interval.
THEOREM SlotsStayApart == Spec => []SlotsApart
<1>1. SlotInv => SlotsApart
  BY DEF SlotInv
<1> QED
  BY <1>1, InitSlot, NextSlot, PTL DEF Spec

\* By time t at most t / Interval + 1 requests were sent.
THEOREM RateIsBounded == Spec => []RateBound
BY InitSlot, NextSlot, SlotsBoundRate, PTL DEF Spec
=============================================================================

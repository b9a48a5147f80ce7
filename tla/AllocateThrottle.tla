-------------------------- MODULE AllocateThrottle --------------------------
(***************************************************************************)
(* Agones discovery in allocate mode: concurrent Resolve calls that share  *)
(* one allocate_min_interval throttle (internal/discovery/agones.go,       *)
(* allocate, reserveAllocateSlot).                                         *)
(*                                                                         *)
(* reserveAllocateSlot holds allocateMu throughout, so it is one step.     *)
(* Without an interval the calls do not meet, and are left out.  Time is a *)
(* natural number; nextAllocate = 0 is the zero time.Time.  What the       *)
(* answer of the Kubernetes API is turned into is left out: a call returns *)
(* a backend or an error.  Tickets number the reservations; they are not   *)
(* in the code.                                                            *)
(***************************************************************************)
EXTENDS Integers, FiniteSets

CONSTANTS
    Caller,        \* goroutines in Resolve
    Interval,      \* allocate_min_interval, which is set
    MaxTickets,    \* bound: calls that are made
    LastCall,      \* bound: no call begins after this time
    MaxNow         \* bound: the clock stops here, after the last possible slot

ASSUME IntervalAssumption == Interval \in Nat \ {0}
ASSUME BoundAssumption ==
    /\ MaxTickets \in Nat /\ LastCall \in Nat /\ MaxNow \in Nat
    /\ MaxNow >= LastCall + Interval * MaxTickets

VARIABLES
    now,           \* the clock
    nextAllocate,  \* the earliest slot not taken
    pc,            \* per caller: idle, waiting for its slot, about to create
    slot,          \* per caller: the time its timer fires
    cancelled,     \* per caller: its context is done
    tickets,       \* reservations so far
    ticket,        \* per caller: its reservation
    issued         \* tickets whose allocation request was sent

vars == <<now, nextAllocate, pc, slot, cancelled, tickets, ticket, issued>>

Init ==
    /\ now = 0 /\ nextAllocate = 0
    /\ pc = [c \in Caller |-> "idle"]
    /\ slot = [c \in Caller |-> 0]
    /\ cancelled = [c \in Caller |-> FALSE]
    /\ tickets = 0
    /\ ticket = [c \in Caller |-> 0]
    /\ issued = {}

\* Mutant: the next slot is counted from now, not from the slot taken.
FreeSlotFromNow == now

\* Mutant: an idle throttle grants the slot of the interval before.
FreeSlotBackdated == IF now < nextAllocate THEN nextAllocate ELSE now - Interval

\* The slot a reservation made now gets.
FreeSlot == IF now < nextAllocate THEN nextAllocate ELSE now

\* The next Connect makes the caller allocate.
Calls(c) == pc[c] = "idle" /\ now <= LastCall /\ tickets < MaxTickets

\* reserveAllocateSlot: take the slot; wait for it unless it is now.
Reserve(c) ==
    /\ Calls(c)
    /\ slot' = [slot EXCEPT ![c] = FreeSlot]
    /\ nextAllocate' = FreeSlot + Interval
    /\ pc' = [pc EXCEPT ![c] = IF FreeSlot > now THEN "wait" ELSE "create"]
    /\ cancelled' = [cancelled EXCEPT ![c] = FALSE]
    /\ tickets' = tickets + 1
    /\ ticket' = [ticket EXCEPT ![c] = tickets + 1]
    /\ UNCHANGED <<now, issued>>

\* Mutant: the timer is armed with half the wait.
TimerFiresSoon(c) ==
    /\ pc[c] = "wait" /\ 2 * now >= slot[c]
    /\ pc' = [pc EXCEPT ![c] = "create"]
    /\ UNCHANGED <<now, nextAllocate, slot, cancelled, tickets, ticket, issued>>

\* Mutant: the timer is forgotten, only the context ends the wait.
TimerNeverFires(c) == pc[c] = "wait" /\ now >= slot[c] /\ UNCHANGED vars

\* case <-t.C
TimerFires(c) ==
    /\ pc[c] = "wait" /\ now >= slot[c]
    /\ pc' = [pc EXCEPT ![c] = "create"]
    /\ UNCHANGED <<now, nextAllocate, slot, cancelled, tickets, ticket, issued>>

\* case <-ctx.Done(): the slot stays taken.
GiveUp(c) ==
    /\ pc[c] = "wait" /\ cancelled[c]
    /\ pc' = [pc EXCEPT ![c] = "idle"]
    /\ UNCHANGED <<now, nextAllocate, slot, cancelled, tickets, ticket, issued>>

\* Create sends the request; an allocated server or an error is returned.  With
\* a context that is done it may fail before anything is sent.
Create(c) ==
    /\ pc[c] = "create"
    /\ pc' = [pc EXCEPT ![c] = "idle"]
    /\ \/ issued' = issued \cup {ticket[c]}
       \/ cancelled[c] /\ UNCHANGED issued
    /\ UNCHANGED <<now, nextAllocate, slot, cancelled, tickets, ticket>>

\* The client's connection closes and with it the context of its Decide.
Cancel(c) ==
    /\ pc[c] # "idle" /\ ~cancelled[c]
    /\ cancelled' = [cancelled EXCEPT ![c] = TRUE]
    /\ UNCHANGED <<now, nextAllocate, pc, slot, tickets, ticket, issued>>

Tick ==
    /\ now < MaxNow
    /\ now' = now + 1
    /\ UNCHANGED <<nextAllocate, pc, slot, cancelled, tickets, ticket, issued>>

Next ==
    \/ \E c \in Caller : \/ Reserve(c) \/ TimerFires(c) \/ GiveUp(c)
                         \/ Create(c) \/ Cancel(c)
    \/ Tick

Spec == Init /\ [][Next]_vars

\* Time passes, goroutines are scheduled and API calls return.
LiveSpec ==
    /\ Spec
    /\ WF_vars(Tick)
    /\ \A c \in Caller : WF_vars(TimerFires(c) \/ GiveUp(c) \/ Create(c))

-----------------------------------------------------------------------------
TypeOK ==
    /\ now \in Nat /\ nextAllocate \in Nat
    /\ pc \in [Caller -> {"idle", "wait", "create"}]
    /\ slot \in [Caller -> Nat]
    /\ cancelled \in [Caller -> BOOLEAN]
    /\ tickets \in Nat
    /\ ticket \in [Caller -> 0 .. tickets]
    /\ issued \subseteq 1 .. tickets

Active(c) == pc[c] # "idle"

\* Two callers never share a slot, nor hold slots closer than the interval, in
\* whatever order they called, waited, were late or gave up.
SlotsApart ==
    \A c, e \in Caller :
        Active(c) /\ Active(e) /\ ticket[c] < ticket[e] =>
            slot[c] + Interval <= slot[e]

\* The throttle holds over time: by any time t the API has received at most
\* t / Interval + 1 requests, however the callers' delays and cancellations fall.
RateBound == Cardinality(issued) <= now \div Interval + 1

\* Every caller gets through, although the slots of those who gave up are lost
\* to those behind them: the wait is bounded by the slots already taken.
EveryCallEnds == \A c \in Caller : Active(c) ~> ~Active(c)
=============================================================================

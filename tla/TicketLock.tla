----------------------------- MODULE TicketLock -----------------------------
(***************************************************************************)
(* til::ticket_lock (src/src/inc/til/ticket_lock.h) on top of the          *)
(* WaitOnAddress wrappers of src/src/inc/til/atomic.h.                     *)
(*                                                                         *)
(* Every access to one of the two atomics is a step of its own.  A thread  *)
(* that runs lock() goes through                                           *)
(*     "idle" -> "load" -> "holding"           the ticket was being served *)
(*     "idle" -> "load" -> "compare" -> "asleep" -> "load" ...             *)
(* and one that runs unlock() through "holding" -> "notify" -> "idle".     *)
(***************************************************************************)
EXTENDS Integers, FiniteSets, Sequences

CONSTANTS
    Threads,
    TicketSpan      \* how many values the ticket counters have (2^32 in the code)

\* Every thread can hold a ticket of its own before the counters wrap around.
ASSUME TicketSpanAssumption ==
    /\ IsFiniteSet(Threads)
    /\ TicketSpan \in Nat \ {0}
    /\ Cardinality(Threads) <= TicketSpan

VARIABLES
    next_ticket,    \* _next_ticket
    now_serving,    \* _now_serving
    pc,             \* where each thread is in lock() or unlock()
    ticket,         \* lock()'s local `ticket`
    current         \* lock()'s local `current`

vars == <<next_ticket, now_serving, pc, ticket, current>>

Tickets == 0 .. TicketSpan - 1

\* A counter that grows without wrapping around.
SuccUnbounded(n) == n + 1

\* fetch_add(1) on an unsigned counter of TicketSpan values.
Succ(n) == IF n = TicketSpan - 1 THEN 0 ELSE n + 1

\* The threads that hold a ticket which has not been given back by unlock().
Holders == {t \in Threads : pc[t] \in {"load", "compare", "asleep", "holding"}}

TypeOK ==
    /\ next_ticket \in Tickets
    /\ now_serving \in Tickets
    /\ pc \in [Threads -> {"idle", "load", "compare", "asleep", "holding", "notify"}]
    /\ ticket \in [Threads -> Tickets]
    /\ current \in [Threads -> Tickets]

Init ==
    /\ next_ticket = 0
    /\ now_serving = 0
    /\ pc = [t \in Threads |-> "idle"]
    /\ ticket = [t \in Threads |-> 0]
    /\ current = [t \in Threads |-> 0]

-----------------------------------------------------------------------------
\* The ticket read and the counter advanced only when nobody holds a ticket.
TakeTicketLost(t) ==
    /\ pc[t] = "idle"
    /\ ticket' = [ticket EXCEPT ![t] = next_ticket]
    /\ next_ticket' = IF Holders = {} THEN Succ(next_ticket) ELSE next_ticket
    /\ pc' = [pc EXCEPT ![t] = "load"]
    /\ UNCHANGED <<now_serving, current>>

\* ticket = _next_ticket.fetch_add(1)
TakeTicket(t) ==
    /\ pc[t] = "idle"
    /\ ticket' = [ticket EXCEPT ![t] = next_ticket]
    /\ next_ticket' = Succ(next_ticket)
    /\ pc' = [pc EXCEPT ![t] = "load"]
    /\ UNCHANGED <<now_serving, current>>

\* The loop left after the first sleep, without looking at _now_serving again.
LoadServingNoRecheck(t) ==
    /\ pc[t] = "load"
    /\ current' = [current EXCEPT ![t] = now_serving]
    /\ pc' = [pc EXCEPT ![t] = IF now_serving \in {ticket[t], current[t]}
                               THEN "holding" ELSE "compare"]
    /\ UNCHANGED <<next_ticket, now_serving, ticket>>

\* current = _now_serving.load(); leave the loop when it is this thread's turn
LoadServing(t) ==
    /\ pc[t] = "load"
    /\ current' = [current EXCEPT ![t] = now_serving]
    /\ pc' = [pc EXCEPT ![t] = IF now_serving = ticket[t] THEN "holding" ELSE "compare"]
    /\ UNCHANGED <<next_ticket, now_serving, ticket>>

\* WaitOnAddress without its comparison: the thread sleeps whatever the value.
AtomicWaitNoCompare(t) ==
    /\ pc[t] = "compare"
    /\ pc' = [pc EXCEPT ![t] = "asleep"]
    /\ UNCHANGED <<next_ticket, now_serving, ticket, current>>

\* atomic_wait(_now_serving, current): WaitOnAddress compares and falls asleep
\* in one step; it returns at once when the value has changed.
AtomicWait(t) ==
    /\ pc[t] = "compare"
    /\ pc' = [pc EXCEPT ![t] = IF now_serving = current[t] THEN "asleep" ELSE "load"]
    /\ UNCHANGED <<next_ticket, now_serving, ticket, current>>

\* WaitOnAddress may return although nobody called WakeByAddress.
SpuriousWake(t) ==
    /\ pc[t] = "asleep"
    /\ pc' = [pc EXCEPT ![t] = "load"]
    /\ UNCHANGED <<next_ticket, now_serving, ticket, current>>

\* unlock(): _now_serving.fetch_add(1).  The locals of lock() are dead by now.
ServeNext(t) ==
    /\ pc[t] = "holding"
    /\ now_serving' = Succ(now_serving)
    /\ pc' = [pc EXCEPT ![t] = "notify"]
    /\ ticket' = [ticket EXCEPT ![t] = 0]
    /\ current' = [current EXCEPT ![t] = 0]
    /\ UNCHANGED next_ticket

\* unlock() with atomic_notify_one: at most one sleeper is woken.
NotifyOne(t) ==
    /\ pc[t] = "notify"
    /\ \E w \in {s \in Threads : pc[s] = "asleep"} \cup {t} :
         pc' = [pc EXCEPT ![w] = "load", ![t] = "idle"]
    /\ UNCHANGED <<next_ticket, now_serving, ticket, current>>

\* unlock(): atomic_notify_all(_now_serving)
NotifyAll(t) ==
    /\ pc[t] = "notify"
    /\ pc' = [s \in Threads |-> IF s = t THEN "idle"
                                ELSE IF pc[s] = "asleep" THEN "load"
                                ELSE pc[s]]
    /\ UNCHANGED <<next_ticket, now_serving, ticket, current>>

\* The steps a thread takes once it is inside lock() or unlock().
LockStep(t) == LoadServing(t) \/ AtomicWait(t)
UnlockStep(t) == ServeNext(t) \/ NotifyAll(t)

Next == \E t \in Threads : TakeTicket(t) \/ LockStep(t) \/ SpuriousWake(t) \/ UnlockStep(t)

Spec == Init /\ [][Next]_vars

-----------------------------------------------------------------------------
\* At most one thread is between the end of lock() and the fetch_add of
\* unlock(), also when the counters have wrapped around ("Integer overflow
\* doesn't break the algorithm", ticket_lock.h:51).
MutualExclusion ==
    \A s, t \in Threads : pc[s] = "holding" /\ pc[t] = "holding" => s = t

\* The distance from the ticket being served to ticket n, counted forwards.
Offset(n) == IF n >= now_serving THEN n - now_serving ELSE n + TicketSpan - now_serving

\* The tickets handed out by fetch_add and not yet given back by unlock() are
\* the window that starts at _now_serving and ends before _next_ticket, one
\* ticket per thread, and only the thread with the first one is inside.  This
\* is what makes the wrap-around harmless.
TicketWindow ==
    /\ \A s, t \in Holders : ticket[s] = ticket[t] => s = t
    /\ \A t \in Holders : Offset(ticket[t]) < Cardinality(Holders)
    /\ next_ticket = LET n == now_serving + Cardinality(Holders)
                     IN IF n < TicketSpan THEN n ELSE n - TicketSpan
    /\ \A t \in Threads : pc[t] = "holding" => ticket[t] = now_serving

\* No wake-up is lost: a thread that drew a ticket in lock() gets the lock,
\* though unlock() notifies in a step separate from its fetch_add.
LockIsGranted ==
    \A t \in Threads : pc[t] = "load" ~> pc[t] = "holding"

\* The threads with a ticket, in the order in which they are served (anybody
\* where nobody has the ticket that is to be served).
Line ==
    [i \in 1 .. Cardinality(Holders) |->
        CHOOSE t \in Holders :
            Offset(ticket[t]) = i - 1 \/ \A u \in Holders : Offset(ticket[u]) # i - 1]

Abstract == INSTANCE FifoLock
    WITH queue <- Line, inside <- \E t \in Threads : pc[t] = "holding"

\* lock() serves the threads in the order of their fetch_add on _next_ticket:
\* the class comment's "classic fair lock" (ticket_lock.h:10).
IsFifoLock == Abstract!Spec

=============================================================================

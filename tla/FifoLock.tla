------------------------------ MODULE FifoLock ------------------------------
(***************************************************************************)
(* What a fair lock promises its clients: the threads that asked for it    *)
(* are served one at a time and in the order in which they asked.          *)
(*                                                                         *)
(* queue   the threads that called lock() and have not yet left the lock,  *)
(*         in the order of their calls;                                    *)
(* inside  TRUE while the head of the queue holds the lock.                *)
(***************************************************************************)
EXTENDS Naturals, Sequences

CONSTANT Threads

VARIABLES queue, inside

vars == <<queue, inside>>

TypeOK ==
    /\ queue \in Seq(Threads)
    /\ inside \in BOOLEAN

Init ==
    /\ queue = <<>>
    /\ inside = FALSE

Ask(t) ==
    /\ \A i \in DOMAIN queue : queue[i] # t
    /\ queue' = Append(queue, t)
    /\ UNCHANGED inside

Enter(t) ==
    /\ ~inside
    /\ queue # <<>>
    /\ Head(queue) = t
    /\ inside' = TRUE
    /\ UNCHANGED queue

Leave(t) ==
    /\ inside
    /\ Head(queue) = t
    /\ queue' = Tail(queue)
    /\ inside' = FALSE

Next == \E t \in Threads : Ask(t) \/ Enter(t) \/ Leave(t)

Spec == Init /\ [][Next]_vars

=============================================================================

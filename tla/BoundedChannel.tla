--------------------------- MODULE BoundedChannel ---------------------------
(***************************************************************************)
(* What til::spsc::channel promises: "a bounded, lock-free, single-        *)
(* producer, single-consumer FIFO queue" (src/src/inc/til/spsc.h:629-630). *)
(* Items are numbered in the order in which they are pushed.  An item may  *)
(* be lost only when the consumer is gone.                                 *)
(***************************************************************************)
EXTENDS Naturals, Sequences

CONSTANT Capacity

VARIABLES
    queue,      \* the items that can be popped
    pushed,     \* how many items have been pushed
    popped,     \* the items popped, in order
    open        \* the sides that have not been dropped

vars == <<queue, pushed, popped, open>>

Init ==
    /\ queue = <<>>
    /\ pushed = 0
    /\ popped = <<>>
    /\ open = {"producer", "consumer"}

\* Several items become visible at once.
Push(n) ==
    /\ "producer" \in open
    /\ n > 0
    /\ Len(queue) + n <= Capacity
    /\ queue' = queue \o [i \in 1 .. n |-> pushed + i]
    /\ pushed' = pushed + n
    /\ UNCHANGED <<popped, open>>

Pop ==
    /\ "consumer" \in open
    /\ queue # <<>>
    /\ popped' = Append(popped, Head(queue))
    /\ queue' = Tail(queue)
    /\ UNCHANGED <<pushed, open>>

Close(side) ==
    /\ side \in open
    /\ open' = open \ {side}
    /\ UNCHANGED <<queue, pushed, popped>>

\* The second side to go takes the items that are left with it.
Destroy ==
    /\ open = {}
    /\ queue' = <<>>
    /\ UNCHANGED <<pushed, popped, open>>

Next ==
    \/ \E n \in 1 .. Capacity : Push(n)
    \/ Pop
    \/ \E side \in {"producer", "consumer"} : Close(side)
    \/ Destroy

Spec == Init /\ [][Next]_vars

=============================================================================

-------------------------------- MODULE Spsc --------------------------------
(***************************************************************************)
(* til::spsc (src/src/inc/til/spsc.h): the ring buffer `arc` shared by a   *)
(* producer and a consumer.  Every access to one of the atomics and every  *)
(* construction, move or destruction of an item is a step of its own.      *)
(*                                                                         *)
(* A position is its three fields, which are bits of one 32-bit integer in *)
(* the code; they do not overlap for capacities below 2^30.  The wait and  *)
(* notify of the atomics are the futex of Windows or Linux: comparing and  *)
(* falling asleep is one step.  Item types do not throw.                   *)
(***************************************************************************)
EXTENDS Integers, Sequences

CONSTANTS
    Capacity,   \* _capacity
    MaxItems,   \* bound on the items pushed
    MaxCount    \* bound on the items of one push_n() or pop_n()

\* channel() refuses the capacity 0.
ASSUME CapacityAssumption == Capacity \in Nat \ {0}
ASSUME BoundsAssumption == MaxItems \in Nat /\ MaxCount \in Nat \ {0}

VARIABLES
    pos,        \* _producer and _consumer
    dropped,    \* _eitherSideDropped
    freed,      \* the arc has been deleted
    slots,      \* _data: raw memory, an item, or what is left of a moved item
    pc,         \* where each side is in its member function
    call,       \* the arguments and locals of push_n and pop_n
    acq,        \* the acquisition [begin, end), and the position that releases it
    cursor,     \* the slot being constructed, moved or destroyed
    seen,       \* acquire()'s local theirPos
    pushed,     \* history: how many items the producer has released
    popped      \* history: the items the consumer has moved out, in order

arcVars == <<pos, dropped, freed>>
histVars == <<pushed, popped>>
vars == <<arcVars, slots, pc, call, acq, cursor, seen, histVars>>

Sides == {"producer", "consumer"}
Other(s) == IF s = "producer" THEN "consumer" ELSE "producer"

Slots == 0 .. Capacity - 1
Positions == [at : Slots, revolution : BOOLEAN, drop : BOOLEAN]
Acquisitions == [begin : Slots, end : 0 .. Capacity, next : Positions]

Raw == [state |-> "raw", item |-> 0]
Live(n) == [state |-> "live", item |-> n]
Moved == [state |-> "moved", item |-> 0]

Start == [at |-> 0, revolution |-> FALSE, drop |-> FALSE]

\* Where a member function can be.
Labels == {"idle", "acquire", "wait", "asleep", "copy", "destroy", "release",
           "notify", "dropNotify", "dropExchange", "gone"}

\* The fields of the arc and the locals of the two sides.
TypeOK ==
    /\ pos \in [Sides -> Positions]
    /\ dropped \in BOOLEAN /\ freed \in BOOLEAN
    /\ slots \in [Slots -> [state : {"raw", "live", "moved"}, item : Nat]]
    /\ pc \in [Sides -> Labels]
    /\ pc["producer"] # "destroy"
    /\ call \in [Sides -> [remaining : Nat, blocking : BOOLEAN, forever : BOOLEAN]]
    /\ acq \in [Sides -> Acquisitions]
    /\ cursor \in [Sides -> 0 .. Capacity]
    /\ seen \in [Sides -> Positions]
    /\ pushed \in Nat

Init ==
    /\ pos = [s \in Sides |-> Start]
    /\ dropped = FALSE /\ freed = FALSE
    /\ slots = [i \in Slots |-> Raw]
    /\ pc = [s \in Sides |-> "idle"]
    /\ call = [s \in Sides |-> [remaining |-> 0, blocking |-> FALSE, forever |-> FALSE]]
    /\ acq = [s \in Sides |-> [begin |-> 0, end |-> 0, next |-> Start]]
    /\ cursor = [s \in Sides |-> 0]
    /\ seen = [s \in Sides |-> Start]
    /\ pushed = 0
    /\ popped = <<>>

Goto(s, label) == pc' = [pc EXCEPT ![s] = label]

-----------------------------------------------------------------------------
(* arc::acquire *)

\* (myPos ^ theirPos) == waitMask: nothing to read for the consumer, no room
\* for the producer.  A drop flag makes the two differ.
MustWait(s, mine, theirs) ==
    /\ mine.at = theirs.at
    /\ mine.drop = theirs.drop
    /\ (mine.revolution # theirs.revolution) = (s = "producer")

\* The producer stops as soon as the consumer is dropped, the consumer of a
\* dropped producer when it has read everything.
OtherIsGone(s, mine, theirs) ==
    /\ theirs.drop
    /\ s = "producer" \/ (mine.at = theirs.at /\ mine.revolution = theirs.revolution)

\* The end of the range: the other position, or the end of the buffer.
RangeEnd(mine, theirs, count) ==
    LET end == IF theirs.at > mine.at THEN theirs.at ELSE Capacity
    IN  IF mine.at + count < end THEN mine.at + count ELSE end

\* `next` without the flipped revolution flag.
NextPositionKeeps(mine, end) ==
    [mine EXCEPT !.at = IF end = Capacity THEN 0 ELSE end]

\* `next`: the end, or 0 in the next revolution.
NextPosition(mine, end) ==
    IF end = Capacity THEN [mine EXCEPT !.at = 0, !.revolution = ~@]
    ELSE [mine EXCEPT !.at = end]

\* One turn of the loop in acquire(), and what push_n and pop_n do when it
\* returns no range.
Acquire(s) ==
    /\ pc[s] = "acquire"
    /\ LET mine == pos[s]
           theirs == pos[Other(s)]
           end == RangeEnd(mine, theirs, call[s].remaining)
       IN  IF MustWait(s, mine, theirs)
           THEN /\ seen' = [seen EXCEPT ![s] = theirs]
                /\ Goto(s, IF call[s].blocking THEN "wait" ELSE "idle")
                /\ UNCHANGED <<acq, cursor>>
           ELSE IF OtherIsGone(s, mine, theirs)
           THEN Goto(s, "idle") /\ UNCHANGED <<acq, cursor, seen>>
           ELSE /\ acq' = [acq EXCEPT ![s] = [begin |-> mine.at, end |-> end,
                                              next |-> NextPosition(mine, end)]]
                /\ cursor' = [cursor EXCEPT ![s] = mine.at]
                /\ Goto(s, "copy")
                /\ UNCHANGED seen
    /\ UNCHANGED <<arcVars, slots, call, histVars>>

\* The wait without its comparison.
WaitNoCompare(s) ==
    /\ pc[s] = "wait"
    /\ Goto(s, "asleep")
    /\ UNCHANGED <<arcVars, slots, call, acq, cursor, seen, histVars>>

\* theirs.wait(theirPos)
Wait(s) ==
    /\ pc[s] = "wait"
    /\ Goto(s, IF pos[Other(s)] = seen[s] THEN "asleep" ELSE "acquire")
    /\ UNCHANGED <<arcVars, slots, call, acq, cursor, seen, histVars>>

\* A futex may wake up for no reason.
SpuriousWake(s) ==
    /\ pc[s] = "asleep"
    /\ Goto(s, "acquire")
    /\ UNCHANGED <<arcVars, slots, call, acq, cursor, seen, histVars>>

-----------------------------------------------------------------------------
(* producer and consumer *)

\* emplace, push, push_n, pop and pop_n with at least one item.  emplace and
\* pop are push_n and pop_n of one item that block.
Call(s, n, forever) ==
    /\ pc[s] = "idle"
    /\ call' = [call EXCEPT ![s] = [remaining |-> n, blocking |-> TRUE, forever |-> forever]]
    /\ s = "producer" => pushed + n <= MaxItems
    /\ Goto(s, "acquire")
    /\ UNCHANGED <<arcVars, slots, acq, cursor, seen, histVars>>

\* uninitialized_copy_n, one item: the items are numbered from 1.
Construct ==
    LET s == "producer" IN
    /\ pc[s] = "copy"
    /\ IF cursor[s] < acq[s].end
       THEN /\ slots' = [slots EXCEPT ![cursor[s]] = Live(pushed + cursor[s] - acq[s].begin + 1)]
            /\ cursor' = [cursor EXCEPT ![s] = @ + 1]
            /\ UNCHANGED pc
       ELSE Goto(s, "release") /\ UNCHANGED <<slots, cursor>>
    /\ UNCHANGED <<arcVars, call, acq, seen, histVars>>

\* std::move, one item.
Move ==
    LET s == "consumer" IN
    /\ pc[s] = "copy"
    /\ IF cursor[s] < acq[s].end
       THEN /\ popped' = Append(popped, slots[cursor[s]].item)
            /\ slots' = [slots EXCEPT ![cursor[s]] = Moved]
            /\ cursor' = [cursor EXCEPT ![s] = @ + 1]
            /\ UNCHANGED pc
       ELSE /\ cursor' = [cursor EXCEPT ![s] = acq[s].begin]
            /\ Goto(s, "destroy")
            /\ UNCHANGED <<slots, popped>>
    /\ UNCHANGED <<arcVars, call, acq, seen, pushed>>

\* pop_n that does not destroy what it has moved out.
DestroyNothing ==
    LET s == "consumer" IN
    /\ pc[s] = "destroy"
    /\ Goto(s, "release")
    /\ UNCHANGED <<arcVars, slots, cursor, call, acq, seen, histVars>>

\* std::destroy, one item.
DestroyMoved ==
    LET s == "consumer" IN
    /\ pc[s] = "destroy"
    /\ IF cursor[s] < acq[s].end
       THEN /\ slots' = [slots EXCEPT ![cursor[s]] = Raw]
            /\ cursor' = [cursor EXCEPT ![s] = @ + 1]
            /\ UNCHANGED pc
       ELSE Goto(s, "release") /\ UNCHANGED <<slots, cursor>>
    /\ UNCHANGED <<arcVars, call, acq, seen, histVars>>

\* release(): mine.store(next)
Release(s) ==
    /\ pc[s] = "release"
    /\ pos' = [pos EXCEPT ![s] = acq[s].next]
    /\ pushed' = IF s = "producer" THEN pushed + acq[s].end - acq[s].begin ELSE pushed
    /\ call' = [call EXCEPT ![s].remaining = @ - (acq[s].end - acq[s].begin)]
    /\ Goto(s, "notify")
    /\ UNCHANGED <<dropped, freed, slots, acq, cursor, seen, popped>>

\* mine.notify_one(): the other side, if it sleeps, looks again.
Woken(s) == IF pc[Other(s)] = "asleep" THEN "acquire" ELSE pc[Other(s)]

\* release(): mine.notify_one(), and the end of push_n's or pop_n's loop.
Notify(s) ==
    /\ pc[s] = "notify"
    /\ pc' = [pc EXCEPT ![s] = IF call[s].remaining = 0 THEN "idle" ELSE "acquire",
                        ![Other(s)] = Woken(s)]
    /\ call' = [call EXCEPT ![s].blocking = @ /\ call[s].forever]
    /\ UNCHANGED <<arcVars, slots, acq, cursor, seen, histVars>>

-----------------------------------------------------------------------------
(* arc::drop, run by the destructors of producer and consumer *)

\* mine.store(myPos | drop_flag)
Drop(s) ==
    /\ pc[s] = "idle"
    /\ pos' = [pos EXCEPT ![s].drop = TRUE]
    /\ Goto(s, "dropNotify")
    /\ UNCHANGED <<dropped, freed, slots, call, acq, cursor, seen, histVars>>

\* drop() without the notification.
DropSilently(s) ==
    /\ pc[s] = "dropNotify"
    /\ pc' = [pc EXCEPT ![s] = "dropExchange"]
    /\ UNCHANGED <<arcVars, slots, call, acq, cursor, seen, histVars>>

\* mine.notify_one()
DropNotify(s) ==
    /\ pc[s] = "dropNotify"
    /\ pc' = [pc EXCEPT ![s] = "dropExchange", ![Other(s)] = Woken(s)]
    /\ UNCHANGED <<arcVars, slots, call, acq, cursor, seen, histVars>>

\* ~arc that takes equal positions for an empty buffer.
LeftoverButFull ==
    LET c == pos["consumer"]
        p == pos["producer"]
    IN  IF p.at > c.at THEN {i \in Slots : c.at <= i /\ i < p.at}
        ELSE IF p.at < c.at THEN {i \in Slots : i < p.at \/ i >= c.at}
        ELSE {}

\* The slots that ~arc destroys.
Leftover ==
    LET c == pos["consumer"]
        p == pos["producer"]
    IN  IF p.at > c.at THEN {i \in Slots : c.at <= i /\ i < p.at}
        ELSE IF p.revolution # c.revolution THEN {i \in Slots : i < p.at \/ i >= c.at}
        ELSE {}

\* _eitherSideDropped.exchange(true): the second to come deletes the arc.
DropExchange(s) ==
    /\ pc[s] = "dropExchange"
    /\ dropped' = TRUE
    /\ freed' = dropped
    /\ slots' = IF dropped THEN [i \in Slots |-> IF i \in Leftover THEN Raw ELSE slots[i]] ELSE slots
    /\ Goto(s, "gone")
    /\ UNCHANGED <<pos, call, acq, cursor, seen, histVars>>

-----------------------------------------------------------------------------
\* The steps of a member function once it has been called.
Step(s) ==
    \/ Acquire(s) \/ Wait(s) \/ Release(s) \/ Notify(s) \/ DropNotify(s) \/ DropExchange(s)
    \/ s = "producer" /\ Construct
    \/ s = "consumer" /\ (Move \/ DestroyMoved)

Next == \E s \in Sides :
    \/ \E n \in 1 .. MaxCount, forever \in BOOLEAN : Call(s, n, forever)
    \/ Drop(s) \/ SpuriousWake(s) \/ Step(s)

Spec == Init /\ [][Next]_vars

\* Each side has a thread of its own.
Fairness == \A s \in Sides : WF_vars(Step(s))

FairSpec == Spec /\ Fairness

-----------------------------------------------------------------------------
\* How many items the producer is ahead of the consumer.
Count == LET p == pos["producer"]
             c == pos["consumer"]
         IN  p.at - c.at + IF p.revolution = c.revolution THEN 0 ELSE Capacity

\* The slots of an acquisition that has not been released.
Held(s) ==
    IF pc[s] \in {"copy", "destroy", "release"}
    THEN {i \in Slots : acq[s].begin <= i /\ i < acq[s].end}
    ELSE {}

\* What the lifetime of slot i has come to: between the two positions it holds
\* an item, which the consumer moves out and destroys before it releases the
\* slot; elsewhere it is raw until the producer has constructed an item in it.
Lifetime(i) ==
    IF i \in Leftover
    THEN IF i \notin Held("consumer") THEN "live"
         ELSE CASE pc["consumer"] = "copy" -> IF i < cursor["consumer"] THEN "moved" ELSE "live"
                [] pc["consumer"] = "destroy" -> IF i < cursor["consumer"] THEN "raw" ELSE "moved"
                [] OTHER -> "raw"
    ELSE IF i \in Held("producer") /\ i < cursor["producer"] THEN "live" ELSE "raw"

\* acquire() gives the consumer slots between the positions only and the
\* producer slots outside of them only, also when the range wraps around, is
\* split in two, and when the buffer is full or empty and the positions are
\* equal: no item is overwritten, read before it is constructed, or destroyed
\* twice, though neither side takes a lock (spsc.h:186-199).
SlotDiscipline ==
    ~freed =>
        /\ Count \in 0 .. Capacity
        /\ Held("consumer") \subseteq Leftover
        /\ Held("producer") \cap Leftover = {}
        /\ \A i \in Slots : slots[i].state = Lifetime(i)

\* "The contents are only deleted when both sides have been dropped" (spsc.h:287):
\* the arc is deleted by the second side to be dropped, when the first has
\* stopped touching it, and every item that was left has been destroyed.
FreedByTheLast ==
    /\ freed <=> \A s \in Sides : pc[s] = "gone"
    /\ freed => \A i \in Slots : slots[i] = Raw

\* A side that sleeps in acquire() sleeps on the other one's current position,
\* or is about to be notified: release() and drop() store before they notify,
\* and the wait compares again after the store.
NoLostWakeup ==
    \A s \in Sides : pc[s] = "asleep" =>
        pos[Other(s)] = seen[s] \/ pc[Other(s)] \in {"notify", "dropNotify"}

\* A call that blocks, or any other, returns when the other side is dropped
\* ("The return value will be false, if the consumer is gone", spsc.h:438).
DropUnblocks ==
    \A s \in Sides : pos[s].drop ~> pc[Other(s)] \in {"idle", "gone"}

\* How many items of its acquisition the consumer has moved out.
Taken ==
    CASE pc["consumer"] = "copy" -> cursor["consumer"] - acq["consumer"].begin
      [] pc["consumer"] \in {"destroy", "release"} -> acq["consumer"].end - acq["consumer"].begin
      [] OTHER -> 0

\* The slot n behind the consumer's position.
Behind(n) == LET i == pos["consumer"].at + n IN IF i < Capacity THEN i ELSE i - Capacity

\* The items between the positions that have not been moved out.
Queue ==
    IF freed THEN <<>>
    ELSE [i \in 1 .. Count - Taken |-> slots[Behind(Taken + i - 1)].item]

Abstract == INSTANCE BoundedChannel
    WITH queue <- Queue, open <- {s \in Sides : ~pos[s].drop}

\* The ring buffer is the channel that channel() promises: items come out once
\* and in the order of the pushes, at most Capacity are under way, and those of
\* a dropped producer can still be popped.
IsChannel == Abstract!Spec

=============================================================================

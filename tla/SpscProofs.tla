----------------------------- MODULE SpscProofs -----------------------------
(***************************************************************************)
(* til::spsc for every capacity and any number of items.  What both sides  *)
(* know when acquire() has returned a range stays true until they release  *)
(* it, although the other side moves on: its items (the consumer) or its   *)
(* room (the producer) can only grow.  The invariant says so in numbers,   *)
(* what is in the slots follows from it, and that the buffer implements    *)
(* BoundedChannel follows from both.                                       *)
(***************************************************************************)
EXTENDS Spsc, SequenceTheorems, TLAPS

\* acquire() is called for at least one item.
Asking == \A s \in Sides : pc[s] \in {"acquire", "wait", "asleep"} => call[s].remaining > 0

\* A side is between acquire() and release().
Holding(s) == pc[s] \in {"copy", "destroy", "release"}

\* What a side has acquired begins at its position and does not wrap around.
Acquired(s) ==
    Holding(s) =>
        /\ acq[s].begin = pos[s].at
        /\ acq[s].begin < acq[s].end
        /\ acq[s].end - acq[s].begin <= call[s].remaining
        /\ acq[s].next = NextPosition(pos[s], acq[s].end)
        /\ cursor[s] \in acq[s].begin .. acq[s].end
        /\ pc[s] = "release" => cursor[s] = acq[s].end

\* The positions are at most one revolution apart, and so are the ranges.
Room ==
    /\ Count \in 0 .. Capacity
    /\ Holding("producer") => Count + (acq["producer"].end - acq["producer"].begin) <= Capacity
    /\ Holding("consumer") => acq["consumer"].end - acq["consumer"].begin <= Count

\* The flags that drop() sets, and who sets them.
DropFlags ==
    /\ \A s \in Sides : pos[s].drop <=> pc[s] \in {"dropNotify", "dropExchange", "gone"}
    /\ dropped <=> \E s \in Sides : pc[s] = "gone"
    /\ freed <=> \A s \in Sides : pc[s] = "gone"

SlotsOK ==
    /\ \A i \in Slots : slots[i].state = "raw" => slots[i] = Raw
    /\ ~freed => \A i \in Slots : slots[i].state = Lifetime(i)
    /\ freed => \A i \in Slots : slots[i] = Raw

\* The items that the producer has constructed and not released are numbered on.
Constructed ==
    Holding("producer") =>
        \A i \in Slots : acq["producer"].begin <= i /\ i < cursor["producer"] =>
            slots[i].item = pushed + i - acq["producer"].begin + 1

IInv ==
    /\ TypeOK /\ Asking /\ Acquired("producer") /\ Acquired("consumer") /\ Room
    /\ DropFlags /\ SlotsOK /\ Constructed

-----------------------------------------------------------------------------
(* Positions *)

\* How far position p is ahead of position c.
Distance(p, c) == p.at - c.at + IF p.revolution = c.revolution THEN 0 ELSE Capacity

\* The position behind a range is a position.
LEMMA NextPositionType ==
    ASSUME NEW p \in Positions, NEW e \in 1 .. Capacity
    PROVE  NextPosition(p, e) \in Positions /\ p.at \in Slots
<1>1. CASE e = Capacity
  <2>1. NextPosition(p, e) = [at |-> 0, revolution |-> ~p.revolution, drop |-> p.drop]
    BY <1>1 DEF NextPosition, Positions
  <2> QED
    BY <2>1, CapacityAssumption DEF Positions, Slots
<1>2. CASE e # Capacity
  BY <1>2, CapacityAssumption DEF NextPosition, Positions, Slots
<1> QED
  BY <1>1, <1>2

\* Releasing a range moves the producer's position ahead by its length.
LEMMA ProducerAdvances ==
    ASSUME NEW p \in Positions, NEW c \in Positions, NEW e \in 1 .. Capacity,
           p.at < e, Distance(p, c) >= 0, Distance(p, c) + (e - p.at) <= Capacity
    PROVE  /\ NextPosition(p, e) \in Positions
           /\ NextPosition(p, e).drop = p.drop
           /\ Distance(NextPosition(p, e), c) = Distance(p, c) + (e - p.at)
<1>1. CASE e = Capacity
  <2>1. NextPosition(p, e) = [p EXCEPT !.at = 0, !.revolution = ~@]
    BY <1>1 DEF NextPosition
  <2>2. p.revolution = c.revolution
    BY <1>1, CapacityAssumption DEF Positions, Slots, Distance
  <2>3. (~p.revolution) # c.revolution
    BY <2>2 DEF Positions
  <2>4. NextPosition(p, e) = [at |-> 0, revolution |-> ~p.revolution, drop |-> p.drop]
    BY <2>1 DEF Positions
  <2> DEFINE n == NextPosition(p, e)
  <2>5. n.at = 0 /\ n.revolution = (~p.revolution) /\ n.drop = p.drop
    <3>1. n.at = 0
      BY <2>4
    <3>2. n.revolution = (~p.revolution)
      BY <2>4
    <3>3. n.drop = p.drop
      BY <2>4
    <3> QED
      BY <3>1, <3>2, <3>3
  <2>6. n \in Positions
    BY <2>4, CapacityAssumption DEF Positions, Slots
  <2> HIDE DEF n
  <2>7. Distance(n, c) = Distance(p, c) + (e - p.at)
    BY <1>1, <2>2, <2>3, <2>5, CapacityAssumption DEF Positions, Slots, Distance
  <2> QED
    BY <2>5, <2>6, <2>7 DEF n
<1>2. CASE e # Capacity
  BY <1>2, CapacityAssumption DEF Positions, Slots, Distance, NextPosition
<1> QED
  BY <1>1, <1>2

\* Releasing a range moves the consumer's position ahead by its length.
LEMMA ConsumerAdvances ==
    ASSUME NEW p \in Positions, NEW c \in Positions, NEW e \in 1 .. Capacity,
           c.at < e, Distance(p, c) <= Capacity, e - c.at <= Distance(p, c)
    PROVE  /\ NextPosition(c, e) \in Positions
           /\ NextPosition(c, e).drop = c.drop
           /\ Distance(p, NextPosition(c, e)) = Distance(p, c) - (e - c.at)
<1>1. CASE e = Capacity
  <2>1. NextPosition(c, e) = [c EXCEPT !.at = 0, !.revolution = ~@]
    BY <1>1 DEF NextPosition
  <2>2. p.revolution # c.revolution
    BY <1>1, CapacityAssumption DEF Positions, Slots, Distance
  <2>3. p.revolution = (~c.revolution)
    BY <2>2 DEF Positions
  <2>4. NextPosition(c, e) = [at |-> 0, revolution |-> ~c.revolution, drop |-> c.drop]
    BY <2>1 DEF Positions
  <2> DEFINE n == NextPosition(c, e)
  <2>5. n.at = 0 /\ n.revolution = (~c.revolution) /\ n.drop = c.drop
    <3>1. n.at = 0
      BY <2>4
    <3>2. n.revolution = (~c.revolution)
      BY <2>4
    <3>3. n.drop = c.drop
      BY <2>4
    <3> QED
      BY <3>1, <3>2, <3>3
  <2>6. n \in Positions
    BY <2>4, CapacityAssumption DEF Positions, Slots
  <2> HIDE DEF n
  <2>7. Distance(p, n) = Distance(p, c) - (e - c.at)
    BY <1>1, <2>2, <2>3, <2>5, CapacityAssumption DEF Positions, Slots, Distance
  <2> QED
    BY <2>5, <2>6, <2>7 DEF n
<1>2. CASE e # Capacity
  BY <1>2, CapacityAssumption DEF Positions, Slots, Distance, NextPosition
<1> QED
  BY <1>1, <1>2

\* How far slot i is behind the consumer's position, going round once.
Ahead(i) == LET c == pos["consumer"].at IN IF i >= c THEN i - c ELSE i - c + Capacity

\* ~arc destroys the slots between the two positions.
LEMMA LeftoverIs ==
    TypeOK /\ Count \in 0 .. Capacity => Leftover = {i \in Slots : Ahead(i) < Count}
<1> SUFFICES ASSUME TypeOK, Count \in 0 .. Capacity
             PROVE  Leftover = {i \in Slots : Ahead(i) < Count}
  OBVIOUS
<1> DEFINE p == pos["producer"]
           c == pos["consumer"]
<1>1. p \in Positions /\ c \in Positions
  BY DEF TypeOK, Sides
<1>2. p.at \in Slots /\ c.at \in Slots
  BY <1>1 DEF Positions
<1>3. CASE p.revolution = c.revolution
  BY <1>2, <1>3, CapacityAssumption DEF Leftover, Ahead, Count, Slots
<1>4. CASE p.revolution # c.revolution
  BY <1>2, <1>4, CapacityAssumption DEF Leftover, Ahead, Count, Slots
<1> QED
  BY <1>3, <1>4

\* The range of the consumer is between the positions, that of the producer is not.
LEMMA RangesAreApart ==
    ASSUME IInv
    PROVE  /\ Held("consumer") \subseteq Leftover
           /\ Held("producer") \cap Leftover = {}
<1>1. Leftover = {i \in Slots : Ahead(i) < Count}
  BY LeftoverIs DEF IInv, Room
<1>2. /\ pos["producer"].at \in Slots /\ pos["consumer"].at \in Slots
      /\ \A s \in Sides : acq[s].begin \in Slots /\ acq[s].end \in 0 .. Capacity
  BY DEF IInv, TypeOK, Sides, Positions, Acquisitions
<1>3. ASSUME NEW i \in Held("consumer") PROVE i \in Leftover
  <2>1. Holding("consumer") /\ i \in Slots /\ acq["consumer"].begin <= i /\ i < acq["consumer"].end
    BY <1>3 DEF Held, Holding
  <2>2. acq["consumer"].begin = pos["consumer"].at
        /\ acq["consumer"].end - acq["consumer"].begin <= Count
    BY <2>1 DEF IInv, Acquired, Room
  <2> QED
    BY <1>1, <1>2, <2>1, <2>2, CapacityAssumption DEF Ahead, Slots, Sides, IInv, Room
<1>4. ASSUME NEW i \in Held("producer") PROVE i \notin Leftover
  <2>1. Holding("producer") /\ i \in Slots /\ acq["producer"].begin <= i /\ i < acq["producer"].end
    BY <1>4 DEF Held, Holding
  <2>2. acq["producer"].begin = pos["producer"].at
        /\ Count + (acq["producer"].end - acq["producer"].begin) <= Capacity
    BY <2>1 DEF IInv, Acquired, Room
  <2>3. \/ Count = pos["producer"].at - pos["consumer"].at
        \/ Count = pos["producer"].at - pos["consumer"].at + Capacity
    BY <1>2, CapacityAssumption DEF Count, Slots
  <2> QED
    BY <1>1, <1>2, <2>1, <2>2, <2>3, CapacityAssumption DEF Ahead, Slots, Sides, IInv, Room
<1> QED
  BY <1>3, <1>4

-----------------------------------------------------------------------------
(* Steps *)

\* A step that changes neither the arc nor who holds which range keeps the
\* invariant.
LEMMA QuietSteps ==
    ASSUME IInv, TypeOK', Asking', UNCHANGED <<pos, dropped, freed, slots, acq, cursor, pushed>>,
           \A s \in Sides :
               /\ Holding(s)' <=> Holding(s)
               /\ Holding(s) => pc'[s] = pc[s] /\ call'[s] = call[s]
               /\ pc'[s] \in {"dropNotify", "dropExchange", "gone"}
                     <=> pc[s] \in {"dropNotify", "dropExchange", "gone"}
               /\ pc'[s] = "gone" <=> pc[s] = "gone"
    PROVE  IInv'
<1>1. ASSUME NEW s \in Sides PROVE Acquired(s)' <=> Acquired(s)
  BY DEF Acquired, Holding, NextPosition
<1>2. Room'
  BY DEF IInv, Room, Count, Sides
<1>3. DropFlags'
  BY DEF IInv, DropFlags
<1>4. Leftover' = Leftover
  BY DEF Leftover
<1>5. /\ Held("producer")' = Held("producer") /\ Held("consumer")' = Held("consumer")
      /\ Held("consumer") # {} => pc'["consumer"] = pc["consumer"]
  BY DEF Held, Holding, Sides
<1>6. \A i \in Slots : Lifetime(i)' = Lifetime(i)
  BY <1>4, <1>5 DEF Lifetime
<1>7. SlotsOK'
  BY <1>6 DEF IInv, SlotsOK
<1>8. Constructed'
  BY DEF IInv, Constructed, Sides
<1> QED
  BY <1>1, <1>2, <1>3, <1>7, <1>8 DEF IInv, Sides

\* Beginning a call, waiting, waking up and being woken up.
LEMMA WaitingKeeps ==
    ASSUME IInv, NEW s \in Sides,
           \/ \E n \in 1 .. MaxCount, forever \in BOOLEAN : Call(s, n, forever)
           \/ Wait(s) \/ SpuriousWake(s) \/ Notify(s) \/ DropNotify(s)
    PROVE  IInv'
<1> DEFINE Calls == [remaining : Nat, blocking : BOOLEAN, forever : BOOLEAN]
<1>0. /\ pc \in [Sides -> Labels] /\ pc["producer"] # "destroy"
      /\ call \in [Sides -> Calls] /\ s # Other(s) /\ Other(s) \in Sides
  BY DEF IInv, TypeOK, Sides, Other
<1>1. ASSUME NEW n \in 1 .. MaxCount, NEW forever \in BOOLEAN, Call(s, n, forever) PROVE IInv'
  <2> DEFINE new == [remaining |-> n, blocking |-> TRUE, forever |-> forever]
  <2>1. pc[s] = "idle" /\ pc' = [pc EXCEPT ![s] = "acquire"] /\ call' = [call EXCEPT ![s] = new]
        /\ UNCHANGED <<pos, dropped, freed, slots, acq, cursor, seen, pushed>>
    BY <1>1 DEF Call, Goto, arcVars, histVars
  <2>2. new \in Calls
    BY <1>1, BoundsAssumption
  <2>3. call' \in [Sides -> Calls] /\ pc' \in [Sides -> Labels] /\ pc'["producer"] # "destroy"
    BY <1>0, <2>1, <2>2 DEF Labels, IInv, TypeOK
  <2>4. TypeOK'
    BY <2>1, <2>3 DEF IInv, TypeOK
  <2>5. Asking'
    BY <1>0, <2>1, <2>2 DEF IInv, Asking
  <2> QED
    BY <1>0, <2>1, <2>4, <2>5, QuietSteps DEF Holding
<1>2. CASE Wait(s) \/ SpuriousWake(s)
  <2>1. pc[s] \in {"wait", "asleep"} /\ UNCHANGED <<pos, dropped, freed, slots, call, acq, cursor, seen, pushed>>
    BY <1>2 DEF Wait, SpuriousWake, arcVars, histVars
  <2>2. pc' = [pc EXCEPT ![s] = "acquire"] \/ pc' = [pc EXCEPT ![s] = "asleep"]
    BY <1>2 DEF Wait, SpuriousWake, Goto
  <2>3. pc' \in [Sides -> Labels] /\ pc'["producer"] # "destroy"
    BY <1>0, <2>2 DEF Labels, Sides
  <2>4. TypeOK'
    BY <2>1, <2>3 DEF IInv, TypeOK
  <2>5. Asking'
    BY <1>0, <2>1, <2>2 DEF IInv, Asking
  <2> QED
    BY <1>0, <2>1, <2>2, <2>4, <2>5, QuietSteps DEF Holding
<1>3. CASE Notify(s) \/ DropNotify(s)
  <2>1. /\ pc[s] \in {"notify", "dropNotify"}
        /\ UNCHANGED <<pos, dropped, freed, slots, acq, cursor, seen, pushed>>
    BY <1>3 DEF Notify, DropNotify, arcVars, histVars
  <2>2. PICK label \in {"idle", "acquire", "dropExchange"} :
          /\ pc' = [pc EXCEPT ![s] = label, ![Other(s)] = Woken(s)]
          /\ label = "dropExchange" <=> pc[s] = "dropNotify"
          /\ label = "acquire" => call[s].remaining # 0
    BY <1>3 DEF Notify, DropNotify
  <2>3. /\ call' \in [Sides -> Calls]
        /\ call'[Other(s)] = call[Other(s)]
        /\ call'[s].remaining = call[s].remaining
    BY <1>0, <1>3 DEF Notify, DropNotify
  <2>4. /\ pc'[s] = label /\ pc'[Other(s)] = Woken(s) /\ pc' \in [Sides -> Labels]
        /\ \A r \in Sides : r = s \/ r = Other(s)
    BY <1>0, <2>2 DEF Labels, Woken, Sides, Other
  <2>5. TypeOK'
    BY <1>0, <2>1, <2>3, <2>4 DEF IInv, TypeOK, Woken, Sides
  <2>6. Asking'
    <3>1. call[s].remaining \in Nat
      BY <1>0
    <3>2. ASSUME pc'[s] = "acquire" PROVE call'[s].remaining > 0
      BY <2>2, <2>3, <2>4, <3>1, <3>2
    <3>3. ASSUME pc'[Other(s)] \in {"acquire", "wait", "asleep"}
          PROVE  call'[Other(s)].remaining > 0
      BY <1>0, <2>3, <2>4, <3>3 DEF Woken, IInv, Asking
    <3> QED
      BY <2>2, <2>4, <3>2, <3>3 DEF Asking
  <2> QED
    BY <1>0, <2>1, <2>2, <2>3, <2>4, <2>5, <2>6, QuietSteps DEF Holding, Woken
<1> QED
  BY <1>1, <1>2, <1>3

\* The range that acquire() returns is not empty, no longer than asked for, and
\* made of items for the consumer and of room for the producer.
LEMMA RangeIsFree ==
    ASSUME IInv, NEW s \in Sides, pc[s] = "acquire",
           call[s].remaining > 0,
           ~MustWait(s, pos[s], pos[Other(s)]), ~OtherIsGone(s, pos[s], pos[Other(s)]),
           NEW end, end = RangeEnd(pos[s], pos[Other(s)], call[s].remaining)
    PROVE  /\ end \in 1 .. Capacity /\ pos[s].at < end
           /\ end - pos[s].at <= call[s].remaining
           /\ s = "producer" => Count + (end - pos[s].at) <= Capacity
           /\ s = "consumer" => end - pos[s].at <= Count
<1> DEFINE mine == pos[s]
           theirs == pos[Other(s)]
           n == call[s].remaining
<1>1. /\ mine \in Positions /\ theirs \in Positions /\ Other(s) \in Sides
      /\ n \in Nat
  BY DEF IInv, TypeOK, Sides, Other
<1>2. mine.at \in 0 .. Capacity - 1 /\ theirs.at \in 0 .. Capacity - 1
  BY <1>1 DEF Positions, Slots
<1>3. /\ end \in 1 .. Capacity /\ mine.at < end /\ end - mine.at <= n
      /\ theirs.at > mine.at => end <= theirs.at
  BY <1>1, <1>2, CapacityAssumption DEF RangeEnd
<1>4. ~mine.drop
  BY DEF IInv, DropFlags
<1>5. mine.drop \in BOOLEAN /\ theirs.drop \in BOOLEAN
  BY <1>1 DEF Positions
<1>6. ~(mine.at = theirs.at /\ ((mine.revolution # theirs.revolution) <=> s = "producer"))
  <2> SUFFICES ASSUME mine.at = theirs.at, (mine.revolution # theirs.revolution) <=> s = "producer"
               PROVE  FALSE
    OBVIOUS
  <2>1. CASE theirs.drop
    BY <2>1, Zenon DEF OtherIsGone, Sides
  <2>2. CASE ~theirs.drop
    <3>1. mine.drop = theirs.drop
      BY <1>4, <1>5, <2>2
    <3> QED
      BY <3>1, Zenon DEF MustWait
  <2> QED
    BY <2>1, <2>2
<1>7. CASE s = "producer"
  <2>1. Count = mine.at - theirs.at + IF mine.revolution = theirs.revolution THEN 0 ELSE Capacity
    BY <1>7 DEF Count, Other
  <2>2. Count \in 0 .. Capacity
    BY DEF IInv, Room
  <2>3. mine.at = theirs.at => mine.revolution = theirs.revolution
    BY <1>6, <1>7
  <2> QED
    BY <1>2, <1>3, <1>7, <2>1, <2>2, <2>3, CapacityAssumption
<1>8. CASE s = "consumer"
  <2>1. Count = theirs.at - mine.at + IF theirs.revolution = mine.revolution THEN 0 ELSE Capacity
    BY <1>8 DEF Count, Other
  <2>2. Count \in 0 .. Capacity
    BY DEF IInv, Room
  <2>3. mine.at = theirs.at => mine.revolution # theirs.revolution
    BY <1>6, <1>8
  <2> QED
    BY <1>2, <1>3, <1>8, <2>1, <2>2, <2>3, CapacityAssumption
<1> QED
  BY <1>7, <1>8 DEF Sides

\* acquire().
LEMMA AcquireKeeps ==
    ASSUME IInv, NEW s \in Sides, Acquire(s)
    PROVE  IInv'
<1> DEFINE mine == pos[s]
           theirs == pos[Other(s)]
           end == RangeEnd(mine, theirs, call[s].remaining)
<1>0. /\ pc \in [Sides -> Labels] /\ pc["producer"] # "destroy" /\ seen \in [Sides -> Positions]
      /\ mine \in Positions /\ theirs \in Positions
      /\ pc[s] = "acquire" /\ call[s].remaining > 0
      /\ UNCHANGED <<pos, dropped, freed, slots, call, pushed>>
  BY DEF IInv, TypeOK, Asking, Sides, Other, Acquire, arcVars, histVars
<1>1. CASE MustWait(s, mine, theirs) \/ OtherIsGone(s, mine, theirs)
  <2>1. PICK label \in {"wait", "idle"} : pc' = [pc EXCEPT ![s] = label]
    BY <1>1 DEF Acquire, Goto
  <2>2. UNCHANGED <<acq, cursor>> /\ seen' \in [Sides -> Positions]
    BY <1>0, <1>1 DEF Acquire
  <2>3. pc' \in [Sides -> Labels] /\ pc'["producer"] # "destroy"
    BY <1>0, <2>1 DEF Labels, Sides
  <2>4. TypeOK'
    BY <1>0, <2>2, <2>3 DEF IInv, TypeOK
  <2>5. Asking'
    BY <1>0, <2>1 DEF IInv, Asking
  <2> QED
    BY <1>0, <2>1, <2>2, <2>4, <2>5, QuietSteps DEF Holding
<1>2. CASE ~(MustWait(s, mine, theirs) \/ OtherIsGone(s, mine, theirs))
  <2> DEFINE range == [begin |-> mine.at, end |-> end, next |-> NextPosition(mine, end)]
  <2>1. /\ acq' = [acq EXCEPT ![s] = range]
        /\ cursor' = [cursor EXCEPT ![s] = mine.at]
        /\ pc' = [pc EXCEPT ![s] = "copy"]
        /\ UNCHANGED seen
    BY <1>2 DEF Acquire, Goto
  <2>2. /\ end \in 1 .. Capacity /\ mine.at < end
        /\ end - mine.at <= call[s].remaining
        /\ s = "producer" => Count + (end - mine.at) <= Capacity
        /\ s = "consumer" => end - mine.at <= Count
    BY <1>0, <1>2, RangeIsFree
  <2> HIDE DEF end
  <2>3. mine.at \in Slots /\ NextPosition(mine, end) \in Positions
    BY <1>0, <2>2, NextPositionType
  <2>4. range \in Acquisitions
    BY <2>2, <2>3 DEF Acquisitions
  <2>5. /\ acq' \in [Sides -> Acquisitions] /\ cursor' \in [Sides -> 0 .. Capacity]
        /\ pc' \in [Sides -> Labels] /\ pc'["producer"] # "destroy"
        /\ acq'[s] = range /\ cursor'[s] = mine.at /\ pc'[s] = "copy"
        /\ \A r \in Sides \ {s} : acq'[r] = acq[r] /\ cursor'[r] = cursor[r] /\ pc'[r] = pc[r]
    BY <1>0, <2>1, <2>3, <2>4, CapacityAssumption DEF IInv, TypeOK, Labels, Slots
  <2>6. TypeOK'
    BY <1>0, <2>1, <2>5 DEF IInv, TypeOK
  <2>7. Asking'
    BY <1>0, <2>5 DEF IInv, Asking
  <2>8. ASSUME NEW r \in Sides PROVE Acquired(r)'
    <3>1. CASE r = s
      <4>1. range.begin = mine.at /\ range.end = end /\ range.next = NextPosition(mine, end)
        OBVIOUS
      <4>2. mine.at \in mine.at .. end
        BY <2>2, <2>3, CapacityAssumption DEF Slots
      <4> HIDE DEF range
      <4> QED
        BY <1>0, <2>2, <2>5, <3>1, <4>1, <4>2 DEF Acquired, NextPosition
    <3>2. CASE r # s
      BY <1>0, <2>5, <3>2, ZenonT(40) DEF IInv, Acquired, Holding, NextPosition, Sides
    <3> QED
      BY <3>1, <3>2
  <2>9. Count' = Count /\ Leftover' = Leftover
    BY <1>0 DEF Count, Leftover
  <2>10. Room'
    <3>1. range.begin = mine.at /\ range.end = end
      OBVIOUS
    <3> HIDE DEF range
    <3> QED
      BY <1>0, <2>2, <2>5, <2>9, <3>1 DEF IInv, Room, Holding, Sides
  <2>11. DropFlags'
    BY <1>0, <2>5 DEF IInv, DropFlags
  <2>12. \A i \in Slots : Lifetime(i)' = Lifetime(i)
    <3>1. CASE s = "producer"
      <4>1. /\ Held("consumer")' = Held("consumer")
            /\ pc'["consumer"] = pc["consumer"] /\ cursor'["consumer"] = cursor["consumer"]
        BY <2>5, <3>1 DEF Held, Sides
      <4>2. \A i \in Slots : ~(i \in Held("producer") /\ i < cursor["producer"])
        BY <1>0, <3>1 DEF Held
      <4>3. \A i \in Slots : ~(i \in Held("producer")' /\ i < cursor'["producer"])
        <5>1. range.begin = mine.at
          OBVIOUS
        <5> HIDE DEF range
        <5> QED
          BY <2>3, <2>5, <3>1, <5>1 DEF Held, Slots
      <4> QED
        BY <2>9, <4>1, <4>2, <4>3 DEF Lifetime
    <3>2. CASE s = "consumer"
      <4>1. /\ Held("producer")' = Held("producer") /\ cursor'["producer"] = cursor["producer"]
        BY <2>5, <3>2 DEF Held, Sides
      <4>2. Held("consumer") = {} /\ pc'["consumer"] = "copy"
        BY <1>0, <2>5, <3>2 DEF Held
      <4>3. \A i \in Slots : i \in Held("consumer")' => ~(i < cursor'["consumer"])
        <5>1. range.begin = mine.at
          OBVIOUS
        <5> HIDE DEF range
        <5> QED
          BY <2>3, <2>5, <3>2, <5>1 DEF Held, Slots
      <4> QED
        BY <2>9, <4>1, <4>2, <4>3 DEF Lifetime
    <3> QED
      BY <3>1, <3>2 DEF Sides
  <2>13. SlotsOK'
    BY <1>0, <2>12 DEF IInv, SlotsOK
  <2>14. Constructed'
    <3>1. CASE s = "producer"
      <4>1. range.begin = mine.at
        OBVIOUS
      <4> HIDE DEF range
      <4> QED
        BY <2>3, <2>5, <3>1, <4>1 DEF Constructed, Slots
    <3>2. CASE s = "consumer"
      BY <1>0, <2>5, <3>2 DEF IInv, Constructed, Holding, Sides
    <3> QED
      BY <3>1, <3>2 DEF Sides
  <2> QED
    BY <2>6, <2>7, <2>8, <2>10, <2>11, <2>13, <2>14 DEF IInv, Sides
<1> QED
  BY <1>1, <1>2

-----------------------------------------------------------------------------
(* The steps that touch the items preserve the invariant: constructing,    *)
(* moving out and destroying one item, and the release of a range, which   *)
(* hands its slots to the other side.                                      *)

\* A step of a side inside of its range: the positions stay, and so do the
\* ranges; the cursor and the label of the side move on.
LEMMA RangeSteps ==
    ASSUME IInv, NEW s \in Sides, Holding(s), Holding(s)',
           UNCHANGED <<pos, dropped, freed, call, acq, seen, pushed>>,
           NEW label \in {"copy", "destroy", "release"}, pc' = [pc EXCEPT ![s] = label],
           s = "producer" => label # "destroy",
           NEW n, cursor' = [cursor EXCEPT ![s] = n], n \in acq[s].begin .. acq[s].end,
           label = "release" => n = acq[s].end,
           slots' \in [Slots -> [state : {"raw", "live", "moved"}, item : Nat]],
           SlotsOK', Constructed'
    PROVE  IInv'
<1>0. /\ pc \in [Sides -> Labels] /\ cursor \in [Sides -> 0 .. Capacity]
      /\ pc["producer"] # "destroy"
      /\ acq[s].begin \in Slots /\ acq[s].end \in 0 .. Capacity
  BY DEF IInv, TypeOK, Acquisitions
<1>1. /\ pc'[s] = label /\ cursor'[s] = n
      /\ \A r \in Sides \ {s} : pc'[r] = pc[r] /\ cursor'[r] = cursor[r]
  BY <1>0
<1>2. pc' \in [Sides -> Labels] /\ pc'["producer"] # "destroy"
  BY <1>0 DEF Labels, Sides
<1>3. n \in 0 .. Capacity
  BY <1>0, CapacityAssumption DEF Slots
<1>4. cursor' \in [Sides -> 0 .. Capacity]
  BY <1>0, <1>3
<1>5. TypeOK'
  BY <1>2, <1>4 DEF IInv, TypeOK
<1>6. Asking'
  BY <1>1 DEF IInv, Asking
<1>7. ASSUME NEW r \in Sides PROVE Acquired(r)'
  <2>1. CASE r = s
    BY <1>1, <2>1 DEF IInv, Acquired, NextPosition, Sides
  <2>2. CASE r # s
    BY <1>1, <2>2, ZenonT(40) DEF IInv, Acquired, Holding, NextPosition, Sides
  <2> QED
    BY <2>1, <2>2
<1>8. Count' = Count
  BY DEF Count
<1>9. Room'
  BY <1>1, <1>8 DEF IInv, Room, Holding, Sides
<1>10. DropFlags'
  BY <1>1 DEF IInv, DropFlags, Holding
<1> QED
  BY <1>5, <1>6, <1>7, <1>9, <1>10 DEF IInv, Sides

\* What is known of the range of a side and of its cursor.
LEMMA RangeFacts ==
    ASSUME IInv, NEW s \in Sides, Holding(s)
    PROVE  /\ acq[s].begin \in Int /\ acq[s].end \in Int /\ cursor[s] \in Int
           /\ 0 <= acq[s].begin /\ acq[s].begin <= cursor[s]
           /\ cursor[s] <= acq[s].end /\ acq[s].end <= Capacity
           /\ Held(s) = {i \in Slots : acq[s].begin <= i /\ i < acq[s].end}
           /\ cursor[s] < acq[s].end => cursor[s] \in Slots /\ cursor[s] \in Held(s)
           /\ ~freed /\ Capacity \in Nat
<1>1. acq[s].begin \in Slots /\ acq[s].end \in 0 .. Capacity /\ cursor[s] \in 0 .. Capacity
  BY DEF IInv, TypeOK, Acquisitions
<1>2. cursor[s] \in acq[s].begin .. acq[s].end
  BY DEF IInv, Acquired, Sides
<1>3. ~freed
  BY DEF IInv, DropFlags, Holding
<1>4. Held(s) = {i \in Slots : acq[s].begin <= i /\ i < acq[s].end}
  BY DEF Held, Holding
<1> QED
  BY <1>1, <1>2, <1>3, <1>4, CapacityAssumption DEF Slots

\* uninitialized_copy_n.
LEMMA ConstructKeeps ==
    ASSUME IInv, Construct
    PROVE  IInv'
<1> DEFINE s == "producer"
           c == cursor["producer"]
           new == Live(pushed + c - acq["producer"].begin + 1)
<1>0. /\ pc[s] = "copy" /\ s \in Sides /\ Holding(s)
      /\ UNCHANGED <<pos, dropped, freed, call, acq, seen, pushed>>
      /\ pc \in [Sides -> Labels] /\ cursor \in [Sides -> 0 .. Capacity] /\ pushed \in Nat
      /\ slots \in [Slots -> [state : {"raw", "live", "moved"}, item : Nat]]
  BY DEF Construct, arcVars, histVars, Sides, Holding, IInv, TypeOK
<1>1. /\ acq[s].begin \in Int /\ acq[s].end \in Int /\ c \in Int
      /\ 0 <= acq[s].begin /\ acq[s].begin <= c /\ c <= acq[s].end
      /\ c < acq[s].end => c \in Slots /\ c \in Held(s)
      /\ ~freed
  BY <1>0, RangeFacts
<1>2. CASE c < acq[s].end
  <2>1. /\ slots' = [slots EXCEPT ![c] = new] /\ cursor' = [cursor EXCEPT ![s] = c + 1]
        /\ pc' = [pc EXCEPT ![s] = "copy"]
    BY <1>0, <1>2 DEF Construct
  <2>2. new \in [state : {"raw", "live", "moved"}, item : Nat]
        /\ new.state = "live" /\ new.item = pushed + c - acq[s].begin + 1
    BY <1>0, <1>1 DEF Live
  <2> HIDE DEF new
  <2>3. /\ slots' \in [Slots -> [state : {"raw", "live", "moved"}, item : Nat]]
        /\ slots'[c] = new
        /\ \A i \in Slots \ {c} : slots'[i] = slots[i]
    BY <1>0, <1>1, <1>2, <2>1, <2>2
  <2>4. /\ Leftover' = Leftover /\ Held("consumer")' = Held("consumer") /\ Held(s)' = Held(s)
        /\ pc' = pc /\ cursor'["consumer"] = cursor["consumer"] /\ cursor'[s] = c + 1
    BY <1>0, <2>1 DEF Leftover, Held, Sides
  <2>5. c \notin Leftover
    BY <1>1, <1>2, RangesAreApart
  <2>6. \A i \in Slots : slots'[i].state = Lifetime(i)'
    <3>1. \A i \in Slots : i = c => Lifetime(i)' = "live"
      BY <1>1, <1>2, <2>4, <2>5 DEF Lifetime
    <3>2. \A i \in Slots \ {c} : Lifetime(i)' = Lifetime(i)
      <4>1. \A i \in Slots \ {c} : i < c + 1 <=> i < c
        BY <1>1 DEF Slots
      <4> QED
        BY <2>4, <4>1 DEF Lifetime
    <3> QED
      BY <1>1, <2>2, <2>3, <3>1, <3>2 DEF IInv, SlotsOK
  <2>7. SlotsOK'
    BY <1>0, <1>1, <2>2, <2>3, <2>6 DEF IInv, SlotsOK
  <2>8. Constructed'
    <3>1. ASSUME NEW i \in Slots, acq[s].begin <= i, i < c + 1
          PROVE  slots'[i].item = pushed + i - acq[s].begin + 1
      <4>1. CASE i = c
        BY <2>2, <2>3, <4>1
      <4>2. CASE i # c
        <5>1. i < c
          BY <1>1, <3>1, <4>2 DEF Slots
        <5> QED
          BY <1>0, <2>3, <3>1, <4>2, <5>1 DEF IInv, Constructed
      <4> QED
        BY <4>1, <4>2
    <3> QED
      BY <1>0, <2>4, <3>1 DEF Constructed
  <2>9. c + 1 \in acq[s].begin .. acq[s].end
    BY <1>1, <1>2
  <2>10. Holding(s)'
    BY <1>0, <2>4 DEF Holding
  <2> QED
    BY <1>0, <2>1, <2>3, <2>7, <2>8, <2>9, <2>10, RangeSteps
<1>3. CASE ~(c < acq[s].end)
  <2>1. UNCHANGED <<slots, cursor>> /\ pc' = [pc EXCEPT ![s] = "release"] /\ c = acq[s].end
    BY <1>1, <1>3 DEF Construct, Goto
  <2>2. cursor' = [cursor EXCEPT ![s] = c]
    BY <1>0, <2>1
  <2>3. /\ Leftover' = Leftover /\ Held("consumer")' = Held("consumer") /\ Held(s)' = Held(s)
        /\ pc'["consumer"] = pc["consumer"] /\ Holding(s)'
    BY <1>0, <2>1 DEF Leftover, Held, Holding, Sides
  <2>4. \A i \in Slots : Lifetime(i)' = Lifetime(i)
    BY <2>1, <2>3 DEF Lifetime
  <2>5. SlotsOK'
    BY <1>0, <2>1, <2>4 DEF IInv, SlotsOK
  <2>6. Constructed'
    BY <1>0, <2>1 DEF IInv, Constructed
  <2>7. c \in acq[s].begin .. acq[s].end
    BY <1>1
  <2> QED
    BY <1>0, <2>1, <2>2, <2>3, <2>5, <2>6, <2>7, RangeSteps
<1> QED
  BY <1>2, <1>3

\* std::move, out of the range of the consumer.
LEMMA MoveKeeps ==
    ASSUME IInv, Move
    PROVE  IInv'
<1> DEFINE s == "consumer"
           c == cursor["consumer"]
<1>0. /\ pc[s] = "copy" /\ s \in Sides /\ Holding(s)
      /\ UNCHANGED <<pos, dropped, freed, call, acq, seen, pushed>>
      /\ pc \in [Sides -> Labels] /\ cursor \in [Sides -> 0 .. Capacity]
      /\ slots \in [Slots -> [state : {"raw", "live", "moved"}, item : Nat]]
  BY DEF Move, arcVars, histVars, Sides, Holding, IInv, TypeOK
<1>1. /\ acq[s].begin \in Int /\ acq[s].end \in Int /\ c \in Int
      /\ 0 <= acq[s].begin /\ acq[s].begin <= c /\ c <= acq[s].end
      /\ Held(s) = {i \in Slots : acq[s].begin <= i /\ i < acq[s].end}
      /\ c < acq[s].end => c \in Slots /\ c \in Held(s)
      /\ ~freed
  BY <1>0, RangeFacts
<1>2. Held(s) \subseteq Leftover /\ Held("producer") \cap Leftover = {}
  BY RangesAreApart
<1>3. CASE c < acq[s].end
  <2>1. /\ slots' = [slots EXCEPT ![c] = Moved] /\ cursor' = [cursor EXCEPT ![s] = c + 1]
        /\ pc' = [pc EXCEPT ![s] = "copy"]
    BY <1>0, <1>3 DEF Move
  <2>2. /\ Moved \in [state : {"raw", "live", "moved"}, item : Nat]
        /\ Moved.state = "moved"
    BY DEF Moved
  <2>3. /\ slots' \in [Slots -> [state : {"raw", "live", "moved"}, item : Nat]]
        /\ slots'[c] = Moved
        /\ \A i \in Slots \ {c} : slots'[i] = slots[i]
    BY <1>0, <1>1, <1>3, <2>1, <2>2
  <2>4. /\ Leftover' = Leftover /\ Held("producer")' = Held("producer") /\ Held(s)' = Held(s)
        /\ pc' = pc /\ cursor'["producer"] = cursor["producer"] /\ cursor'[s] = c + 1
    BY <1>0, <2>1 DEF Leftover, Held, Sides
  <2>5. \A i \in Slots : slots'[i].state = Lifetime(i)'
    <3>1. \A i \in Slots : i = c => Lifetime(i)' = "moved"
      BY <1>0, <1>1, <1>2, <1>3, <2>4 DEF Lifetime
    <3>2. \A i \in Slots \ {c} : Lifetime(i)' = Lifetime(i)
      <4>1. \A i \in Slots \ {c} : i < c + 1 <=> i < c
        BY <1>1 DEF Slots
      <4> QED
        BY <2>4, <4>1 DEF Lifetime
    <3> QED
      BY <1>1, <2>2, <2>3, <3>1, <3>2 DEF IInv, SlotsOK
  <2>6. SlotsOK'
    BY <1>0, <1>1, <2>2, <2>3, <2>5 DEF IInv, SlotsOK
  <2>7. Constructed'
    <3>1. ASSUME NEW i \in Slots, Holding("producer"),
                 acq["producer"].begin <= i, i < cursor["producer"]
          PROVE  slots'[i] = slots[i]
      <4>1. i \in Held("producer")
        BY <3>1, RangeFacts DEF Slots, Sides
      <4> QED
        BY <1>1, <1>2, <1>3, <2>3, <4>1
    <3> QED
      BY <1>0, <2>4, <3>1 DEF IInv, Constructed, Holding
  <2>8. c + 1 \in acq[s].begin .. acq[s].end
    BY <1>1, <1>3
  <2>9. Holding(s)'
    BY <1>0, <2>4 DEF Holding
  <2> QED
    BY <1>0, <2>1, <2>3, <2>6, <2>7, <2>8, <2>9, RangeSteps
<1>4. CASE ~(c < acq[s].end)
  <2>1. /\ UNCHANGED slots /\ cursor' = [cursor EXCEPT ![s] = acq[s].begin]
        /\ pc' = [pc EXCEPT ![s] = "destroy"] /\ c = acq[s].end
    BY <1>0, <1>1, <1>4 DEF Move, Goto
  <2>2. /\ Leftover' = Leftover /\ Held("producer")' = Held("producer") /\ Held(s)' = Held(s)
        /\ pc'[s] = "destroy" /\ cursor'[s] = acq[s].begin /\ Holding(s)'
        /\ pc'["producer"] = pc["producer"] /\ cursor'["producer"] = cursor["producer"]
    BY <1>0, <2>1 DEF Leftover, Held, Holding, Sides
  <2>3. \A i \in Held(s) : i < c /\ ~(i < acq[s].begin)
    BY <1>1, <2>1 DEF Slots
  <2>4. \A i \in Slots : Lifetime(i)' = Lifetime(i)
    BY <1>0, <2>1, <2>2, <2>3 DEF Lifetime
  <2>5. SlotsOK'
    BY <1>0, <2>1, <2>4 DEF IInv, SlotsOK
  <2>6. Constructed'
    BY <1>0, <2>1, <2>2 DEF IInv, Constructed, Holding
  <2>7. acq[s].begin \in acq[s].begin .. acq[s].end
    BY <1>1
  <2> QED
    BY <1>0, <2>1, <2>2, <2>5, <2>6, <2>7, RangeSteps
<1> QED
  BY <1>3, <1>4

\* std::destroy of what was moved out.
LEMMA DestroyKeeps ==
    ASSUME IInv, DestroyMoved
    PROVE  IInv'
<1> DEFINE s == "consumer"
           c == cursor["consumer"]
<1>0. /\ pc[s] = "destroy" /\ s \in Sides /\ Holding(s)
      /\ UNCHANGED <<pos, dropped, freed, call, acq, seen, pushed>>
      /\ pc \in [Sides -> Labels] /\ cursor \in [Sides -> 0 .. Capacity]
      /\ slots \in [Slots -> [state : {"raw", "live", "moved"}, item : Nat]]
  BY DEF DestroyMoved, arcVars, histVars, Sides, Holding, IInv, TypeOK
<1>1. /\ acq[s].begin \in Int /\ acq[s].end \in Int /\ c \in Int
      /\ 0 <= acq[s].begin /\ acq[s].begin <= c /\ c <= acq[s].end
      /\ Held(s) = {i \in Slots : acq[s].begin <= i /\ i < acq[s].end}
      /\ c < acq[s].end => c \in Slots /\ c \in Held(s)
      /\ ~freed
  BY <1>0, RangeFacts
<1>2. Held(s) \subseteq Leftover /\ Held("producer") \cap Leftover = {}
  BY RangesAreApart
<1>3. CASE c < acq[s].end
  <2>1. /\ slots' = [slots EXCEPT ![c] = Raw] /\ cursor' = [cursor EXCEPT ![s] = c + 1]
        /\ pc' = [pc EXCEPT ![s] = "destroy"]
    BY <1>0, <1>3 DEF DestroyMoved
  <2>2. /\ Raw \in [state : {"raw", "live", "moved"}, item : Nat]
        /\ Raw.state = "raw"
    BY DEF Raw
  <2>3. /\ slots' \in [Slots -> [state : {"raw", "live", "moved"}, item : Nat]]
        /\ slots'[c] = Raw
        /\ \A i \in Slots \ {c} : slots'[i] = slots[i]
    BY <1>0, <1>1, <1>3, <2>1, <2>2
  <2>4. /\ Leftover' = Leftover /\ Held("producer")' = Held("producer") /\ Held(s)' = Held(s)
        /\ pc' = pc /\ cursor'["producer"] = cursor["producer"] /\ cursor'[s] = c + 1
    BY <1>0, <2>1 DEF Leftover, Held, Sides
  <2>5. \A i \in Slots : slots'[i].state = Lifetime(i)'
    <3>1. \A i \in Slots : i = c => Lifetime(i)' = "raw"
      BY <1>0, <1>1, <1>2, <1>3, <2>4 DEF Lifetime
    <3>2. \A i \in Slots \ {c} : Lifetime(i)' = Lifetime(i)
      <4>1. \A i \in Slots \ {c} : i < c + 1 <=> i < c
        BY <1>1 DEF Slots
      <4> QED
        BY <2>4, <4>1 DEF Lifetime
    <3> QED
      BY <1>1, <2>2, <2>3, <3>1, <3>2 DEF IInv, SlotsOK
  <2>6. SlotsOK'
    BY <1>0, <1>1, <2>2, <2>3, <2>5 DEF IInv, SlotsOK
  <2>7. Constructed'
    <3>1. ASSUME NEW i \in Slots, Holding("producer"),
                 acq["producer"].begin <= i, i < cursor["producer"]
          PROVE  slots'[i] = slots[i]
      <4>1. i \in Held("producer")
        BY <3>1, RangeFacts DEF Slots, Sides
      <4> QED
        BY <1>1, <1>2, <1>3, <2>3, <4>1
    <3> QED
      BY <1>0, <2>4, <3>1 DEF IInv, Constructed, Holding
  <2>8. c + 1 \in acq[s].begin .. acq[s].end
    BY <1>1, <1>3
  <2>9. Holding(s)'
    BY <1>0, <2>4 DEF Holding
  <2> QED
    BY <1>0, <2>1, <2>3, <2>6, <2>7, <2>8, <2>9, RangeSteps
<1>4. CASE ~(c < acq[s].end)
  <2>1. /\ UNCHANGED slots /\ cursor' = [cursor EXCEPT ![s] = c]
        /\ pc' = [pc EXCEPT ![s] = "release"] /\ c = acq[s].end
    BY <1>0, <1>1, <1>4 DEF DestroyMoved, Goto
  <2>2. /\ Leftover' = Leftover /\ Held("producer")' = Held("producer") /\ Held(s)' = Held(s)
        /\ pc'[s] = "release" /\ cursor'[s] = c /\ Holding(s)'
        /\ pc'["producer"] = pc["producer"] /\ cursor'["producer"] = cursor["producer"]
    BY <1>0, <2>1 DEF Leftover, Held, Holding, Sides
  <2>3. \A i \in Held(s) : i < c /\ ~(i < acq[s].begin)
    BY <1>1, <2>1 DEF Slots
  <2>4. \A i \in Slots : Lifetime(i)' = Lifetime(i)
    BY <1>0, <2>1, <2>2, <2>3 DEF Lifetime
  <2>5. SlotsOK'
    BY <1>0, <2>1, <2>4 DEF IInv, SlotsOK
  <2>6. Constructed'
    BY <1>0, <2>1, <2>2 DEF IInv, Constructed, Holding
  <2>7. c \in acq[s].begin .. acq[s].end
    BY <1>1
  <2> QED
    BY <1>0, <2>1, <2>2, <2>5, <2>6, <2>7, RangeSteps
<1> QED
  BY <1>3, <1>4

\* What a release changes on the side that releases.
LEMMA ReleaseFacts ==
    ASSUME IInv, NEW s \in Sides, Release(s)
    PROVE  /\ Holding(s) /\ pc[s] = "release" /\ cursor[s] = acq[s].end
           /\ ~Holding(s)' /\ pc'[s] = "notify" /\ pc' \in [Sides -> Labels]
           /\ \A r \in Sides \ {s} : pc'[r] = pc[r] /\ call'[r] = call[r] /\ pos'[r] = pos[r]
           /\ pos'[s] = NextPosition(pos[s], acq[s].end)
           /\ call' \in [Sides -> [remaining : Nat, blocking : BOOLEAN, forever : BOOLEAN]]
           /\ pos' \in [Sides -> Positions]
           /\ pushed' \in Nat
           /\ pushed' = IF s = "producer" THEN pushed + acq[s].end - acq[s].begin ELSE pushed
           /\ UNCHANGED <<dropped, freed, slots, acq, cursor, seen>>
<1> DEFINE Calls == [remaining : Nat, blocking : BOOLEAN, forever : BOOLEAN]
           n == acq[s].end - acq[s].begin
<1>0. /\ pc \in [Sides -> Labels] /\ call \in [Sides -> Calls]
      /\ pos \in [Sides -> Positions] /\ pushed \in Nat
      /\ acq[s].end \in 0 .. Capacity /\ acq[s].begin \in Slots
  BY DEF IInv, TypeOK, Acquisitions
<1>1. /\ pc[s] = "release" /\ Holding(s)
      /\ pc' = [pc EXCEPT ![s] = "notify"]
      /\ pos' = [pos EXCEPT ![s] = acq[s].next]
      /\ call' = [call EXCEPT ![s].remaining = @ - n]
      /\ pushed' = IF s = "producer" THEN pushed + acq[s].end - acq[s].begin ELSE pushed
      /\ UNCHANGED <<dropped, freed, slots, acq, cursor, seen>>
  BY DEF Release, Goto, Holding
<1>2. /\ acq[s].next = NextPosition(pos[s], acq[s].end)
      /\ acq[s].begin < acq[s].end /\ n <= call[s].remaining /\ cursor[s] = acq[s].end
  BY <1>1 DEF IInv, Acquired, Sides
<1>3. n \in Nat /\ call[s].remaining \in Nat
  BY <1>0, <1>2, CapacityAssumption DEF Slots
<1>4. call[s].remaining - n \in Nat
  BY <1>2, <1>3
<1> HIDE DEF n
<1>5. call' \in [Sides -> Calls]
  BY <1>0, <1>1, <1>4
<1>6. NextPosition(pos[s], acq[s].end) \in Positions
  BY <1>0, <1>2, NextPositionType, CapacityAssumption DEF Slots
<1>7. /\ pos' \in [Sides -> Positions] /\ pos'[s] = NextPosition(pos[s], acq[s].end)
      /\ \A r \in Sides \ {s} : pos'[r] = pos[r] /\ pc'[r] = pc[r] /\ call'[r] = call[r]
      /\ pc'[s] = "notify" /\ pc' \in [Sides -> Labels]
  BY <1>0, <1>1, <1>2, <1>6 DEF Labels
<1>8. pushed' \in Nat
  BY <1>0, <1>1, <1>2, CapacityAssumption DEF Slots
<1>9. ~Holding(s)'
  BY <1>7 DEF Holding
<1> QED
  BY <1>1, <1>2, <1>5, <1>7, <1>8, <1>9

\* A release keeps what is not about the other side's slots.
LEMMA ReleaseFrame ==
    ASSUME IInv, NEW s \in Sides, Release(s), Room', SlotsOK', Constructed',
           NextPosition(pos[s], acq[s].end).drop = pos[s].drop
    PROVE  IInv'
<1>1. TypeOK'
  BY ReleaseFacts DEF IInv, TypeOK, Sides
<1>2. Asking'
  BY ReleaseFacts DEF IInv, Asking
<1>3. ASSUME NEW r \in Sides PROVE Acquired(r)'
  BY ReleaseFacts, ZenonT(40) DEF IInv, Acquired, Holding, NextPosition, Sides
<1>4. DropFlags'
  BY ReleaseFacts, ZenonT(40) DEF IInv, DropFlags
<1> QED
  BY <1>1, <1>2, <1>3, <1>4 DEF IInv, Sides

\* push_n releases its range: the items become visible to the consumer.
LEMMA ReleaseProducerKeeps ==
    ASSUME IInv, Release("producer")
    PROVE  /\ IInv'
           /\ Count' = Count + (acq["producer"].end - acq["producer"].begin)
<1> DEFINE s == "producer"
           p == pos["producer"]
           c == pos["consumer"]
           b == acq["producer"].begin
           e == acq["producer"].end
<1>0. s \in Sides /\ "consumer" \in Sides /\ "consumer" # s
  BY DEF Sides
<1>1. /\ Holding(s) /\ pc[s] = "release" /\ cursor[s] = e /\ ~Holding(s)'
      /\ pc'["consumer"] = pc["consumer"] /\ pos'["consumer"] = c
      /\ pos'[s] = NextPosition(p, e)
      /\ UNCHANGED <<dropped, freed, slots, acq, cursor, seen>>
      /\ pos' \in [Sides -> Positions]
  BY <1>0, ReleaseFacts
<1>2. /\ p \in Positions /\ c \in Positions /\ b \in Slots /\ e \in 0 .. Capacity
      /\ p.at \in Slots /\ c.at \in Slots
      /\ b = p.at /\ b < e /\ Count \in 0 .. Capacity /\ Count + (e - b) <= Capacity
  BY <1>0, <1>1 DEF IInv, TypeOK, Acquisitions, Acquired, Room, Positions
<1>3. e \in 1 .. Capacity /\ Capacity \in Nat /\ Capacity > 0
  BY <1>2, CapacityAssumption DEF Slots
<1>4. /\ NextPosition(p, e).drop = p.drop
      /\ Distance(NextPosition(p, e), c) = Distance(p, c) + (e - b)
  <2>1. Distance(p, c) = Count
    BY DEF Distance, Count
  <2> QED
    BY <1>2, <1>3, <2>1, ProducerAdvances
<1>5. Count' = Count + (e - b)
  BY <1>1, <1>4 DEF Distance, Count
<1>6. TypeOK'
  BY <1>0, ReleaseFacts DEF IInv, TypeOK
<1>7. Room'
  <2>1. Count' \in 0 .. Capacity
    BY <1>2, <1>3, <1>5 DEF Slots
  <2>2. Holding("consumer")' => acq'["consumer"].end - acq'["consumer"].begin <= Count
    BY <1>1 DEF IInv, Room, Holding
  <2>3. acq["consumer"].end - acq["consumer"].begin \in Int
    BY <1>0 DEF IInv, TypeOK, Acquisitions, Slots
  <2> QED
    BY <1>1, <1>2, <1>3, <1>5, <2>1, <2>2, <2>3 DEF Room, Slots
<1>8. Leftover = {i \in Slots : Ahead(i) < Count}
  BY <1>2, LeftoverIs DEF IInv
<1>9. Leftover' = {i \in Slots : Ahead(i) < Count + (e - b)}
  <2>0. (TypeOK /\ Count \in 0 .. Capacity)'
    BY <1>6, <1>7 DEF Room
  <2>1. (Leftover = {i \in Slots : Ahead(i) < Count})'
    BY <2>0, LeftoverIs, PTL
  <2>2. \A i \in Slots : Ahead(i)' = Ahead(i)
    BY <1>1 DEF Ahead
  <2> QED
    BY <1>5, <2>1, <2>2
<1>10. Held(s) = {i \in Slots : b <= i /\ i < e}
  BY <1>0, <1>1, RangeFacts
<1>11. \A i \in Slots : i \in Leftover' <=> i \in Leftover \/ i \in Held(s)
  <2>1. \/ Count = p.at - c.at
        \/ Count = p.at - c.at + Capacity
    BY <1>2, <1>3 DEF Count, Slots
  <2> SUFFICES ASSUME NEW i \in Slots
               PROVE  Ahead(i) < Count + (e - b) <=> Ahead(i) < Count \/ (b <= i /\ i < e)
    BY <1>8, <1>9, <1>10
  <2> QED
    BY <1>2, <1>3, <2>1 DEF Ahead, Slots
<1>12. \A i \in Slots : Lifetime(i)' = Lifetime(i)
  <2>1. Held(s)' = {} /\ Held("consumer")' = Held("consumer")
    BY <1>1 DEF Held, Holding
  <2>2. Held("consumer") \subseteq Leftover /\ Held(s) \cap Leftover = {}
    BY RangesAreApart
  <2>3. \A i \in Held(s) : i < cursor[s]
    BY <1>1, <1>10
  <2> QED
    BY <1>1, <1>11, <2>1, <2>2, <2>3 DEF Lifetime
<1>13. SlotsOK'
  BY <1>1, <1>12 DEF IInv, SlotsOK
<1>14. Constructed'
  BY <1>1 DEF Constructed
<1> QED
  BY <1>0, <1>4, <1>5, <1>7, <1>13, <1>14, ReleaseFrame

\* pop_n releases its range: the slots become room for the producer.
LEMMA ReleaseConsumerKeeps ==
    ASSUME IInv, Release("consumer")
    PROVE  /\ IInv'
           /\ Count' = Count - (acq["consumer"].end - acq["consumer"].begin)
<1> DEFINE s == "consumer"
           p == pos["producer"]
           c == pos["consumer"]
           b == acq["consumer"].begin
           e == acq["consumer"].end
<1>0. s \in Sides /\ "producer" \in Sides /\ "producer" # s
  BY DEF Sides
<1>1. /\ Holding(s) /\ pc[s] = "release" /\ cursor[s] = e /\ ~Holding(s)'
      /\ pc'["producer"] = pc["producer"] /\ pos'["producer"] = p
      /\ pos'[s] = NextPosition(c, e) /\ pushed' = pushed
      /\ UNCHANGED <<dropped, freed, slots, acq, cursor, seen>>
      /\ pos' \in [Sides -> Positions]
  BY <1>0, ReleaseFacts
<1>2. /\ p \in Positions /\ c \in Positions /\ b \in Slots /\ e \in 0 .. Capacity
      /\ p.at \in Slots /\ c.at \in Slots
      /\ b = c.at /\ b < e /\ Count \in 0 .. Capacity /\ e - b <= Count
  BY <1>0, <1>1 DEF IInv, TypeOK, Acquisitions, Acquired, Room, Positions
<1>3. e \in 1 .. Capacity /\ Capacity \in Nat /\ Capacity > 0
  BY <1>2, CapacityAssumption DEF Slots
<1>4. /\ NextPosition(c, e).drop = c.drop
      /\ Distance(p, NextPosition(c, e)) = Distance(p, c) - (e - b)
  <2>1. Distance(p, c) = Count
    BY DEF Distance, Count
  <2> QED
    BY <1>2, <1>3, <2>1, ConsumerAdvances
<1>5. Count' = Count - (e - b)
  BY <1>1, <1>4 DEF Distance, Count
<1>6. TypeOK'
  BY <1>0, ReleaseFacts DEF IInv, TypeOK
<1>7. Room'
  <2>1. Count' \in 0 .. Capacity
    BY <1>2, <1>3, <1>5 DEF Slots
  <2>2. Holding("producer")' => Count + (acq'["producer"].end - acq'["producer"].begin) <= Capacity
    BY <1>1 DEF IInv, Room, Holding
  <2>3. acq["producer"].end - acq["producer"].begin \in Int
    BY <1>0 DEF IInv, TypeOK, Acquisitions, Slots
  <2>4. Count' \in Int /\ Count \in Int /\ Count' <= Count
    BY <1>2, <1>3, <1>5 DEF Slots
  <2>5. Holding("producer")' => Count' + (acq["producer"].end - acq["producer"].begin) <= Capacity
    <3>1. \A i, j, k, m \in Int : j <= i /\ i + k <= m => j + k <= m
      OBVIOUS
    <3> QED
      BY <1>1, <1>3, <2>2, <2>3, <2>4, <3>1
  <2> QED
    BY <1>1, <2>1, <2>5 DEF Room
<1>8. Leftover = {i \in Slots : Ahead(i) < Count}
  BY <1>2, LeftoverIs DEF IInv
<1>9. Leftover' = {i \in Slots : Ahead(i)' < Count - (e - b)}
  <2>1. (TypeOK /\ Count \in 0 .. Capacity)'
    BY <1>6, <1>7 DEF Room
  <2>2. (Leftover = {i \in Slots : Ahead(i) < Count})'
    BY <2>1, LeftoverIs, PTL
  <2> QED
    BY <1>5, <2>2
<1>10. Held(s) = {i \in Slots : b <= i /\ i < e}
  BY <1>0, <1>1, RangeFacts
<1>11. \A i \in Slots : i \in Leftover' <=> i \in Leftover /\ i \notin Held(s)
  <2>1. NextPosition(c, e).at = IF e = Capacity THEN 0 ELSE e
    BY <1>2 DEF NextPosition, Positions
  <2> SUFFICES ASSUME NEW i \in Slots
               PROVE  Ahead(i)' < Count - (e - b) <=> Ahead(i) < Count /\ ~(b <= i /\ i < e)
    BY <1>8, <1>9, <1>10
  <2>2. Ahead(i)' = LET n == IF e = Capacity THEN 0 ELSE e
                    IN  IF i >= n THEN i - n ELSE i - n + Capacity
    BY <1>1, <2>1 DEF Ahead
  <2> QED
    BY <1>2, <1>3, <2>2 DEF Ahead, Slots
<1>12. \A i \in Slots : Lifetime(i)' = Lifetime(i)
  <2>1. Held(s)' = {} /\ Held("producer")' = Held("producer")
    BY <1>1 DEF Held, Holding
  <2>2. Held(s) \subseteq Leftover /\ Held("producer") \cap Leftover = {}
    BY RangesAreApart
  <2> QED
    BY <1>1, <1>11, <2>1, <2>2 DEF Lifetime
<1>13. SlotsOK'
  BY <1>1, <1>12 DEF IInv, SlotsOK
<1>14. Constructed'
  BY <1>1 DEF IInv, Constructed, Holding
<1> QED
  BY <1>0, <1>4, <1>5, <1>7, <1>13, <1>14, ReleaseFrame

-----------------------------------------------------------------------------
(* Every step preserves the invariant, from which the safety properties    *)
(* follow.                                                                 *)

\* The destructor of one side sets its drop flag.
LEMMA DropKeeps ==
    ASSUME IInv, NEW s \in Sides, Drop(s)
    PROVE  IInv'
<1>0. /\ pos \in [Sides -> Positions] /\ pc \in [Sides -> Labels] /\ pc[s] = "idle"
      /\ pc' = [pc EXCEPT ![s] = "dropNotify"]
      /\ pos' = [pos EXCEPT ![s].drop = TRUE]
      /\ UNCHANGED <<dropped, freed, slots, call, acq, cursor, seen, pushed>>
  BY DEF IInv, TypeOK, Drop, Goto, histVars
<1>1. /\ pos'[s] = [pos[s] EXCEPT !.drop = TRUE] /\ pc'[s] = "dropNotify"
      /\ \A r \in Sides \ {s} : pos'[r] = pos[r] /\ pc'[r] = pc[r]
      /\ pc' \in [Sides -> Labels]
  BY <1>0 DEF Labels
<1>2. /\ pos[s] \in Positions /\ pos'[s] \in Positions
      /\ pos'[s].at = pos[s].at /\ pos'[s].revolution = pos[s].revolution /\ pos'[s].drop
  <2>1. pos[s] \in [at : Slots, revolution : BOOLEAN, drop : BOOLEAN]
    BY <1>0 DEF Positions
  <2>2. pos'[s] = [pos[s] EXCEPT !.drop = TRUE]
    BY <1>1
  <2>3. pos'[s] \in [at : Slots, revolution : BOOLEAN, drop : BOOLEAN]
    BY <2>1, <2>2, Zenon
  <2>4. pos'[s].at = pos[s].at /\ pos'[s].revolution = pos[s].revolution /\ pos'[s].drop
    BY <2>1, <2>2, Zenon
  <2> QED
    BY <2>1, <2>3, <2>4 DEF Positions
<1>3. pos' \in [Sides -> Positions]
  BY <1>0, <1>2
<1>4. TypeOK'
  BY <1>0, <1>1, <1>3 DEF IInv, TypeOK, Sides
<1>5. Asking'
  BY <1>0, <1>1 DEF IInv, Asking
<1>6. ASSUME NEW r \in Sides PROVE Acquired(r)'
  BY <1>0, <1>1 DEF IInv, Acquired, Holding, NextPosition, Sides
<1>7. \A r \in Sides : pos'[r].at = pos[r].at /\ pos'[r].revolution = pos[r].revolution
  BY <1>1, <1>2
<1>8. Count' = Count /\ Leftover' = Leftover
  BY <1>7 DEF Count, Leftover, Sides
<1>9. \A r \in Sides : (Holding(r)' <=> Holding(r)) /\ Held(r)' = Held(r)
                       /\ (Holding(r) => pc'[r] = pc[r])
  BY <1>0, <1>1 DEF Holding, Held
<1>10. Room'
  BY <1>0, <1>8, <1>9 DEF IInv, Room, Sides
<1>11. DropFlags'
  BY <1>0, <1>1, <1>2 DEF IInv, DropFlags
<1>12. \A i \in Slots : Lifetime(i)' = Lifetime(i)
  <2>1. Held("consumer") # {} => Holding("consumer")
    BY DEF Held, Holding
  <2> QED
    BY <1>0, <1>8, <1>9, <2>1 DEF Lifetime, Sides
<1>13. SlotsOK'
  BY <1>0, <1>12 DEF IInv, SlotsOK
<1>14. Constructed'
  BY <1>0, <1>9 DEF IInv, Constructed, Sides
<1> QED
  BY <1>4, <1>5, <1>6, <1>10, <1>11, <1>13, <1>14 DEF IInv, Sides

\* The destructor that comes second deletes the arc.
LEMMA DropExchangeKeeps ==
    ASSUME IInv, NEW s \in Sides, DropExchange(s)
    PROVE  IInv'
<1>0. /\ pc \in [Sides -> Labels] /\ pc[s] = "dropExchange"
      /\ slots \in [Slots -> [state : {"raw", "live", "moved"}, item : Nat]]
      /\ pc' = [pc EXCEPT ![s] = "gone"] /\ dropped' = TRUE /\ freed' = dropped
      /\ UNCHANGED <<pos, call, acq, cursor, seen, pushed>>
  BY DEF IInv, TypeOK, DropExchange, Goto, histVars
<1>1. /\ pc'[s] = "gone" /\ \A r \in Sides \ {s} : pc'[r] = pc[r]
      /\ pc' \in [Sides -> Labels]
  BY <1>0 DEF Labels
<1>2. slots' = IF dropped THEN [i \in Slots |-> IF i \in Leftover THEN Raw ELSE slots[i]] ELSE slots
  BY DEF DropExchange
<1>3. slots' \in [Slots -> [state : {"raw", "live", "moved"}, item : Nat]]
  BY <1>0, <1>2 DEF Raw
<1>4. TypeOK'
  BY <1>0, <1>1, <1>3 DEF IInv, TypeOK, Sides
<1>5. Asking'
  BY <1>0, <1>1 DEF IInv, Asking
<1>6. ASSUME NEW r \in Sides PROVE Acquired(r)'
  BY <1>0, <1>1 DEF IInv, Acquired, Holding, NextPosition, Sides
<1>7. Count' = Count /\ Leftover' = Leftover
  BY <1>0 DEF Count, Leftover
<1>8. \A r \in Sides : (Holding(r)' <=> Holding(r)) /\ Held(r)' = Held(r)
                       /\ (Holding(r) => pc'[r] = pc[r])
  BY <1>0, <1>1 DEF Holding, Held
<1>9. Room'
  BY <1>0, <1>7, <1>8 DEF IInv, Room, Sides
<1>10. dropped <=> \A r \in Sides \ {s} : pc[r] = "gone"
  BY <1>0 DEF IInv, DropFlags, Sides
<1>11. DropFlags'
  <2>1. freed' <=> \A r \in Sides : pc'[r] = "gone"
    BY <1>0, <1>1, <1>10
  <2> QED
    BY <1>0, <1>1, <2>1 DEF IInv, DropFlags
<1>12. SlotsOK'
  <2>0. ~freed
    BY <1>0 DEF IInv, DropFlags
  <2>1. CASE dropped
    <3>1. \A r \in Sides : ~Holding(r) /\ Held(r) = {}
      BY <1>0, <1>10, <2>1 DEF Holding, Held
    <3>2. \A i \in Slots \ Leftover : slots[i].state = "raw"
      BY <2>0, <3>1 DEF IInv, SlotsOK, Lifetime, Sides
    <3>3. \A i \in Slots : slots'[i] = Raw
      BY <1>2, <2>1, <3>2 DEF IInv, SlotsOK
    <3> QED
      BY <1>0, <2>1, <3>3 DEF SlotsOK
  <2>2. CASE ~dropped
    <3>1. \A i \in Slots : Lifetime(i)' = Lifetime(i)
      <4>1. Held("consumer") # {} => Holding("consumer")
        BY DEF Held, Holding
      <4> QED
        BY <1>0, <1>7, <1>8, <4>1 DEF Lifetime, Sides
    <3> QED
      BY <1>0, <1>2, <2>0, <2>2, <3>1 DEF IInv, SlotsOK
  <2> QED
    BY <2>1, <2>2
<1>13. Constructed'
  <2>1. Holding("producer") => ~dropped
    BY <1>0, <1>10 DEF Holding, Sides
  <2> QED
    BY <1>0, <1>2, <1>8, <2>1 DEF IInv, Constructed, Sides
<1> QED
  BY <1>4, <1>5, <1>6, <1>9, <1>11, <1>12, <1>13 DEF IInv, Sides

LEMMA InitIInv == Init => IInv
<1> SUFFICES ASSUME Init PROVE IInv
  OBVIOUS
<1> USE CapacityAssumption
<1>1. Start \in Positions /\ 0 \in Slots /\ Raw \in [state : {"raw", "live", "moved"}, item : Nat]
  BY DEF Start, Positions, Slots, Raw
<1>2. TypeOK
  <2>1. [begin |-> 0, end |-> 0, next |-> Start] \in Acquisitions
    BY <1>1 DEF Acquisitions
  <2>2. [remaining |-> 0, blocking |-> FALSE, forever |-> FALSE]
           \in [remaining : Nat, blocking : BOOLEAN, forever : BOOLEAN]
    OBVIOUS
  <2>3. /\ pos \in [Sides -> Positions] /\ seen \in [Sides -> Positions]
        /\ acq \in [Sides -> Acquisitions]
        /\ slots \in [Slots -> [state : {"raw", "live", "moved"}, item : Nat]]
    BY <1>1, <2>1 DEF Init
  <2>4. call \in [Sides -> [remaining : Nat, blocking : BOOLEAN, forever : BOOLEAN]]
    BY <2>2 DEF Init
  <2>5. /\ pc \in [Sides -> Labels] /\ pc["producer"] # "destroy"
        /\ dropped \in BOOLEAN /\ freed \in BOOLEAN
    BY DEF Init, Labels, Sides
  <2>6. cursor \in [Sides -> 0 .. Capacity] /\ pushed \in Nat
    BY DEF Init
  <2> QED
    BY <2>3, <2>4, <2>5, <2>6 DEF TypeOK
<1>3. Asking /\ Acquired("producer") /\ Acquired("consumer") /\ Constructed
  BY DEF Init, Asking, Acquired, Constructed, Holding, Sides
<1>4. Count = 0 /\ Leftover = {}
  BY DEF Init, Count, Leftover, Start, Sides
<1>5. Room
  BY <1>4 DEF Init, Room, Holding, Sides
<1>6. DropFlags
  BY DEF Init, DropFlags, Start, Sides
<1>7. SlotsOK
  BY <1>4 DEF Init, SlotsOK, Lifetime, Held, Raw, Sides
<1> QED
  BY <1>2, <1>3, <1>5, <1>6, <1>7 DEF IInv

LEMMA NextIInv == IInv /\ [Next]_vars => IInv'
<1> SUFFICES ASSUME IInv, [Next]_vars PROVE IInv'
  OBVIOUS
<1>1. CASE UNCHANGED vars
  <2>1. UNCHANGED <<pos, dropped, freed, slots, pc, call, acq, cursor, seen, pushed>>
    BY <1>1 DEF vars, arcVars, histVars
  <2>2. TypeOK' /\ Asking'
    BY <2>1 DEF IInv, TypeOK, Asking
  <2> QED
    BY <2>1, <2>2, QuietSteps DEF Holding
<1>2. ASSUME NEW s \in Sides, Release(s) PROVE IInv'
  BY <1>2, ReleaseProducerKeeps, ReleaseConsumerKeeps DEF Sides
<1>3. ASSUME NEW s \in Sides, Step(s) PROVE IInv'
  BY <1>2, <1>3, WaitingKeeps, AcquireKeeps, ConstructKeeps, MoveKeeps, DestroyKeeps,
     DropExchangeKeeps DEF Step
<1>4. ASSUME NEW s \in Sides,
             \/ \E n \in 1 .. MaxCount, forever \in BOOLEAN : Call(s, n, forever)
             \/ Drop(s) \/ SpuriousWake(s)
      PROVE  IInv'
  BY <1>4, WaitingKeeps, DropKeeps
<1> QED
  BY <1>1, <1>3, <1>4 DEF Next

\* For every capacity: the positions stay inside of the buffer and the locals of
\* push_n and pop_n keep their types, whatever the two sides do.
THEOREM TypesHold == Spec => []TypeOK
<1>1. IInv => TypeOK
  BY DEF IInv
<1> QED
  BY <1>1, InitIInv, NextIInv, PTL DEF Spec

\* For every capacity: acquire() hands the consumer constructed items only and
\* the producer empty slots only, whatever the two sides do at the same time.
THEOREM SlotDisciplineHolds == Spec => []SlotDiscipline
<1>1. IInv => SlotDiscipline
  BY RangesAreApart DEF IInv, Room, SlotsOK, SlotDiscipline
<1> QED
  BY <1>1, InitIInv, NextIInv, PTL DEF Spec

\* For every capacity: the arc is deleted exactly when both sides have been
\* dropped, and no item is left alive in it.
THEOREM FreedByTheLastHolds == Spec => []FreedByTheLast
<1>1. IInv => FreedByTheLast
  BY DEF IInv, DropFlags, SlotsOK, FreedByTheLast
<1> QED
  BY <1>1, InitIInv, NextIInv, PTL DEF Spec

\* A side that falls asleep has compared the other position, and whoever
\* changes that position has yet to notify.
LEMMA WakeupSteps ==
    TypeOK /\ NoLostWakeup /\ [Next]_vars => NoLostWakeup'
<1> SUFFICES ASSUME TypeOK, NoLostWakeup, [Next]_vars, NEW s \in Sides, pc'[s] = "asleep"
             PROVE  \/ pos'[Other(s)] = seen'[s]
                    \/ pc'[Other(s)] \in {"notify", "dropNotify"}
  BY DEF NoLostWakeup
<1> DEFINE o == Other(s)
<1>0. /\ o \in Sides /\ o # s /\ Other(o) = s /\ \A r \in Sides : r = s \/ r = o
      /\ pc \in [Sides -> Labels] /\ pos \in [Sides -> Positions] /\ seen \in [Sides -> Positions]
  BY DEF TypeOK, Sides, Other
<1>1. pc[s] = "asleep" => pos[o] = seen[s] \/ pc[o] \in {"notify", "dropNotify"}
  BY DEF NoLostWakeup
<1> HIDE DEF o
<1>2. CASE UNCHANGED vars
  BY <1>1, <1>2 DEF vars, arcVars, o
<1>3. ASSUME NEW r \in Sides, NEW n \in 1 .. MaxCount, NEW f \in BOOLEAN, Call(r, n, f)
      PROVE  pos'[o] = seen'[s] \/ pc'[o] \in {"notify", "dropNotify"}
  BY <1>0, <1>1, <1>3 DEF Call, Goto, arcVars
<1>4. ASSUME NEW r \in Sides, Drop(r)
      PROVE  pos'[o] = seen'[s] \/ pc'[o] \in {"notify", "dropNotify"}
  BY <1>0, <1>1, <1>4 DEF Drop, Goto
<1>5. ASSUME NEW r \in Sides, SpuriousWake(r)
      PROVE  pos'[o] = seen'[s] \/ pc'[o] \in {"notify", "dropNotify"}
  BY <1>0, <1>1, <1>5 DEF SpuriousWake, Goto, arcVars
<1>6. ASSUME NEW r \in Sides, Acquire(r)
      PROVE  pos'[o] = seen'[s] \/ pc'[o] \in {"notify", "dropNotify"}
  <2>1. /\ pc[r] = "acquire" /\ UNCHANGED pos
        /\ \/ Goto(r, "wait") \/ Goto(r, "idle") \/ Goto(r, "copy")
        /\ UNCHANGED seen \/ \E v : seen' = [seen EXCEPT ![r] = v]
    BY <1>6 DEF Acquire, arcVars
  <2>2. r = o /\ pc[s] = "asleep" /\ seen'[s] = seen[s]
    BY <1>0, <2>1 DEF Goto
  <2> QED
    BY <1>0, <1>1, <2>1, <2>2
<1>7. ASSUME NEW r \in Sides, Wait(r)
      PROVE  pos'[o] = seen'[s] \/ pc'[o] \in {"notify", "dropNotify"}
  <2>1. CASE r = s
    BY <1>0, <1>7, <2>1 DEF Wait, Goto, arcVars, o
  <2>2. CASE r = o
    BY <1>0, <1>1, <1>7, <2>2 DEF Wait, Goto, arcVars
  <2> QED
    BY <1>0, <2>1, <2>2
<1>8. ASSUME NEW r \in Sides, Release(r)
      PROVE  pos'[o] = seen'[s] \/ pc'[o] \in {"notify", "dropNotify"}
  BY <1>0, <1>1, <1>8 DEF Release, Goto
<1>9. ASSUME NEW r \in Sides, Notify(r) \/ DropNotify(r)
      PROVE  pos'[o] = seen'[s] \/ pc'[o] \in {"notify", "dropNotify"}
  <2>1. /\ pc[r] \in {"notify", "dropNotify"}
        /\ pc'[Other(r)] = Woken(r) /\ pc'[r] # "asleep" /\ UNCHANGED <<pos, seen>>
    BY <1>0, <1>9 DEF Notify, DropNotify, arcVars, Sides, Other
  <2> QED
    BY <1>0, <2>1 DEF Woken
<1>10. ASSUME NEW r \in Sides, DropExchange(r)
       PROVE  pos'[o] = seen'[s] \/ pc'[o] \in {"notify", "dropNotify"}
  BY <1>0, <1>1, <1>10 DEF DropExchange, Goto
<1>11. ASSUME Construct \/ Move \/ DestroyMoved
       PROVE  pos'[o] = seen'[s] \/ pc'[o] \in {"notify", "dropNotify"}
  <2>1. PICK r \in Sides : /\ pc[r] \in {"copy", "destroy"} /\ UNCHANGED <<pos, seen>>
                           /\ UNCHANGED pc \/ Goto(r, "release") \/ Goto(r, "destroy")
    BY <1>11 DEF Construct, Move, DestroyMoved, arcVars, Sides
  <2> QED
    BY <1>0, <1>1, <2>1 DEF Goto
<1>12. ASSUME NEW r \in Sides, Step(r)
       PROVE  pos'[o] = seen'[s] \/ pc'[o] \in {"notify", "dropNotify"}
  BY <1>6, <1>7, <1>8, <1>9, <1>10, <1>11, <1>12 DEF Step
<1> QED
  BY <1>2, <1>3, <1>4, <1>5, <1>12 DEF Next, o

\* For every capacity: no side sleeps on a position that has changed unless the
\* notification is still to come, so no wake-up is lost.
THEOREM NoLostWakeupHolds == Spec => []NoLostWakeup
<1>1. Init => NoLostWakeup
  BY DEF Init, NoLostWakeup
<1>2. IInv => TypeOK
  BY DEF IInv
<1> QED
  BY <1>1, <1>2, InitIInv, NextIInv, WakeupSteps, PTL DEF Spec

-----------------------------------------------------------------------------
(* The ring buffer implements BoundedChannel: the items between the two    *)
(* positions that have not been moved out are the queue.  A release of the *)
(* producer appends its range to the queue in one step, moving one item    *)
(* out takes it from the queue, and nothing else changes the queue until   *)
(* the second side to be dropped destroys it.                              *)

\* The k-th item of the queue.
Item(k) == slots[Behind(Taken + k - 1)].item

\* The positions and the slots behind the consumer's, going round once.
LEMMA BehindFacts ==
    TypeOK =>
        /\ Capacity \in Nat /\ Capacity > 0
        /\ \A n \in 0 .. Capacity - 1 : Behind(n) \in Slots /\ Ahead(Behind(n)) = n
        /\ \A m, n \in 0 .. Capacity - 1 : Behind(m) = Behind(n) => m = n
<1> SUFFICES ASSUME TypeOK PROVE BehindFacts!2
  OBVIOUS
<1>1. pos["consumer"].at \in Slots
  BY DEF TypeOK, Positions, Sides
<1> QED
  BY <1>1, CapacityAssumption DEF Behind, Ahead, Slots

\* The consumer has moved out no more than there is, and its cursor is at the
\* first item of the queue.
LEMMA TakenFacts ==
    IInv => /\ Count \in 0 .. Capacity /\ Taken \in 0 .. Count
            /\ Holding("consumer") =>
                  \A i \in Slots : acq["consumer"].begin <= i /\ i < acq["consumer"].end =>
                      Behind(i - acq["consumer"].begin) = i
            /\ ~freed => Queue = [k \in 1 .. Count - Taken |-> Item(k)]
<1> SUFFICES ASSUME IInv PROVE TakenFacts!2
  OBVIOUS
<1> DEFINE c == "consumer"
<1>1. c \in Sides /\ Count \in 0 .. Capacity /\ Capacity \in Nat
  BY CapacityAssumption DEF IInv, Room, Sides
<1>2. CASE Holding(c)
  <2>1. /\ acq[c].begin \in Int /\ acq[c].end \in Int /\ cursor[c] \in Int
        /\ acq[c].begin <= cursor[c] /\ cursor[c] <= acq[c].end
    BY <1>1, <1>2, RangeFacts
  <2>2. acq[c].end - acq[c].begin <= Count /\ acq[c].begin = pos[c].at
    BY <1>2 DEF IInv, Room, Acquired
  <2>3. Taken \in 0 .. Count
    BY <1>1, <1>2, <2>1, <2>2 DEF Taken, Holding
  <2>4. \A i \in Slots : acq[c].begin <= i /\ i < acq[c].end => Behind(i - acq[c].begin) = i
    BY <1>1, <2>1, <2>2 DEF Behind, Slots
  <2> QED
    BY <1>1, <2>3, <2>4 DEF Queue, Item
<1>3. CASE ~Holding(c)
  BY <1>1, <1>3 DEF Taken, Holding, Queue, Item
<1> QED
  BY <1>2, <1>3

\* A step that changes neither the length of the queue nor what is in it.
LEMMA QueueStays ==
    ASSUME IInv, IInv', ~freed, ~freed', Count' - Taken' = Count - Taken,
           \A k \in 1 .. Count - Taken : Item(k)' = Item(k)
    PROVE  Queue' = Queue
<1>1. Queue = [k \in 1 .. Count - Taken |-> Item(k)]
  BY TakenFacts
<1>2. Queue' = [k \in 1 .. (Count - Taken)' |-> Item(k)']
  BY DEF Queue, Item
<1> QED
  BY <1>1, <1>2

\* Steps that leave the slots, the positions and what has been moved out alone.
LEMMA QuietQueue ==
    ASSUME IInv, IInv', UNCHANGED <<pos, freed, slots>>, Taken' = Taken
    PROVE  Queue' = Queue
<1>1. Count' = Count /\ \A k \in Nat : Behind(Taken + k - 1)' = Behind(Taken + k - 1)
  BY DEF Count, Behind
<1> QED
  BY <1>1, TakenFacts DEF Queue

\* Call, Wait, SpuriousWake, Notify, DropNotify, Drop and the steps of acquire().
LEMMA OutsideQueue ==
    ASSUME IInv, IInv', NEW s \in Sides,
           \/ \E n \in 1 .. MaxCount, forever \in BOOLEAN : Call(s, n, forever)
           \/ Wait(s) \/ SpuriousWake(s) \/ Notify(s) \/ DropNotify(s) \/ Acquire(s)
    PROVE  Queue' = Queue /\ UNCHANGED <<pos, pushed, popped>>
<1> DEFINE c == "consumer"
<1>0. /\ c \in Sides /\ pc \in [Sides -> Labels] /\ acq \in [Sides -> Acquisitions]
      /\ cursor \in [Sides -> 0 .. Capacity] /\ pos \in [Sides -> Positions]
  BY DEF IInv, TypeOK, Sides
<1>1. UNCHANGED <<pos, freed, slots, pushed, popped>>
  BY DEF Call, Wait, SpuriousWake, Notify, DropNotify, Acquire, arcVars, histVars
<1>2. CASE ~Acquire(s)
  <2>1. UNCHANGED <<acq, cursor>> /\ (Holding(c) => pc'[c] = pc[c]) /\ (Holding(c)' => Holding(c))
    <3>1. \/ \E n \in 1 .. MaxCount, forever \in BOOLEAN : Call(s, n, forever)
          \/ Wait(s) \/ SpuriousWake(s) \/ Notify(s) \/ DropNotify(s)
      BY <1>2
    <3> QED
      BY <1>0, <3>1 DEF Call, Wait, SpuriousWake, Notify, DropNotify, Goto, Holding, Woken, Other, Sides
  <2>2. Taken' = Taken
    BY <2>1 DEF Taken, Holding
  <2> QED
    BY <1>1, <2>2, QuietQueue
<1>3. CASE Acquire(s)
  <2>1. pc[s] = "acquire"
    BY <1>3 DEF Acquire
  <2>2. CASE s = c
    <3>1. Taken = 0
      BY <2>1, <2>2 DEF Taken
    <3>2. \/ pc'[c] \in {"wait", "idle"}
          \/ pc'[c] = "copy" /\ cursor'[c] = pos[c].at /\ acq'[c].begin = pos[c].at
      BY <1>0, <1>3, <2>2 DEF Acquire, Goto
    <3>3. pos[c].at \in Int
      BY <1>0 DEF Positions, Slots
    <3>4. Taken' = 0
      BY <3>2, <3>3 DEF Taken
    <3> QED
      BY <1>1, <3>1, <3>4, QuietQueue
  <2>3. CASE s # c
    <3>1. pc'[c] = pc[c] /\ acq'[c] = acq[c] /\ cursor'[c] = cursor[c]
      BY <1>0, <1>3, <2>3 DEF Acquire, Goto
    <3>2. Taken' = Taken
      BY <3>1 DEF Taken
    <3> QED
      BY <1>1, <3>2, QuietQueue
  <2> QED
    BY <2>2, <2>3
<1> QED
  BY <1>2, <1>3

\* The producer constructs outside of the queue.
LEMMA ConstructQueue ==
    ASSUME IInv, IInv', Construct
    PROVE  Queue' = Queue /\ UNCHANGED <<pos, pushed, popped>>
<1> DEFINE c == "consumer"
           w == cursor["producer"]
<1>0. /\ "producer" \in Sides /\ c \in Sides /\ pc["producer"] = "copy" /\ Holding("producer")
      /\ pc \in [Sides -> Labels] /\ cursor \in [Sides -> 0 .. Capacity]
      /\ UNCHANGED <<pos, freed, acq, pushed, popped>>
  BY DEF IInv, TypeOK, Construct, Holding, Sides, arcVars, histVars
<1>1. pc'[c] = pc[c] /\ cursor'[c] = cursor[c]
  BY <1>0 DEF Construct, Goto
<1>2. Taken' = Taken /\ Count' = Count /\ \A k \in Nat : Behind(Taken + k - 1)' = Behind(Taken + k - 1)
  BY <1>0, <1>1 DEF Taken, Count, Behind
<1>3. ~freed
  BY <1>0, RangeFacts
<1>4. \A i \in Leftover : slots'[i] = slots[i]
  <2>1. CASE w < acq["producer"].end
    <3>1. w \in Held("producer") /\ slots' = [slots EXCEPT ![w] = Live(pushed + w - acq["producer"].begin + 1)]
      BY <1>0, <2>1, RangeFacts DEF Construct
    <3>2. w \notin Leftover
      BY <3>1, RangesAreApart
    <3> QED
      BY <3>1, <3>2 DEF IInv, TypeOK, Leftover
  <2>2. CASE ~(w < acq["producer"].end)
    BY <2>2 DEF Construct
  <2> QED
    BY <2>1, <2>2
<1>5. \A k \in 1 .. Count - Taken : Behind(Taken + k - 1) \in Leftover
  <2>1. Count \in 0 .. Capacity /\ Taken \in 0 .. Count
    BY TakenFacts
  <2>2. \A n \in 0 .. Capacity - 1 : Behind(n) \in Slots /\ Ahead(Behind(n)) = n
    BY BehindFacts DEF IInv
  <2>3. Leftover = {i \in Slots : Ahead(i) < Count}
    BY <2>1, LeftoverIs DEF IInv
  <2> QED
    BY <2>1, <2>2, <2>3, CapacityAssumption
<1>6. \A k \in 1 .. Count - Taken : Item(k)' = Item(k)
  <2>1. Count \in 0 .. Capacity /\ Taken \in 0 .. Count
    BY TakenFacts
  <2> QED
    BY <1>2, <1>4, <1>5, <2>1, CapacityAssumption DEF Item
<1> QED
  BY <1>0, <1>2, <1>3, <1>6, QueueStays

\* The consumer destroys what it has already taken from the queue.
LEMMA DestroyQueue ==
    ASSUME IInv, IInv', DestroyMoved
    PROVE  Queue' = Queue /\ UNCHANGED <<pos, pushed, popped>>
<1> DEFINE c == "consumer"
           w == cursor["consumer"]
<1>0. /\ c \in Sides /\ pc[c] = "destroy" /\ Holding(c)
      /\ pc \in [Sides -> Labels]
      /\ UNCHANGED <<pos, freed, acq, pushed, popped>>
  BY DEF IInv, TypeOK, DestroyMoved, Holding, Sides, arcVars, histVars
<1>1. pc'[c] \in {"destroy", "release"}
  BY <1>0 DEF DestroyMoved, Goto
<1>2. /\ Taken = acq[c].end - acq[c].begin /\ Taken' = Taken /\ Count' = Count
      /\ \A k \in Nat : Behind(Taken + k - 1)' = Behind(Taken + k - 1)
  BY <1>0, <1>1 DEF Taken, Count, Behind
<1>3. ~freed
  BY <1>0, RangeFacts
<1>4. /\ Count \in 0 .. Capacity /\ Taken \in 0 .. Count
      /\ \A i \in Slots : acq[c].begin <= i /\ i < acq[c].end => Behind(i - acq[c].begin) = i
  BY <1>0, TakenFacts
<1>5. \A k \in 1 .. Count - Taken : Item(k)' = Item(k)
  <2> SUFFICES ASSUME NEW k \in 1 .. Count - Taken PROVE Item(k)' = Item(k)
    OBVIOUS
  <2>1. CASE w < acq[c].end
    <3>1. /\ w \in Slots /\ acq[c].begin \in Int /\ acq[c].end \in Int
          /\ 0 <= acq[c].begin /\ acq[c].begin <= w
          /\ slots' = [slots EXCEPT ![w] = Raw]
      BY <1>0, <2>1, RangeFacts DEF DestroyMoved
    <3>2. Behind(w - acq[c].begin) = w
      BY <1>4, <2>1, <3>1
    <3>3. /\ w - acq[c].begin \in 0 .. Capacity - 1 /\ Taken + k - 1 \in 0 .. Capacity - 1
          /\ w - acq[c].begin # Taken + k - 1
      BY <1>2, <1>4, <2>1, <3>1, CapacityAssumption DEF Slots
    <3>4. Behind(Taken + k - 1) # w /\ Behind(Taken + k - 1) \in Slots
      BY <3>2, <3>3, BehindFacts DEF IInv
    <3>5. slots'[Behind(Taken + k - 1)] = slots[Behind(Taken + k - 1)]
      BY <3>1, <3>4 DEF IInv, TypeOK
    <3> QED
      BY <1>2, <3>5 DEF Item
  <2>2. CASE ~(w < acq[c].end)
    BY <1>2, <2>2 DEF DestroyMoved, Item
  <2> QED
    BY <2>1, <2>2
<1> QED
  BY <1>0, <1>2, <1>3, <1>5, QueueStays

\* The queue of an arc that has not been deleted is a sequence of numbers.
LEMMA QueueIsSeq ==
    IInv /\ ~freed => Queue \in Seq(Nat) /\ Len(Queue) = Count - Taken
<1> SUFFICES ASSUME IInv, ~freed PROVE Queue \in Seq(Nat) /\ Len(Queue) = Count - Taken
  OBVIOUS
<1>1. Count \in 0 .. Capacity /\ Taken \in 0 .. Count /\ Capacity \in Nat
  BY TakenFacts, CapacityAssumption
<1>2. \A k \in 1 .. Count - Taken : Item(k) \in Nat
  <2> SUFFICES ASSUME NEW k \in 1 .. Count - Taken PROVE Item(k) \in Nat
    OBVIOUS
  <2>1. Taken + k - 1 \in 0 .. Capacity - 1
    BY <1>1
  <2>2. Behind(Taken + k - 1) \in Slots
    BY <2>1, BehindFacts DEF IInv
  <2> QED
    BY <2>2 DEF Item, IInv, TypeOK
<1>3. Queue = [k \in 1 .. Count - Taken |-> Item(k)]
  BY TakenFacts
<1>4. Queue \in [1 .. Count - Taken -> Nat] /\ Count - Taken \in Nat
  BY <1>1, <1>2, <1>3
<1> QED
  BY <1>4

\* std::move takes the first item from the queue.
LEMMA MoveQueue ==
    ASSUME IInv, IInv', Move
    PROVE  /\ UNCHANGED <<pos, pushed>>
           /\ ~pos["consumer"].drop
           /\ \/ UNCHANGED <<Queue, popped>>
              \/ /\ Queue # <<>> /\ Queue' = Tail(Queue)
                 /\ popped' = Append(popped, Head(Queue))
<1> DEFINE c == "consumer"
           w == cursor["consumer"]
<1>0. /\ c \in Sides /\ pc[c] = "copy" /\ Holding(c)
      /\ pc \in [Sides -> Labels] /\ cursor \in [Sides -> 0 .. Capacity]
      /\ UNCHANGED <<pos, freed, acq, pushed>>
  BY DEF IInv, TypeOK, Move, Holding, Sides, arcVars
<1>1. ~freed /\ ~freed' /\ ~pos[c].drop
  BY <1>0, RangeFacts DEF IInv, DropFlags
<1>2. /\ acq[c].begin \in Int /\ acq[c].end \in Int /\ w \in Int
      /\ 0 <= acq[c].begin /\ acq[c].begin <= w /\ w <= acq[c].end
      /\ w < acq[c].end => w \in Slots
  BY <1>0, RangeFacts
<1>3. Taken = w - acq[c].begin /\ Count' = Count /\ \A n \in Int : Behind(n)' = Behind(n)
  BY <1>0 DEF Taken, Count, Behind
<1>4. /\ Count \in 0 .. Capacity /\ Taken \in 0 .. Count
      /\ \A i \in Slots : acq[c].begin <= i /\ i < acq[c].end => Behind(i - acq[c].begin) = i
      /\ acq[c].end - acq[c].begin <= Count
  BY <1>0, TakenFacts DEF IInv, Room
<1>5. CASE w < acq[c].end
  <2>1. /\ popped' = Append(popped, slots[w].item) /\ slots' = [slots EXCEPT ![w] = Moved]
        /\ cursor'[c] = w + 1 /\ pc'[c] = "copy"
    BY <1>0, <1>5 DEF Move
  <2>2. Taken' = Taken + 1
    <3>1. Taken' = cursor'[c] - acq'[c].begin
      BY <2>1 DEF Taken
    <3>2. Taken' = (w + 1) - acq[c].begin
      BY <1>0, <2>1, <3>1
    <3> QED
      BY <1>2, <1>3, <3>2
  <2>3. Behind(Taken) = w
    BY <1>2, <1>3, <1>4, <1>5
  <2>4. Queue \in Seq(Nat) /\ Len(Queue) = Count - Taken /\ Len(Queue) > 0
    BY <1>1, <1>2, <1>3, <1>4, <1>5, QueueIsSeq
  <2>5. Queue' \in Seq(Nat) /\ Len(Queue') = Count - Taken - 1
    <3>1. (Queue \in Seq(Nat) /\ Len(Queue) = Count - Taken)'
      BY <1>1, QueueIsSeq, PTL
    <3> QED
      BY <1>3, <1>4, <2>2, <3>1
  <2>6. \A k \in 1 .. Count - Taken : Queue[k] = Item(k)
    BY <1>1, TakenFacts
  <2>7. \A k \in 1 .. Count - Taken - 1 : Queue'[k] = slots'[Behind(Taken + k)].item
    <3>1. Queue' = [k \in 1 .. Count' - Taken' |-> slots'[Behind(Taken + k - 1)'].item]
      BY <1>1 DEF Queue
    <3>2. \A k \in 1 .. Count - Taken - 1 : Behind(Taken + k - 1)' = Behind(Taken + k)
      BY <1>0, <1>4, <2>2 DEF Behind
    <3> QED
      BY <1>3, <1>4, <2>2, <3>1, <3>2
  <2>8. \A k \in 1 .. Count - Taken - 1 : slots'[Behind(Taken + k)] = slots[Behind(Taken + k)]
    <3> SUFFICES ASSUME NEW k \in 1 .. Count - Taken - 1
                 PROVE  slots'[Behind(Taken + k)] = slots[Behind(Taken + k)]
      OBVIOUS
    <3>1. Taken \in 0 .. Capacity - 1 /\ Taken + k \in 0 .. Capacity - 1 /\ Taken # Taken + k
      BY <1>4, CapacityAssumption
    <3>2. Behind(Taken + k) # w /\ Behind(Taken + k) \in Slots
      BY <2>3, <3>1, BehindFacts DEF IInv
    <3> QED
      BY <2>1, <3>2 DEF IInv, TypeOK
  <2>9. \A k \in 1 .. Count - Taken - 1 : Queue'[k] = Queue[k + 1]
    BY <1>4, <2>6, <2>7, <2>8, CapacityAssumption DEF Item
  <2>10. Queue # <<>> /\ Head(Queue) = Queue[1]
    BY <2>4
  <2>11. Queue' = Tail(Queue)
    BY <2>4, <2>5, <2>9, <2>10, HeadTailProperties, SeqEqual
  <2>12. Queue[1] = slots[w].item
    BY <1>4, <2>3, <2>4, <2>6 DEF Item
  <2> QED
    BY <1>0, <1>1, <2>1, <2>10, <2>11, <2>12
<1>6. CASE ~(w < acq[c].end)
  <2>1. pc'[c] = "destroy" /\ UNCHANGED <<slots, popped>>
    BY <1>0, <1>6 DEF Move, Goto
  <2>2. Taken' = Taken
    BY <1>0, <1>2, <1>3, <1>6, <2>1 DEF Taken
  <2> QED
    BY <1>0, <1>1, <2>1, <2>2, QuietQueue
<1> QED
  BY <1>5, <1>6

\* pop_n releases what it has already taken from the queue.
LEMMA ReleaseConsumerQueue ==
    ASSUME IInv, IInv', Release("consumer")
    PROVE  /\ Queue' = Queue /\ UNCHANGED <<pushed, popped>>
           /\ \A s \in Sides : pos'[s].drop = pos[s].drop
<1> DEFINE c == "consumer"
           b == acq["consumer"].begin
           e == acq["consumer"].end
<1>0. /\ c \in Sides /\ pc[c] = "release" /\ Holding(c) /\ pc'[c] = "notify"
      /\ \A r \in Sides \ {c} : pos'[r] = pos[r]
      /\ pos'[c] = NextPosition(pos[c], e)
      /\ UNCHANGED <<freed, slots, pushed, popped>> /\ pos[c] \in Positions
  BY ReleaseFacts DEF Release, Sides, IInv, TypeOK
<1>1. ~freed /\ b \in Int /\ e \in Int /\ e <= Capacity /\ b < e /\ b = pos[c].at /\ 0 <= b
  BY <1>0, RangeFacts DEF IInv, Acquired
<1>2. pos'[c].at = (IF e = Capacity THEN 0 ELSE e) /\ pos'[c].drop = pos[c].drop
  BY <1>0, <1>1 DEF NextPosition, Positions
<1>3. Taken = e - b /\ Taken' = 0
  BY <1>0 DEF Taken
<1>4. Count' = Count - (e - b)
  BY ReleaseConsumerKeeps
<1>5. Count \in 0 .. Capacity /\ Taken \in 0 .. Count /\ Capacity \in Nat
  BY TakenFacts, CapacityAssumption
<1>6. \A k \in 1 .. Count - Taken : Behind(Taken + k - 1)' = Behind(Taken + k - 1)
  <2> SUFFICES ASSUME NEW k \in 1 .. Count - Taken
               PROVE  Behind(Taken + k - 1)' = Behind(Taken + k - 1)
    OBVIOUS
  <2> DEFINE at == pos[c].at
             next == pos'[c].at
             n == Taken + k - 1
             m == Taken' + k - 1
  <2>0. at \in Int /\ next \in Int /\ n \in Int /\ m \in Int /\ Capacity \in Int
    BY <1>1, <1>2, <1>3, <1>5
  <2>1. Behind(n) = IF at + n < Capacity THEN at + n ELSE at + n - Capacity
    <3> HIDE DEF n
    <3> QED
      BY <2>0 DEF Behind
  <2>3. Behind(Taken + k - 1)' = IF next + m < Capacity THEN next + m ELSE next + m - Capacity
    <3>1. Behind(Taken + k - 1)' = LET i == pos'["consumer"].at + m
                                   IN  IF i < Capacity THEN i ELSE i - Capacity
      BY Zenon DEF Behind
    <3> QED
      BY <3>1, <2>0
  <2>4. at = b /\ n = (e - b) + k - 1 /\ m = 0 + k - 1 /\ next = IF e = Capacity THEN 0 ELSE e
    BY <1>1, <1>2, <1>3
  <2> HIDE DEF at, next, n, m, b, e
  <2>2. k <= Count - (e - b) /\ k \in Int /\ k >= 1
    BY <1>3, <1>5
  <2>5. Behind(Taken + k - 1)' = Behind(n)
    BY <1>1, <1>5, <2>1, <2>2, <2>3, <2>4
  <2> QED
    BY <2>5 DEF n
<1>7. \A k \in 1 .. Count - Taken : Item(k)' = Item(k)
  BY <1>0, <1>6 DEF Item
<1>8. Queue' = Queue
  BY <1>0, <1>1, <1>3, <1>4, <1>5, <1>7, QueueStays
<1> QED
  BY <1>0, <1>2, <1>8 DEF Sides

\* A sequence that continues s with t is their concatenation.
LEMMA ConcatIs ==
    ASSUME NEW s \in Seq(Nat), NEW t \in Seq(Nat), NEW u \in Seq(Nat),
           Len(u) = Len(s) + Len(t), \A k \in 1 .. Len(s) : u[k] = s[k],
           \A j \in 1 .. Len(t) : u[Len(s) + j] = t[j]
    PROVE  u = s \o t
<1>1. /\ s \o t \in Seq(Nat) /\ Len(s \o t) = Len(u) /\ Len(s) \in Nat /\ Len(t) \in Nat
      /\ \A k \in 1 .. Len(u) : (s \o t)[k] = IF k <= Len(s) THEN s[k] ELSE t[k - Len(s)]
  BY ConcatProperties
<1>2. \A k \in 1 .. Len(u) : u[k] = (s \o t)[k]
  <2> SUFFICES ASSUME NEW k \in 1 .. Len(u) PROVE u[k] = (s \o t)[k]
    OBVIOUS
  <2>1. CASE k <= Len(s)
    BY <1>1, <2>1
  <2>2. CASE ~(k <= Len(s))
    <3>1. k - Len(s) \in 1 .. Len(t) /\ Len(s) + (k - Len(s)) = k
      BY <1>1, <2>2
    <3> QED
      BY <1>1, <2>2, <3>1
  <2> QED
    BY <2>1, <2>2
<1> QED
  BY <1>1, <1>2, SeqEqual

\* push_n's release appends its range to the queue.
LEMMA ReleaseProducerQueue ==
    ASSUME IInv, IInv', Release("producer")
    PROVE  /\ \A s \in Sides : pos'[s].drop = pos[s].drop
           /\ ~pos["producer"].drop
           /\ UNCHANGED popped
           /\ \E n \in 1 .. Capacity :
                 /\ Len(Queue) + n <= Capacity
                 /\ Queue' = Queue \o [i \in 1 .. n |-> pushed + i]
                 /\ pushed' = pushed + n
<1> DEFINE p == "producer"
           c == "consumer"
           b == acq["producer"].begin
           e == acq["producer"].end
           range == [i \in 1 .. e - b |-> pushed + i]
<1>0. /\ p \in Sides /\ c \in Sides /\ pc[p] = "release" /\ Holding(p) /\ pc'[c] = pc[c]
      /\ pos'[c] = pos[c] /\ pos'[p] = NextPosition(pos[p], e)
      /\ cursor[p] = e /\ pushed' = pushed + e - b
      /\ UNCHANGED <<freed, slots, acq, cursor, popped>>
      /\ pos[p] \in Positions /\ pos[c] \in Positions /\ pushed \in Nat
  BY ReleaseFacts DEF Release, Sides, IInv, TypeOK
<1>1. ~freed /\ b \in Int /\ e \in Int /\ e <= Capacity /\ b < e /\ b = pos[p].at /\ 0 <= b
  BY <1>0, RangeFacts DEF IInv, Acquired
<1>2. pos'[p].drop = pos[p].drop /\ ~pos[p].drop
  <2>1. pos'[p].drop = pos[p].drop
    BY <1>0 DEF NextPosition, Positions
  <2>2. ~pos[p].drop
    BY <1>0 DEF IInv, DropFlags
  <2> QED
    BY <2>1, <2>2
<1>3. Taken' = Taken /\ \A n \in Int : Behind(n)' = Behind(n)
  BY <1>0 DEF Taken, Behind
<1>4. Count' = Count + (e - b) /\ Count + (e - b) <= Capacity
  BY <1>0, ReleaseProducerKeeps DEF IInv, Room
<1>5. Count \in 0 .. Capacity /\ Taken \in 0 .. Count /\ Capacity \in Nat
  BY TakenFacts, CapacityAssumption
<1>6. Queue \in Seq(Nat) /\ Len(Queue) = Count - Taken
  BY <1>1, QueueIsSeq
<1>7. Queue' \in Seq(Nat) /\ Len(Queue') = Count - Taken + (e - b)
  <2>1. (IInv /\ ~freed)'
    BY <1>0, <1>1
  <2>2. (Queue \in Seq(Nat) /\ Len(Queue) = Count - Taken)'
    BY <2>1, QueueIsSeq, PTL
  <2> QED
    BY <1>3, <1>4, <1>5, <2>2, <1>1
<1>8. range \in Seq(Nat) /\ Len(range) = e - b
  <2>1. range \in [1 .. e - b -> Nat] /\ e - b \in Nat
    BY <1>0, <1>1
  <2> QED
    BY <2>1
<1>9. \A k \in 1 .. Count - Taken + (e - b) : Queue'[k] = slots[Behind(Taken + k - 1)].item
  <2>1. Queue' = [k \in 1 .. Count' - Taken' |-> slots'[Behind(Taken + k - 1)'].item]
    BY <1>0, <1>1 DEF Queue
  <2>2. \A k \in Int : Behind(Taken + k - 1)' = Behind(Taken + k - 1)
    BY <1>0, <1>3 DEF Behind
  <2>3. Count' - Taken' = Count - Taken + (e - b)
    BY <1>1, <1>3, <1>4, <1>5
  <2> SUFFICES ASSUME NEW k \in 1 .. Count - Taken + (e - b)
               PROVE  Queue'[k] = slots[Behind(Taken + k - 1)].item
    OBVIOUS
  <2>4. k \in Int /\ k \in 1 .. Count' - Taken'
    BY <1>1, <1>5, <2>3
  <2>5. Queue'[k] = slots'[Behind(Taken + k - 1)'].item
    BY <2>1, <2>4
  <2> QED
    BY <1>0, <2>2, <2>4, <2>5
<1>10. \A k \in 1 .. Count - Taken : Queue'[k] = Queue[k]
  <2>1. \A k \in 1 .. Count - Taken : Queue[k] = slots[Behind(Taken + k - 1)].item
    BY <1>1, TakenFacts DEF Item
  <2> QED
    BY <1>1, <1>5, <1>9, <2>1
<1>11. \A j \in 1 .. e - b : slots[Behind(Count + j - 1)].item = pushed + j
  <2> SUFFICES ASSUME NEW j \in 1 .. e - b
               PROVE  slots[Behind(Count + j - 1)].item = pushed + j
    OBVIOUS
  <2>1. pos[c].at \in Slots /\ pos[p].at \in Slots
    BY <1>0 DEF Positions
  <2>2. Behind(Count + j - 1) = b + j - 1
    BY <1>1, <2>1, CapacityAssumption DEF Behind, Count, Slots
  <2>3. b + j - 1 \in Slots /\ b <= b + j - 1 /\ b + j - 1 < cursor[p]
    BY <1>0, <1>1, CapacityAssumption DEF Slots
  <2>4. slots[b + j - 1].item = pushed + (b + j - 1) - b + 1
    BY <1>0, <2>3 DEF IInv, Constructed
  <2> QED
    BY <1>0, <1>1, <2>2, <2>4
<1>12. Queue' = Queue \o range
  <2>1. \A j \in 1 .. e - b : Queue'[Count - Taken + j] = range[j]
    <3> SUFFICES ASSUME NEW j \in 1 .. e - b PROVE Queue'[Count - Taken + j] = range[j]
      OBVIOUS
    <3>1. /\ Count - Taken + j \in 1 .. Count - Taken + (e - b)
          /\ Taken + (Count - Taken + j) - 1 = Count + j - 1
      BY <1>1, <1>5
    <3> QED
      BY <1>9, <1>11, <3>1
  <2> HIDE DEF range
  <2>2. /\ Len(Queue') = Len(Queue) + Len(range)
        /\ \A k \in 1 .. Len(Queue) : Queue'[k] = Queue[k]
        /\ \A j \in 1 .. Len(range) : Queue'[Len(Queue) + j] = range[j]
    BY <1>6, <1>7, <1>8, <1>10, <2>1
  <2> QED
    BY <1>6, <1>7, <1>8, <2>2, ConcatIs
<1>13. /\ e - b \in 1 .. Capacity /\ Len(Queue) + (e - b) <= Capacity
       /\ pushed' = pushed + (e - b)
  BY <1>0, <1>1, <1>4, <1>5, <1>6
<1>14. \A s \in Sides : pos'[s].drop = pos[s].drop
  BY <1>0, <1>2 DEF Sides
<1> QED
  BY <1>0, <1>2, <1>12, <1>13, <1>14

\* The sides that have not been dropped.
Open == {s \in Sides : ~pos[s].drop}

\* A step that leaves the drop flags alone leaves both sides open.
LEMMA OpenStays ==
    ASSUME \A s \in Sides : pos'[s].drop = pos[s].drop
    PROVE  Open' = Open
  BY DEF Open

\* Every step of the ring buffer is a step of the channel or leaves it alone.
LEMMA ChannelSteps ==
    IInv /\ IInv' /\ [Next]_vars => [Abstract!Next]_(Abstract!vars)
<1> SUFFICES ASSUME IInv, IInv', [Next]_vars PROVE [Abstract!Next]_(Abstract!vars)
  OBVIOUS
<1>0. ASSUME UNCHANGED <<Queue, pushed, popped, Open>> PROVE [Abstract!Next]_(Abstract!vars)
  BY <1>0 DEF Abstract!vars, Open
<1>1. ASSUME Queue' = Queue /\ UNCHANGED <<pos, pushed, popped>>
      PROVE  [Abstract!Next]_(Abstract!vars)
  BY <1>0, <1>1 DEF Open
<1>2. CASE UNCHANGED vars
  <2>1. UNCHANGED <<pos, freed, slots, pc, acq, cursor, pushed, popped>>
    BY <1>2 DEF vars, arcVars, histVars
  <2>2. Taken' = Taken
    BY <2>1 DEF Taken
  <2> QED
    BY <1>1, <2>1, <2>2, QuietQueue
<1>3. ASSUME NEW s \in Sides,
             \/ \E n \in 1 .. MaxCount, forever \in BOOLEAN : Call(s, n, forever)
             \/ Wait(s) \/ SpuriousWake(s) \/ Notify(s) \/ DropNotify(s) \/ Acquire(s)
      PROVE  [Abstract!Next]_(Abstract!vars)
  BY <1>1, <1>3, OutsideQueue
<1>4. CASE Construct
  BY <1>1, <1>4, ConstructQueue
<1>5. CASE DestroyMoved
  BY <1>1, <1>5, DestroyQueue
<1>6. CASE Move
  <2>1. UNCHANGED <<pos, pushed>> /\ ~pos["consumer"].drop
    BY <1>6, MoveQueue
  <2>2. CASE UNCHANGED <<Queue, popped>>
    BY <1>1, <2>1, <2>2
  <2>3. CASE /\ Queue # <<>> /\ Queue' = Tail(Queue)
             /\ popped' = Append(popped, Head(Queue))
    <3>1. "consumer" \in Open /\ Open' = Open
      BY <2>1 DEF Open, Sides
    <3>2. Abstract!Pop
      BY <2>1, <2>3, <3>1 DEF Abstract!Pop, Open
    <3> QED
      BY <3>2 DEF Abstract!Next
  <2> QED
    BY <1>6, <2>2, <2>3, MoveQueue
<1>7. CASE Release("consumer")
  BY <1>0, <1>7, ReleaseConsumerQueue, OpenStays
<1>8. CASE Release("producer")
  <2>1. PICK n \in 1 .. Capacity :
           /\ Len(Queue) + n <= Capacity
           /\ Queue' = Queue \o [i \in 1 .. n |-> pushed + i]
           /\ pushed' = pushed + n
    BY <1>8, ReleaseProducerQueue
  <2>2. "producer" \in Open /\ Open' = Open /\ UNCHANGED popped
    BY <1>8, ReleaseProducerQueue, OpenStays DEF Open, Sides
  <2>3. n > 0
    OBVIOUS
  <2>4. Abstract!Push(n)
    BY <2>1, <2>2, <2>3 DEF Abstract!Push, Open
  <2> QED
    BY <2>4 DEF Abstract!Next
<1>9. ASSUME NEW s \in Sides, Drop(s) PROVE [Abstract!Next]_(Abstract!vars)
  <2>1. /\ pos \in [Sides -> Positions] /\ pc \in [Sides -> Labels] /\ pc[s] = "idle"
        /\ pos' = [pos EXCEPT ![s].drop = TRUE] /\ pc' = [pc EXCEPT ![s] = "dropNotify"]
        /\ UNCHANGED <<freed, slots, acq, cursor, pushed, popped>>
    BY <1>9 DEF Drop, Goto, histVars, IInv, TypeOK
  <2>2. \A r \in Sides : pos'[r].at = pos[r].at /\ pos'[r].revolution = pos[r].revolution
    BY <2>1 DEF Positions
  <2>3. Taken' = Taken /\ Count' = Count /\ \A k \in Nat : Behind(Taken + k - 1)' = Behind(Taken + k - 1)
    BY <2>1, <2>2 DEF Taken, Count, Behind, Sides
  <2>4. Queue' = Queue
    <3>1. ~freed
      BY <2>1 DEF IInv, DropFlags
    <3>2. \A k \in 1 .. Count - Taken : Item(k)' = Item(k)
      BY <2>1, <2>3 DEF Item
    <3> QED
      BY <2>1, <2>3, <3>1, <3>2, QueueStays
  <2>5. s \in Open /\ Open' = Open \ {s}
    <3>1. ~pos[s].drop
      BY <2>1 DEF IInv, DropFlags
    <3>2. pos'[s].drop /\ \A r \in Sides \ {s} : pos'[r] = pos[r]
      BY <2>1 DEF Positions
    <3> QED
      BY <3>1, <3>2 DEF Open
  <2>6. Abstract!Close(s)
    BY <2>1, <2>4, <2>5 DEF Abstract!Close, Open
  <2> QED
    BY <2>6 DEF Abstract!Next, Sides
<1>10. ASSUME NEW s \in Sides, DropExchange(s) PROVE [Abstract!Next]_(Abstract!vars)
  <2>1. /\ pc \in [Sides -> Labels] /\ pc[s] = "dropExchange" /\ pc' = [pc EXCEPT ![s] = "gone"]
        /\ freed' = dropped /\ UNCHANGED <<pos, acq, cursor, pushed, popped>>
    BY <1>10 DEF DropExchange, Goto, histVars, IInv, TypeOK
  <2>2. CASE dropped
    <3>1. Queue' = <<>>
      BY <2>1, <2>2 DEF Queue
    <3>2. Open = {} /\ Open' = {}
      BY <2>1, <2>2 DEF IInv, DropFlags, Open, Sides
    <3>3. Abstract!Destroy
      BY <2>1, <3>1, <3>2 DEF Abstract!Destroy, Open
    <3> QED
      BY <3>3 DEF Abstract!Next
  <2>3. CASE ~dropped
    <3>1. ~freed /\ UNCHANGED slots
      BY <1>10, <2>1, <2>3 DEF IInv, DropFlags, DropExchange
    <3>2. Taken' = Taken
      BY <2>1 DEF Taken, Sides
    <3>3. UNCHANGED freed
      BY <2>1, <2>3, <3>1 DEF IInv, TypeOK
    <3> QED
      BY <1>1, <2>1, <3>1, <3>2, <3>3, QuietQueue
  <2> QED
    BY <2>2, <2>3
<1>11. ASSUME NEW s \in Sides, Step(s) PROVE [Abstract!Next]_(Abstract!vars)
  <2>1. Release(s) => Release("producer") \/ Release("consumer")
    BY DEF Sides
  <2> QED
    BY <1>3, <1>4, <1>5, <1>6, <1>7, <1>8, <1>10, <1>11, <2>1 DEF Step
<1> QED
  BY <1>2, <1>3, <1>9, <1>11 DEF Next

\* For every capacity: what the consumer gets from the ring buffer is what it
\* would get from the bounded FIFO channel that channel() promises, with every
\* store, load, construction, move and destruction a step of its own.
THEOREM RingBufferIsChannel == Spec => IsChannel
<1>1. Init => Abstract!Init
  <2> SUFFICES ASSUME Init PROVE Abstract!Init
    OBVIOUS
  <2>1. Count = 0 /\ Taken = 0 /\ ~freed
    BY DEF Init, Count, Taken, Start, Sides
  <2>2. Queue = <<>>
    BY <2>1, CapacityAssumption DEF Queue
  <2>3. Open = {"producer", "consumer"}
    BY DEF Init, Open, Start, Sides
  <2> QED
    BY <2>2, <2>3 DEF Init, Abstract!Init, Open
<1> QED
  BY <1>1, InitIInv, NextIInv, ChannelSteps, PTL DEF Spec, IsChannel, Abstract!Spec

=============================================================================

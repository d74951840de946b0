-------------------------- MODULE TicketLockProofs --------------------------
(***************************************************************************)
(* til::ticket_lock for every number of threads and every width of the     *)
(* counters, and til::recursive_ticket_lock for every depth of recursion   *)
(* and every nesting of suspensions.                                       *)
(***************************************************************************)
EXTENDS RecursiveTicketLock, FiniteSetTheorems, SequenceTheorems, NaturalsInduction,
        WellFoundedInduction, TLAPS

-----------------------------------------------------------------------------
(* The ticket lock.  MutualExclusion is not inductive: what carries it     *)
(* through a step is TicketWindow, which says that the tickets in use are  *)
(* distinct and lie between _now_serving and _next_ticket.  That they also *)
(* leave no gap makes them a queue.                                        *)

IInv == TypeOK /\ TicketWindow

\* Holders is a finite set, and a thread that is outside lock() leaves room for
\* one more ticket before the counter comes round to _now_serving again.
LEMMA HoldersFit ==
    /\ IsFiniteSet(Holders)
    /\ Cardinality(Holders) \in Nat
    /\ Cardinality(Holders) <= TicketSpan
    /\ \A t \in Threads \ Holders : Cardinality(Holders) < TicketSpan
<1>1. Holders \in SUBSET Threads
  BY DEF Holders
<1>2. /\ IsFiniteSet(Holders)
      /\ Cardinality(Holders) <= Cardinality(Threads)
      /\ Cardinality(Threads) = Cardinality(Holders) => Threads = Holders
  BY <1>1, FS_Subset, TicketSpanAssumption
<1>3. Cardinality(Holders) \in Nat /\ Cardinality(Threads) \in Nat
  BY <1>2, FS_CardinalityType, TicketSpanAssumption
<1> QED
  BY <1>2, <1>3, TicketSpanAssumption

\* What the initial state of the two atomics gives.
LEMMA InitIInv == Init => IInv
<1> SUFFICES ASSUME Init PROVE IInv
  OBVIOUS
<1>1. TypeOK
  BY TicketSpanAssumption DEF Init, TypeOK, Tickets
<1>2. Holders = {}
  BY DEF Init, Holders
<1>3. Cardinality(Holders) = 0
  BY <1>2, FS_EmptySet
<1> QED
  BY <1>1, <1>2, <1>3, TicketSpanAssumption DEF IInv, TicketWindow, Init

\* A step that leaves both counters, the tickets and the set of holders alone
\* keeps the window, provided whoever enters holds the ticket being served.
LEMMA WindowKept ==
    ASSUME TicketWindow, Holders' = Holders,
           UNCHANGED <<next_ticket, now_serving, ticket>>,
           \A t \in Threads : pc'[t] = "holding" => ticket[t] = now_serving
    PROVE  TicketWindow'
<1>1. Cardinality(Holders)' = Cardinality(Holders)
  OBVIOUS
<1> QED
  BY <1>1 DEF TicketWindow, Offset

\* fetch_add on _next_ticket extends the window by the caller's ticket.
LEMMA TakeTicketFacts ==
    ASSUME IInv, NEW t \in Threads, TakeTicket(t)
    PROVE  /\ t \notin Holders /\ Holders' = Holders \cup {t}
           /\ Cardinality(Holders)' = Cardinality(Holders) + 1
           /\ Offset(ticket[t])' = Cardinality(Holders)
           /\ \A s \in Holders : Offset(ticket[s])' = Offset(ticket[s])
<1> DEFINE K == Cardinality(Holders)
<1>1. t \notin Holders /\ K \in Nat /\ K < TicketSpan
  BY HoldersFit DEF TakeTicket, Holders
<1>2. Holders' = Holders \cup {t}
  BY DEF IInv, TypeOK, TakeTicket, Holders
<1>3. Cardinality(Holders') = K + 1
  BY <1>1, <1>2, FS_AddElement, HoldersFit
<1>4. Offset(next_ticket) = K
  BY <1>1, TicketSpanAssumption DEF IInv, TicketWindow, TypeOK, Tickets, Offset
<1>5. ticket'[t] = next_ticket /\ now_serving' = now_serving /\ \A s \in Holders : ticket'[s] = ticket[s]
  BY <1>1 DEF IInv, TypeOK, TakeTicket, Holders
<1> QED
  BY <1>1, <1>2, <1>3, <1>4, <1>5 DEF Offset

\* fetch_add on _now_serving takes the first ticket out of the window.
LEMMA ServeNextFacts ==
    ASSUME IInv, NEW t \in Threads, ServeNext(t)
    PROVE  /\ t \in Holders /\ Holders' = Holders \ {t}
           /\ Cardinality(Holders)' = Cardinality(Holders) - 1
           /\ Offset(ticket[t]) = 0
           /\ \A s \in Holders' : Offset(ticket[s])' = Offset(ticket[s]) - 1
           /\ \A s \in Threads : pc'[s] # "holding"
<1> DEFINE K == Cardinality(Holders)
<1> USE TicketSpanAssumption
<1>1. t \in Holders /\ K \in Nat
  BY HoldersFit DEF ServeNext, Holders
<1>2. Holders' = Holders \ {t}
  BY DEF IInv, TypeOK, ServeNext, Holders
<1>3. Cardinality(Holders') = K - 1
  BY <1>1, <1>2, FS_RemoveElement, HoldersFit, Zenon
<1>4. ticket[t] = now_serving /\ now_serving \in Tickets
  BY DEF IInv, TicketWindow, TypeOK, ServeNext
<1>5. ASSUME NEW s \in Holders' PROVE Offset(ticket[s])' = Offset(ticket[s]) - 1
  <2>1. ticket[s] \in Tickets /\ s \in Holders /\ s # t
    BY <1>2 DEF IInv, TypeOK, Holders
  <2>2. ticket[s] # now_serving
    BY <1>1, <1>4, <2>1 DEF IInv, TicketWindow
  <2>3. ticket'[s] = ticket[s]
    BY <2>1 DEF IInv, TypeOK, ServeNext, Holders
  <2> QED
    BY <1>4, <2>1, <2>2, <2>3 DEF ServeNext, Tickets, Offset, Succ
<1>6. ASSUME NEW s \in Threads, pc'[s] = "holding" PROVE FALSE
  <2>1. s # t /\ pc[s] = "holding"
    BY <1>6 DEF IInv, TypeOK, ServeNext
  <2> QED
    BY <2>1, <1>1, <1>4 DEF IInv, TicketWindow, Holders
<1>7. Offset(ticket[t]) = 0
  BY <1>4 DEF Offset, Tickets
<1> QED
  BY <1>1, <1>2, <1>3, <1>5, <1>6, <1>7

\* fetch_add on _next_ticket hands out the value just behind the window.
LEMMA TakeTicketKeeps ==
    ASSUME IInv, NEW t \in Threads, TakeTicket(t)
    PROVE  IInv'
<1> DEFINE K == Cardinality(Holders)
<1> USE TicketSpanAssumption
<1>1. t \notin Holders /\ K \in Nat /\ K < TicketSpan
  BY HoldersFit DEF TakeTicket, Holders
<1>2. /\ Holders' = Holders \cup {t} /\ Cardinality(Holders)' = K + 1
      /\ Offset(ticket[t])' = K /\ \A s \in Holders : Offset(ticket[s])' = Offset(ticket[s])
  BY TakeTicketFacts
<1>3. \A s \in Holders : Offset(ticket[s]) < K /\ Offset(ticket[s]) \in Int
  BY DEF IInv, TicketWindow, TypeOK, Tickets, Offset, Holders
<1>4. TypeOK'
  BY DEF IInv, TypeOK, TakeTicket, Tickets, Succ
<1>5. \A s \in Holders : ticket'[s] = ticket[s] /\ ticket'[s] # ticket'[t]
  <2>1. \A s \in Holders : ticket'[s] = ticket[s]
    BY <1>1 DEF IInv, TypeOK, TakeTicket, Holders
  <2> QED
    BY <1>1, <1>2, <1>3, <2>1 DEF Offset
<1>6. \A s, u \in Holders' : ticket'[s] = ticket'[u] => s = u
  BY <1>2, <1>5 DEF IInv, TicketWindow
<1>7. \A s \in Holders' : Offset(ticket[s])' < K + 1
  BY <1>1, <1>2, <1>3
<1>8. next_ticket' = LET n == now_serving' + (K + 1)
                     IN IF n < TicketSpan THEN n ELSE n - TicketSpan
  BY <1>1 DEF IInv, TicketWindow, TypeOK, Tickets, TakeTicket, Succ
<1>9. \A s \in Threads : pc'[s] = "holding" => ticket'[s] = now_serving'
  BY DEF IInv, TicketWindow, TypeOK, TakeTicket
<1> QED
  BY <1>2, <1>4, <1>6, <1>7, <1>8, <1>9 DEF IInv, TicketWindow

\* Serving the next ticket moves the window's start past the ticket of the
\* thread that leaves, which nobody else has.
LEMMA ServeNextKeeps ==
    ASSUME IInv, NEW t \in Threads, ServeNext(t)
    PROVE  IInv'
<1> DEFINE K == Cardinality(Holders)
<1> USE TicketSpanAssumption
<1>1. t \in Holders /\ K \in Nat /\ K <= TicketSpan /\ K >= 1
  BY HoldersFit, FS_EmptySet DEF ServeNext, Holders
<1>2. /\ Holders' = Holders \ {t} /\ Cardinality(Holders)' = K - 1
      /\ \A s \in Holders' : Offset(ticket[s])' = Offset(ticket[s]) - 1
      /\ \A s \in Threads : pc'[s] # "holding"
  BY ServeNextFacts
<1>3. \A s \in Holders : Offset(ticket[s]) < K /\ Offset(ticket[s]) \in Int
  BY DEF IInv, TicketWindow, TypeOK, Tickets, Offset, Holders
<1>4. TypeOK'
  BY DEF IInv, TypeOK, ServeNext, Tickets, Succ
<1>5. \A s, u \in Holders' : ticket'[s] = ticket'[u] => s = u
  BY <1>2 DEF IInv, TicketWindow, ServeNext
<1>6. \A s \in Holders' : Offset(ticket[s])' < K - 1
  BY <1>1, <1>2, <1>3
<1>7. next_ticket' = LET n == now_serving' + (K - 1)
                     IN IF n < TicketSpan THEN n ELSE n - TicketSpan
  BY <1>1 DEF IInv, TicketWindow, TypeOK, Tickets, ServeNext, Succ
<1> QED
  BY <1>2, <1>4, <1>5, <1>6, <1>7 DEF IInv, TicketWindow

\* Every step of the lock preserves the invariant.
LEMMA NextIInv == IInv /\ [Next]_vars => IInv'
<1> SUFFICES ASSUME IInv, [Next]_vars PROVE IInv'
  OBVIOUS
<1>1. ASSUME NEW t \in Threads, TakeTicket(t) PROVE IInv'
  BY <1>1, TakeTicketKeeps
<1>2. ASSUME NEW t \in Threads, LoadServing(t) PROVE IInv'
  <2>1. TypeOK'
    BY <1>2 DEF IInv, TypeOK, LoadServing
  <2>2. Holders' = Holders
    BY <1>2 DEF IInv, TypeOK, LoadServing, Holders
  <2>3. \A s \in Threads : pc'[s] = "holding" => ticket[s] = now_serving
    BY <1>2 DEF IInv, TypeOK, TicketWindow, LoadServing
  <2> QED
    BY <1>2, <2>1, <2>2, <2>3, WindowKept DEF IInv, LoadServing
<1>3. ASSUME NEW t \in Threads, AtomicWait(t) \/ SpuriousWake(t) PROVE IInv'
  <2>1. TypeOK'
    BY <1>3 DEF IInv, TypeOK, AtomicWait, SpuriousWake
  <2>2. Holders' = Holders
    BY <1>3 DEF IInv, TypeOK, AtomicWait, SpuriousWake, Holders
  <2>3. \A s \in Threads : pc'[s] = "holding" => ticket[s] = now_serving
    BY <1>3 DEF IInv, TypeOK, TicketWindow, AtomicWait, SpuriousWake
  <2> QED
    BY <1>3, <2>1, <2>2, <2>3, WindowKept DEF IInv, AtomicWait, SpuriousWake
<1>4. ASSUME NEW t \in Threads, ServeNext(t) PROVE IInv'
  BY <1>4, ServeNextKeeps
<1>5. ASSUME NEW t \in Threads, NotifyAll(t) PROVE IInv'
  <2>1. TypeOK'
    BY <1>5 DEF IInv, TypeOK, NotifyAll
  <2>2. Holders' = Holders
    BY <1>5 DEF IInv, TypeOK, NotifyAll, Holders
  <2>3. \A s \in Threads : pc'[s] = "holding" => ticket[s] = now_serving
    BY <1>5 DEF IInv, TypeOK, TicketWindow, NotifyAll
  <2> QED
    BY <1>5, <2>1, <2>2, <2>3, WindowKept DEF IInv, NotifyAll
<1>6. CASE UNCHANGED vars
  <2>1. TypeOK' /\ Holders' = Holders
    BY <1>6 DEF IInv, TypeOK, vars, Holders
  <2> QED
    BY <1>6, <2>1, WindowKept DEF IInv, TicketWindow, vars
<1> QED
  BY <1>1, <1>2, <1>3, <1>4, <1>5, <1>6 DEF Next, LockStep, UnlockStep

\* The counters and the threads' tickets keep their types, and the tickets in
\* use always are the window between _now_serving and _next_ticket.
THEOREM TicketWindowHolds == Spec => [](TypeOK /\ TicketWindow)
<1> QED
  BY InitIInv, NextIInv, PTL DEF Spec, IInv

\* til::ticket_lock excludes: whatever the number of threads and however often
\* the 32-bit counters overflow, two threads are never inside at once.
THEOREM LockExcludes == Spec => []MutualExclusion
<1>1. IInv => MutualExclusion
  BY DEF IInv, TicketWindow, MutualExclusion, Holders
<1> QED
  BY <1>1, TicketWindowHolds, PTL DEF IInv

-----------------------------------------------------------------------------
(* The refinement of FifoLock *)

\* The window has no gaps: every offset below its length is somebody's ticket.
Filled == \A i \in 0 .. Cardinality(Holders) - 1 : \E t \in Holders : Offset(ticket[t]) = i

\* What Line is when the window is filled: its i-th thread has the offset i - 1.
LineOK ==
    /\ Line \in Seq(Threads) /\ Len(Line) = Cardinality(Holders)
    /\ \A i \in 1 .. Len(Line) : Line[i] \in Holders
    /\ \A t \in Holders : /\ Offset(ticket[t]) + 1 \in 1 .. Len(Line)
                          /\ Line[Offset(ticket[t]) + 1] = t
    /\ \A i \in 1 .. Len(Line) : Offset(ticket[Line[i]]) = i - 1

LEMMA LineFacts == IInv /\ Filled => LineOK
<1> SUFFICES ASSUME IInv, Filled PROVE LineOK
  OBVIOUS
<1> DEFINE K == Cardinality(Holders)
           At(i) == CHOOSE t \in Holders :
                        Offset(ticket[t]) = i - 1 \/ \A u \in Holders : Offset(ticket[u]) # i - 1
<1>1. K \in Nat /\ Holders \subseteq Threads
  BY HoldersFit DEF Holders
<1>2. ASSUME NEW i \in 1 .. K PROVE At(i) \in Holders /\ Offset(ticket[At(i)]) = i - 1
  <2>1. i - 1 \in 0 .. K - 1
    BY <1>1, <1>2
  <2>2. \E t \in Holders : Offset(ticket[t]) = i - 1
    BY <2>1 DEF Filled
  <2> QED
    BY <2>2
<1>3. \A t \in Holders : ticket[t] \in Tickets /\ now_serving \in Tickets
  BY <1>1 DEF IInv, TypeOK
<1>4. \A t \in Holders : Offset(ticket[t]) \in 0 .. K - 1
  BY <1>1, <1>3, TicketSpanAssumption DEF IInv, TicketWindow, Tickets, Offset
<1>5. \A s, t \in Holders : Offset(ticket[s]) = Offset(ticket[t]) => s = t
  BY <1>3, TicketSpanAssumption DEF IInv, TicketWindow, Tickets, Offset
<1>6. Line = [i \in 1 .. K |-> At(i)]
  BY DEF Line
<1> HIDE DEF K, At
<1>7. \A i \in 1 .. K : Line[i] = At(i) /\ Line[i] \in Threads
  BY <1>1, <1>2, <1>6
<1>8. Line \in Seq(Threads) /\ Len(Line) = K
  BY <1>1, <1>6, <1>7
<1>9. ASSUME NEW t \in Holders
      PROVE  Offset(ticket[t]) + 1 \in 1 .. K /\ Line[Offset(ticket[t]) + 1] = t
  <2> DEFINE n == Offset(ticket[t])
  <2>1. n \in 0 .. K - 1 /\ n + 1 \in 1 .. K /\ (n + 1) - 1 = n
    BY <1>1, <1>4
  <2> HIDE DEF n
  <2>2. At(n + 1) \in Holders /\ Offset(ticket[At(n + 1)]) = n
    BY <1>2, <2>1
  <2>3. At(n + 1) = t
    BY <1>5, <2>2 DEF n
  <2> QED
    BY <1>7, <2>1, <2>3 DEF n
<1> QED
  BY <1>2, <1>7, <1>8, <1>9 DEF LineOK, K

LEMMA LineFrame ==
    ASSUME UNCHANGED <<Holders, ticket, now_serving>>
    PROVE  UNCHANGED Line /\ \A t \in Threads : Offset(ticket[t])' = Offset(ticket[t])
  BY DEF Line, Offset

\* Steps that take or return no ticket leave the line alone.
LEMMA LineKept ==
    ASSUME IInv, [Next]_vars, \A t \in Threads : ~TakeTicket(t) /\ ~ServeNext(t)
    PROVE  /\ UNCHANGED <<Holders, ticket, now_serving, Line>>
           /\ \A t \in Threads : Offset(ticket[t])' = Offset(ticket[t])
<1>1. /\ UNCHANGED <<ticket, now_serving>>
      /\ pc \in [Threads -> {"idle", "load", "compare", "asleep", "holding", "notify"}]
  BY DEF Next, vars, LockStep, LoadServing, AtomicWait, SpuriousWake, UnlockStep, NotifyAll, IInv, TypeOK
<1>2. Holders' = Holders
  BY <1>1 DEF Next, vars, LockStep, LoadServing, AtomicWait, SpuriousWake, UnlockStep, NotifyAll, Holders
<1> QED
  BY <1>1, <1>2, LineFrame

LEMMA NextFilled ==
    ASSUME IInv, Filled, [Next]_vars
    PROVE  Filled'
<1> DEFINE K == Cardinality(Holders)
<1>0. K \in Nat
  BY HoldersFit
<1>1. ASSUME NEW t \in Threads, TakeTicket(t) PROVE Filled'
  <2> SUFFICES ASSUME NEW i \in 0 .. Cardinality(Holders)' - 1
               PROVE  \E s \in Holders' : Offset(ticket[s])' = i
    BY DEF Filled
  <2>1. i \in 0 .. K - 1 \/ i = K
    BY <1>0, <1>1, TakeTicketFacts
  <2>2. CASE i \in 0 .. K - 1
    <3>1. PICK s \in Holders : Offset(ticket[s]) = i
      BY <2>2 DEF Filled
    <3> QED
      BY <1>1, <3>1, TakeTicketFacts
  <2>3. CASE i = K
    BY <1>1, <2>3, TakeTicketFacts
  <2> QED
    BY <2>1, <2>2, <2>3
<1>2. ASSUME NEW t \in Threads, ServeNext(t) PROVE Filled'
  <2> SUFFICES ASSUME NEW i \in 0 .. Cardinality(Holders)' - 1
               PROVE  \E s \in Holders' : Offset(ticket[s])' = i
    BY DEF Filled
  <2>1. i \in Nat /\ i + 1 \in 0 .. K - 1 /\ i + 1 # 0 /\ (i + 1) - 1 = i
    BY <1>0, <1>2, ServeNextFacts
  <2>2. PICK s \in Holders : Offset(ticket[s]) = i + 1
    BY <2>1 DEF Filled
  <2>3. s \in Holders'
    BY <1>2, <2>1, <2>2, ServeNextFacts
  <2> QED
    BY <1>2, <2>1, <2>2, <2>3, ServeNextFacts
<1>3. CASE \A t \in Threads : ~TakeTicket(t) /\ ~ServeNext(t)
  <2>1. Holders' = Holders /\ Holders \subseteq Threads /\ \A t \in Threads : Offset(ticket[t])' = Offset(ticket[t])
    BY <1>3, LineKept DEF Holders
  <2> QED
    BY <2>1 DEF Filled
<1> QED
  BY <1>1, <1>2, <1>3

\* Every step of til::ticket_lock is a step of the lock that serves its
\* clients in their order, or invisible to them.
LEMMA StepsOfFifoLock ==
    ASSUME IInv, Filled, LineOK, LineOK', [Next]_vars
    PROVE  [Abstract!Next]_(Abstract!vars)
<1> DEFINE K == Cardinality(Holders)
           inside == \E t \in Threads : pc[t] = "holding"
<1>0. /\ K \in Nat /\ Holders \subseteq Threads /\ Line \in Seq(Threads) /\ Len(Line) = K
      /\ Line' \in Seq(Threads) /\ Len(Line') = Cardinality(Holders)'
      /\ pc \in [Threads -> {"idle", "load", "compare", "asleep", "holding", "notify"}]
  BY HoldersFit DEF LineOK, Holders, IInv, TypeOK
<1>1. ASSUME NEW t \in Threads, TakeTicket(t) PROVE Abstract!Ask(t)
  <2>1. \A i \in DOMAIN Line : Line[i] # t
    BY <1>0, <1>1, TakeTicketFacts DEF LineOK
  <2>2. inside' = inside
    BY <1>0, <1>1 DEF TakeTicket
  <2>3. Len(Line') = K + 1
    BY <1>0, <1>1, TakeTicketFacts
  <2>4. ASSUME NEW i \in 1 .. K PROVE Line'[i] = Line[i]
    <3>1. PICK s \in Holders : s = Line[i] /\ Offset(ticket[s]) = i - 1
      BY <1>0, <2>4 DEF LineOK
    <3>2. s \in Holders' /\ Offset(ticket[s])' = i - 1
      BY <1>1, <3>1, TakeTicketFacts
    <3>3. Line'[(i - 1) + 1] = s
      BY <3>2 DEF LineOK
    <3> QED
      BY <3>1, <3>3
  <2>5. Line'[K + 1] = t
    BY <1>1, TakeTicketFacts DEF LineOK
  <2>6. Line' = Append(Line, t)
    <3>1. /\ Append(Line, t) \in Seq(Threads) /\ Len(Append(Line, t)) = K + 1
          /\ Append(Line, t)[K + 1] = t /\ \A i \in 1 .. K : Append(Line, t)[i] = Line[i]
      BY <1>0, AppendProperties
    <3>2. \A i \in 1 .. K + 1 : Line'[i] = Append(Line, t)[i]
      BY <1>0, <2>4, <2>5, <3>1
    <3> QED
      BY <1>0, <2>3, <3>1, <3>2, SeqEqual
  <2> QED
    BY <2>1, <2>2, <2>6 DEF Abstract!Ask
<1>2. ASSUME NEW t \in Threads, ServeNext(t) PROVE Abstract!Leave(t)
  <2>1. inside /\ ~inside'
    BY <1>2, ServeNextFacts, Zenon DEF ServeNext
  <2>2. K >= 1 /\ Line # <<>> /\ Line[1] = t
    BY <1>0, <1>2, ServeNextFacts, EmptySeq DEF LineOK
  <2>3. /\ Head(Line) = t /\ Tail(Line) \in Seq(Threads) /\ Len(Tail(Line)) = K - 1
        /\ \A i \in 1 .. K - 1 : Tail(Line)[i] = Line[i + 1]
    BY <1>0, <2>2, HeadTailProperties
  <2>4. Len(Line') = K - 1
    BY <1>0, <1>2, ServeNextFacts
  <2>5. ASSUME NEW i \in 1 .. K - 1 PROVE Line'[i] = Line[i + 1]
    <3>1. i \in Nat /\ i + 1 \in 1 .. K /\ (i + 1) - 1 = i /\ (i - 1) + 1 = i /\ i # 0
      BY <1>0, <2>5
    <3>2. PICK s \in Holders : s = Line[i + 1] /\ Offset(ticket[s]) = i
      BY <1>0, <3>1 DEF LineOK
    <3>3. s \in Holders' /\ Offset(ticket[s])' = i - 1
      BY <1>2, <3>1, <3>2, ServeNextFacts
    <3>4. Line'[(i - 1) + 1] = s
      BY <3>3 DEF LineOK
    <3> QED
      BY <3>1, <3>2, <3>4
  <2>6. Line' = Tail(Line)
    <3>1. \A i \in 1 .. K - 1 : Line'[i] = Tail(Line)[i]
      BY <2>3, <2>5
    <3> QED
      BY <1>0, <2>3, <2>4, <3>1, SeqEqual
  <2> QED
    BY <2>1, <2>3, <2>6 DEF Abstract!Leave
<1>3. ASSUME \A t \in Threads : ~TakeTicket(t) /\ ~ServeNext(t) PROVE UNCHANGED Line
  BY <1>3, LineKept
<1>4. ASSUME NEW t \in Threads, LoadServing(t), now_serving = ticket[t] PROVE Abstract!Enter(t)
  <2>1. pc[t] = "load" /\ pc'[t] = "holding" /\ t \in Holders
    BY <1>0, <1>4 DEF LoadServing, Holders
  <2>2. ~inside /\ inside'
    BY <1>4, <2>1 DEF IInv, TicketWindow, Holders
  <2>3. Offset(ticket[t]) = 0
    BY <1>4 DEF Offset, IInv, TypeOK, Tickets
  <2>4. Line # <<>> /\ Line[1] = t
    BY <1>0, <2>1, <2>3, EmptySeq DEF LineOK
  <2>5. Head(Line) = t
    BY <1>0, <2>4, HeadTailProperties
  <2>6. UNCHANGED Line
    BY <1>0, <1>4, LineFrame DEF LoadServing, Holders
  <2> QED
    BY <2>2, <2>4, <2>5, <2>6 DEF Abstract!Enter
<1>5. ASSUME \A t \in Threads : /\ ~TakeTicket(t) /\ ~ServeNext(t)
                                /\ ~(LoadServing(t) /\ now_serving = ticket[t])
      PROVE  UNCHANGED <<Line, inside>>
  <2>1. \A t \in Threads : pc'[t] = "holding" <=> pc[t] = "holding"
    BY <1>0, <1>5 DEF Next, vars, LockStep, LoadServing, AtomicWait, SpuriousWake, UnlockStep, NotifyAll
  <2>2. inside' = inside
    BY <2>1
  <2> QED
    BY <1>5, <2>2, LineKept
<1>6. (\E t \in Threads : Abstract!Ask(t) \/ Abstract!Enter(t) \/ Abstract!Leave(t)) => Abstract!Next
  BY DEF Abstract!Next
<1> QED
  BY <1>1, <1>2, <1>4, <1>5, <1>6 DEF Abstract!vars

\* til::ticket_lock is fair: its clients are served one at a time and in the
\* order in which they drew their tickets, for every number of threads and
\* also when the counters overflow.
THEOREM LockIsFifo == Spec => IsFifoLock
<1>1. Init => Filled /\ Abstract!Init
  <2> SUFFICES ASSUME Init PROVE Filled /\ Abstract!Init
    OBVIOUS
  <2>1. Holders = {} /\ \A t \in Threads : pc[t] # "holding"
    BY DEF Init, Holders
  <2>2. Cardinality(Holders) = 0
    BY <2>1, FS_EmptySet
  <2>3. Line = <<>>
    BY <2>2 DEF Line
  <2> QED
    BY <2>1, <2>2, <2>3 DEF Filled, Abstract!Init
<1>2. IInv /\ Filled /\ [Next]_vars => (IInv /\ Filled)'
  BY NextIInv, NextFilled
<1>3. Spec => [](IInv /\ Filled)
  BY InitIInv, <1>1, <1>2, PTL DEF Spec
<1>4. IInv /\ Filled /\ (IInv /\ Filled)' /\ LineOK /\ LineOK' /\ [Next]_vars => [Abstract!Next]_(Abstract!vars)
  BY StepsOfFifoLock
<1> QED
  BY <1>1, <1>3, <1>4, LineFacts, PTL DEF Spec, IsFifoLock, Abstract!Spec

-----------------------------------------------------------------------------
(* The recursive ticket lock.  Its steps are steps of the ticket lock or   *)
(* leave it alone, so it inherits mutual exclusion; on top of that, an     *)
(* invariant relates _owner and _recursion, which only the ticket lock     *)
(* protects, to the thread that is inside.                                 *)

\* What the members hold, without the bounds on depth and nesting.
MembersOK ==
    /\ owner \in Threads \cup {NoThread}
    /\ recursion \in Nat
    /\ suspensions \in [Threads -> Seq([owned : BOOLEAN, recursion : Nat])]
    /\ op \in [Threads -> {"client", "lock", "unlock", "restore"}]

\* Only the suspensions that gave up the lock have a count to restore.
SavedCounts ==
    \A t \in Threads : \A i \in 1 .. Len(suspensions[t]) :
        suspensions[t][i].recursion > 0 <=> suspensions[t][i].owned

\* Which part of _lock each member function may be in.
Inside(t) ==
    /\ op[t] = "client" => pc[t] = IF owner = t THEN "holding" ELSE "idle"
    /\ op[t] \in {"lock", "restore"} => pc[t] \in {"load", "compare", "asleep", "holding"}
    /\ op[t] = "unlock" => pc[t] \in {"holding", "notify"}
    /\ op[t] = "restore" => suspensions[t] # <<>> /\ Newest(t).owned
    /\ owner = t => op[t] = "client"

RInv ==
    /\ IInv /\ MembersOK /\ SavedCounts
    /\ \A t \in Threads : Inside(t)
    /\ owner = NoThread <=> recursion = 0

\* Every step of the recursive lock is a step of its _lock member, or leaves
\* _lock alone.
LEMMA StepsOfTheLock == [RecursiveNext]_recursiveVars => [Next]_vars
<1> SUFFICES ASSUME [RecursiveNext]_recursiveVars PROVE [Next]_vars
  OBVIOUS
<1>1. CASE UNCHANGED recursiveVars
  BY <1>1 DEF recursiveVars, lockVars
<1>2. ASSUME NEW t \in Threads, Lock(t) \/ Restore(t) PROVE TakeTicket(t) \/ UNCHANGED vars
  BY <1>2 DEF Lock, Restore, lockVars
<1>3. ASSUME NEW t \in Threads,
             LockAcquired(t) \/ Unlock(t) \/ Suspend(t) \/ RestoreAcquired(t)
      PROVE  UNCHANGED vars
  BY <1>3 DEF LockAcquired, Unlock, Suspend, RestoreAcquired, lockVars
<1>4. ASSUME NEW t \in Threads, InnerLock(t) \/ InnerWake(t) \/ InnerUnlock(t)
      PROVE  LockStep(t) \/ SpuriousWake(t) \/ UnlockStep(t)
  BY <1>4 DEF InnerLock, InnerWake, InnerUnlock, UnlockStep
<1> QED
  BY <1>1, <1>2, <1>3, <1>4 DEF RecursiveNext, Next

\* The recursive lock uses its ticket lock as a ticket lock.
THEOREM UsesTicketLock == RecursiveSpec => Spec
<1>1. RecursiveInit => Init
  BY DEF RecursiveInit
<1> QED
  BY <1>1, StepsOfTheLock, PTL DEF RecursiveSpec, Spec

\* Two threads are never inside til::recursive_ticket_lock at once, whatever
\* they lock recursively and suspend.
THEOREM RecursiveLockExcludes == RecursiveSpec => []MutualExclusion
<1> QED
  BY UsesTicketLock, LockExcludes, PTL

\* til::recursive_ticket_lock serves its threads in the order in which lock()
\* and the destructors of suspensions drew their tickets.
THEOREM RecursiveLockIsFifo == RecursiveSpec => IsFifoLock
<1> QED
  BY UsesTicketLock, LockIsFifo, PTL

\* What is left when the newest suspension of a thread ends.
LEMMA NewestAndOlder ==
    ASSUME NEW S, NEW t \in Threads, suspensions[t] \in Seq(S), suspensions[t] # <<>>
    PROVE  /\ Len(suspensions[t]) \in Nat \ {0}
           /\ Newest(t) = suspensions[t][Len(suspensions[t])] /\ Newest(t) \in S
           /\ Older(t) \in Seq(S)
           /\ Len(Older(t)) = Len(suspensions[t]) - 1
           /\ \A i \in 1 .. Len(suspensions[t]) - 1 : Older(t)[i] = suspensions[t][i]
<1> DEFINE seq == suspensions[t]
<1>0. seq \in Seq(S) /\ seq # <<>>
  OBVIOUS
<1> HIDE DEF seq
<1>1. Len(seq) \in Nat \ {0} /\ \A i \in 1 .. Len(seq) : seq[i] \in S
  BY <1>0
<1>2. \A i \in 1 .. Len(seq) - 1 : seq[i] \in S
  BY <1>1
<1> DEFINE n == Len(seq) - 1
<1>3. n \in Int /\ 1 \in Int
  BY <1>1
<1> HIDE DEF n
<1>4. /\ SubSeq(seq, 1, n) \in Seq(S)
      /\ Len(SubSeq(seq, 1, n)) = IF 1 <= n THEN n - 1 + 1 ELSE 0
      /\ \A i \in 1 .. n - 1 + 1 : SubSeq(seq, 1, n)[i] = seq[1 + i - 1]
  BY <1>2, <1>3, SubSeqProperties DEF n
<1>5. n - 1 + 1 = n /\ \A i \in 1 .. n : 1 + i - 1 = i
  BY <1>3
<1>6. n >= 0
  BY <1>1 DEF n
<1>7. Older(t) = SubSeq(seq, 1, n) /\ Newest(t) = seq[Len(seq)]
  BY DEF Older, Newest, n, seq
<1>8. Len(seq) \in 1 .. Len(seq)
  BY <1>1
<1> QED
  BY <1>1, <1>3, <1>4, <1>5, <1>6, <1>7, <1>8 DEF seq, n

\* The newest suspension of a thread that has one.
LEMMA NewestSuspension ==
    ASSUME MembersOK, SavedCounts, NEW t \in Threads, suspensions[t] # <<>>
    PROVE  /\ Newest(t).recursion \in Nat
           /\ Newest(t).recursion > 0 <=> Newest(t).owned
<1>1. suspensions[t] \in Seq([owned : BOOLEAN, recursion : Nat])
  BY DEF MembersOK
<1>2. /\ Len(suspensions[t]) \in Nat \ {0}
      /\ Newest(t) = suspensions[t][Len(suspensions[t])]
      /\ Newest(t) \in [owned : BOOLEAN, recursion : Nat]
  BY <1>1, NewestAndOlder, Zenon
<1>5. Len(suspensions[t]) \in 1 .. Len(suspensions[t])
  BY <1>2
<1>3. suspensions[t][Len(suspensions[t])].recursion > 0
         <=> suspensions[t][Len(suspensions[t])].owned
  BY <1>5, Zenon DEF SavedCounts
<1>4. Newest(t).recursion \in Nat
  BY <1>2
<1> QED
  BY <1>2, <1>3, <1>4, Zenon

\* A destructor that ends removes the newest suspension and leaves the others.
LEMMA OlderKeeps ==
    ASSUME MembersOK, SavedCounts, NEW t \in Threads, suspensions[t] # <<>>,
           suspensions' = [suspensions EXCEPT ![t] = Older(t)]
    PROVE  /\ suspensions' \in [Threads -> Seq([owned : BOOLEAN, recursion : Nat])]
           /\ SavedCounts'
<1> DEFINE S == [owned : BOOLEAN, recursion : Nat]
<1>1. suspensions[t] \in Seq(S)
  BY DEF MembersOK
<1>2. /\ Older(t) \in Seq(S)
      /\ Len(suspensions[t]) \in Nat
      /\ Len(Older(t)) = Len(suspensions[t]) - 1
      /\ \A i \in 1 .. Len(suspensions[t]) - 1 : Older(t)[i] = suspensions[t][i]
  BY <1>1, NewestAndOlder, Zenon
<1>3. /\ suspensions' \in [Threads -> Seq(S)]
      /\ suspensions'[t] = Older(t)
      /\ \A u \in Threads \ {t} : suspensions'[u] = suspensions[u]
  BY <1>2 DEF MembersOK
<1>4. \A i \in 1 .. Len(suspensions'[t]) :
         i \in 1 .. Len(suspensions[t]) /\ suspensions'[t][i] = suspensions[t][i]
  BY <1>2, <1>3
<1>5. ASSUME NEW u \in Threads, NEW i \in 1 .. Len(suspensions'[u])
      PROVE  suspensions'[u][i].recursion > 0 <=> suspensions'[u][i].owned
  <2>1. i \in 1 .. Len(suspensions[u]) /\ suspensions'[u][i] = suspensions[u][i]
    BY <1>3, <1>4, <1>5
  <2> QED
    BY <2>1, Zenon DEF SavedCounts
<1> QED
  BY <1>3, <1>5, Zenon DEF SavedCounts

\* suspend() adds a suspension behind the others.
LEMMA AppendKeeps ==
    ASSUME MembersOK, SavedCounts, NEW t \in Threads,
           NEW new \in [owned : BOOLEAN, recursion : Nat],
           new.recursion > 0 <=> new.owned,
           suspensions' = [suspensions EXCEPT ![t] = Append(@, new)]
    PROVE  /\ suspensions' \in [Threads -> Seq([owned : BOOLEAN, recursion : Nat])]
           /\ SavedCounts'
<1> DEFINE S == [owned : BOOLEAN, recursion : Nat]
<1>1. suspensions[t] \in Seq(S)
  BY DEF MembersOK
<1> HIDE DEF S
<1>2. /\ Append(suspensions[t], new) \in Seq(S)
      /\ Len(suspensions[t]) \in Nat
      /\ Len(Append(suspensions[t], new)) = Len(suspensions[t]) + 1
      /\ \A i \in 1 .. Len(suspensions[t]) :
            Append(suspensions[t], new)[i] = suspensions[t][i]
      /\ Append(suspensions[t], new)[Len(suspensions[t]) + 1] = new
  BY <1>1 DEF S
<1>3. /\ suspensions' \in [Threads -> Seq(S)]
      /\ suspensions'[t] = Append(suspensions[t], new)
      /\ \A u \in Threads \ {t} : suspensions'[u] = suspensions[u]
  BY <1>2 DEF MembersOK, S
<1>4. ASSUME NEW u \in Threads, NEW i \in 1 .. Len(suspensions'[u])
      PROVE  suspensions'[u][i].recursion > 0 <=> suspensions'[u][i].owned
  <2>1. CASE u = t /\ i = Len(suspensions[t]) + 1
    BY <1>2, <1>3, <2>1, Zenon
  <2>2. CASE ~(u = t /\ i = Len(suspensions[t]) + 1)
    <3>1. i \in 1 .. Len(suspensions[u]) /\ suspensions'[u][i] = suspensions[u][i]
      BY <1>2, <1>3, <1>4, <2>2
    <3> QED
      BY <3>1, Zenon DEF SavedCounts
  <2> QED
    BY <2>1, <2>2
<1> QED
  BY <1>3, <1>4, Zenon DEF SavedCounts, S

LEMMA InitRInv == RecursiveInit => RInv
<1> SUFFICES ASSUME RecursiveInit PROVE RInv
  OBVIOUS
<1>1. IInv
  BY InitIInv DEF RecursiveInit
<1>2. MembersOK
  BY DEF RecursiveInit, MembersOK
<1>3. SavedCounts
  BY DEF RecursiveInit, SavedCounts
<1>4. \A t \in Threads : Inside(t)
  BY NoThreadAssumption DEF RecursiveInit, Init, Inside
<1> QED
  BY <1>1, <1>2, <1>3, <1>4 DEF RInv, RecursiveInit

\* The steps of _lock itself: taking a ticket, waiting for it, giving it back.
LEMMA LockStepsKeep ==
    ASSUME RInv, IInv', NEW t \in Threads,
           UNCHANGED <<owner, recursion, suspensions>>,
           op' \in [Threads -> {"client", "lock", "unlock", "restore"}],
           \A s \in Threads \ {t} :
               op'[s] = op[s] /\ (pc'[s] = pc[s] \/ (pc[s] = "asleep" /\ pc'[s] = "load")),
           Inside(t)'
    PROVE  RInv'
<1>1. MembersOK'
  BY DEF RInv, MembersOK
<1>2. SavedCounts'
  BY DEF RInv, SavedCounts
<1>3. ASSUME NEW s \in Threads \ {t} PROVE Inside(s)'
  BY <1>3 DEF RInv, Inside, Newest
<1> QED
  BY <1>1, <1>2, <1>3 DEF RInv

\* The steps that leave _lock alone: its members change under it.
LEMMA MemberStepsKeep ==
    ASSUME RInv, UNCHANGED vars, NEW t \in Threads,
           MembersOK', SavedCounts', Inside(t)',
           \A s \in Threads \ {t} :
               op'[s] = op[s] /\ suspensions'[s] = suspensions[s]
                   /\ (owner' = s <=> owner = s),
           owner' = NoThread <=> recursion' = 0
    PROVE  RInv'
<1>1. IInv'
  BY NextIInv DEF RInv
<1>2. ASSUME NEW s \in Threads \ {t} PROVE Inside(s)'
  BY <1>2 DEF RInv, Inside, Newest, vars
<1> QED
  BY <1>1, <1>2 DEF RInv

\* The thread that is inside _lock is the owner, or nobody is.
LEMMA InsideIsOwner ==
    ASSUME RInv, NEW t \in Threads, pc[t] = "holding"
    PROVE  owner \in {t, NoThread}
<1>1. MutualExclusion
  BY DEF RInv, IInv, TicketWindow, MutualExclusion, Holders
<1>2. owner \in Threads => pc[owner] = "holding"
  BY DEF RInv, Inside
<1> QED
  BY <1>1, <1>2 DEF RInv, MembersOK, MutualExclusion

LEMMA NextRInv == RInv /\ [RecursiveNext]_recursiveVars => RInv'
<1> SUFFICES ASSUME RInv, [RecursiveNext]_recursiveVars PROVE RInv'
  OBVIOUS
<1> USE NoThreadAssumption
<1>0. IInv'
  BY StepsOfTheLock, NextIInv DEF RInv
<1>1. ASSUME NEW t \in Threads, Lock(t) PROVE RInv'
  <2>1. CASE owner = t
    <3>1. MembersOK' /\ SavedCounts'
      BY <1>1, <2>1 DEF Lock, RInv, MembersOK, SavedCounts
    <3>2. Inside(t)' /\ recursion' # 0
      BY <1>1, <2>1 DEF Lock, RInv, MembersOK, Inside, lockVars, vars
    <3> QED
      BY <1>1, <2>1, <3>1, <3>2, MemberStepsKeep DEF Lock, lockVars
  <2>2. CASE owner # t
    <3>1. Inside(t)'
      BY <1>1, <2>2 DEF Lock, TakeTicket, RInv, IInv, TypeOK, MembersOK, Inside
    <3>2. UNCHANGED <<owner, recursion, suspensions>>
      BY <1>1, <2>2 DEF Lock
    <3>3. /\ op' \in [Threads -> {"client", "lock", "unlock", "restore"}]
          /\ \A s \in Threads \ {t} : op'[s] = op[s] /\ pc'[s] = pc[s]
      BY <1>1, <2>2, Zenon DEF Lock, TakeTicket, RInv, IInv, TypeOK, MembersOK
    <3> QED
      BY <1>0, <3>1, <3>2, <3>3, LockStepsKeep, Zenon
  <2> QED
    BY <2>1, <2>2
<1>2. ASSUME NEW t \in Threads, LockAcquired(t) PROVE RInv'
  <2>1. owner \in {t, NoThread}
    BY <1>2, InsideIsOwner DEF LockAcquired
  <2>2. MembersOK' /\ SavedCounts'
    BY <1>2 DEF LockAcquired, RInv, MembersOK, SavedCounts
  <2>3. Inside(t)' /\ recursion' # 0
    BY <1>2 DEF LockAcquired, RInv, MembersOK, Inside, lockVars, vars
  <2> QED
    BY <1>2, <2>1, <2>2, <2>3, MemberStepsKeep DEF LockAcquired, lockVars, RInv, MembersOK
<1>3. ASSUME NEW t \in Threads, Unlock(t) PROVE RInv'
  <2>1. recursion > 0 /\ recursion \in Nat
    BY <1>3 DEF Unlock, RInv, MembersOK
  <2>4. UNCHANGED suspensions /\ recursion' \in Nat
        /\ owner' \in Threads \cup {NoThread}
        /\ op' \in [Threads -> {"client", "lock", "unlock", "restore"}]
    BY <1>3, <2>1, SMTT(40) DEF Unlock, RInv, MembersOK
  <2>2. MembersOK' /\ SavedCounts'
    BY <2>4 DEF RInv, MembersOK, SavedCounts
  <2>3. Inside(t)' /\ (owner' = NoThread <=> recursion' = 0)
    BY <1>3, <2>1 DEF Unlock, RInv, MembersOK, Inside, lockVars, vars
  <2> QED
    BY <1>3, <2>2, <2>3, MemberStepsKeep DEF Unlock, lockVars, RInv, MembersOK
<1>4. ASSUME NEW t \in Threads, InnerLock(t) \/ InnerWake(t) PROVE RInv'
  <2>1. Inside(t)'
    BY <1>4, Zenon DEF InnerLock, InnerWake, LockStep, LoadServing, AtomicWait, SpuriousWake,
                RInv, IInv, TypeOK, MembersOK, Inside, Newest
  <2> QED
    BY <1>0, <1>4, <2>1, LockStepsKeep, Zenon
       DEF InnerLock, InnerWake, LockStep, LoadServing, AtomicWait, SpuriousWake,
           RInv, IInv, TypeOK, MembersOK
<1>5. ASSUME NEW t \in Threads, InnerUnlock(t) PROVE RInv'
  <2>1. Inside(t)'
    BY <1>5 DEF InnerUnlock, ServeNext, NotifyAll, RInv, IInv, TypeOK, MembersOK, Inside
  <2>2. UNCHANGED <<owner, recursion, suspensions>>
    BY <1>5 DEF InnerUnlock
  <2>3. op' \in [Threads -> {"client", "lock", "unlock", "restore"}]
    BY <1>5 DEF InnerUnlock, RInv, MembersOK
  <2>4. \A s \in Threads \ {t} : op'[s] = op[s]
    BY <1>5 DEF InnerUnlock, RInv, MembersOK
  <2>5. \A s \in Threads \ {t} : pc'[s] = pc[s] \/ (pc[s] = "asleep" /\ pc'[s] = "load")
    BY <1>5 DEF InnerUnlock, ServeNext, NotifyAll, RInv, IInv, TypeOK
  <2> QED
    BY <1>0, <2>1, <2>2, <2>3, <2>4, <2>5, LockStepsKeep, Zenon
<1>6. ASSUME NEW t \in Threads, Suspend(t) PROVE RInv'
  <2> DEFINE Kept ==
        /\ suspensions' \in [Threads -> Seq([owned : BOOLEAN, recursion : Nat])]
        /\ SavedCounts'
  <2>1. ASSUME owner = t PROVE Kept
    <3> DEFINE new == [owned |-> TRUE, recursion |-> recursion]
    <3>1. suspensions' = [suspensions EXCEPT ![t] = Append(@, new)]
      BY <1>6, <2>1 DEF Suspend
    <3>2. new \in [owned : BOOLEAN, recursion : Nat] /\ new.recursion > 0 /\ new.owned
      BY <2>1 DEF RInv, MembersOK
    <3> HIDE DEF new
    <3> QED
      BY <3>1, <3>2, AppendKeeps, Zenon DEF RInv
  <2>2. ASSUME owner # t PROVE Kept
    <3> DEFINE new == [owned |-> FALSE, recursion |-> 0]
    <3>1. suspensions' = [suspensions EXCEPT ![t] = Append(@, new)]
      BY <1>6, <2>2 DEF Suspend
    <3>2. new \in [owned : BOOLEAN, recursion : Nat] /\ ~(new.recursion > 0) /\ ~new.owned
      OBVIOUS
    <3> HIDE DEF new
    <3> QED
      BY <3>1, <3>2, AppendKeeps, Zenon DEF RInv
  <2>0. Kept
    BY <2>1, <2>2
  <2>5. /\ owner' \in Threads \cup {NoThread} /\ recursion' \in Nat
        /\ op' \in [Threads -> {"client", "lock", "unlock", "restore"}]
    <3>1. \/ owner' = NoThread /\ recursion' = 0 /\ op' = [op EXCEPT ![t] = "unlock"]
          \/ UNCHANGED <<owner, recursion, op>>
      BY <1>6 DEF Suspend
    <3>2. /\ owner \in Threads \cup {NoThread} /\ recursion \in Nat
          /\ op \in [Threads -> {"client", "lock", "unlock", "restore"}]
      BY Zenon DEF RInv, MembersOK
    <3> QED
      BY <3>1, <3>2
  <2>3. MembersOK' /\ SavedCounts'
    BY <2>0, <2>5, Zenon DEF MembersOK
  <2>4. Inside(t)' /\ (owner' = NoThread <=> recursion' = 0)
    BY <1>6 DEF Suspend, RInv, MembersOK, Inside, lockVars, vars
  <2> QED
    BY <1>6, <2>3, <2>4, MemberStepsKeep, ZenonT(40) DEF Suspend, lockVars, RInv, MembersOK
<1>7. ASSUME NEW t \in Threads, Restore(t) PROVE RInv'
  <2>1. CASE Newest(t).owned /\ owner # t
    <3>1. /\ op[t] = "client" /\ suspensions[t] # <<>>
          /\ TakeTicket(t)
          /\ op' = [op EXCEPT ![t] = "restore"]
          /\ UNCHANGED <<owner, recursion, suspensions>>
      BY <1>7, <2>1 DEF Restore
    <3>2. pc'[t] = "load" /\ op'[t] = "restore"
      BY <3>1 DEF TakeTicket, RInv, IInv, TypeOK, MembersOK
    <3>3. Inside(t)'
      BY <2>1, <3>1, <3>2 DEF Inside, Newest
    <3>4. /\ op' \in [Threads -> {"client", "lock", "unlock", "restore"}]
          /\ \A s \in Threads \ {t} : op'[s] = op[s] /\ pc'[s] = pc[s]
      BY <3>1 DEF TakeTicket, RInv, IInv, TypeOK, MembersOK
    <3> QED
      BY <1>0, <3>1, <3>3, <3>4, LockStepsKeep
  <2>2. CASE ~(Newest(t).owned /\ owner # t)
    <3>1. /\ suspensions[t] # <<>>
          /\ recursion' = recursion + Newest(t).recursion
          /\ suspensions' = [suspensions EXCEPT ![t] = Older(t)]
          /\ UNCHANGED <<vars, op, owner>>
      BY <1>7, <2>2 DEF Restore, lockVars
    <3>2. /\ Newest(t).recursion \in Nat
          /\ Newest(t).recursion > 0 <=> Newest(t).owned
      BY <3>1, NewestSuspension DEF RInv
    <3>3. owner' = NoThread <=> recursion' = 0
      BY <2>2, <3>1, <3>2 DEF RInv, MembersOK
    <3>4. SavedCounts' /\ suspensions' \in [Threads -> Seq([owned : BOOLEAN, recursion : Nat])]
      BY <3>1, OlderKeeps, Zenon DEF RInv
    <3>6. MembersOK'
      BY <3>1, <3>2, <3>4 DEF RInv, MembersOK
    <3>5. Inside(t)'
      BY <1>7, <3>1 DEF Restore, RInv, Inside, vars
    <3> QED
      BY <3>1, <3>3, <3>4, <3>5, <3>6, MemberStepsKeep, Zenon DEF RInv, MembersOK
  <2> QED
    BY <2>1, <2>2
<1>8. ASSUME NEW t \in Threads, RestoreAcquired(t) PROVE RInv'
  <2>1. owner \in {t, NoThread} /\ suspensions[t] # <<>> /\ Newest(t).owned
    BY <1>8, InsideIsOwner DEF RestoreAcquired, RInv, Inside
  <2>2. /\ Newest(t).recursion \in Nat
        /\ Newest(t).recursion > 0 <=> Newest(t).owned
    BY <2>1, NewestSuspension DEF RInv
  <2>3. recursion' \in Nat /\ recursion' > 0
    BY <1>8, <2>1, <2>2 DEF RestoreAcquired, RInv, MembersOK
  <2>4. MembersOK' /\ SavedCounts'
    BY <1>8, <2>1, <2>3, OlderKeeps, Zenon DEF RestoreAcquired, RInv, MembersOK
  <2>5. Inside(t)'
    BY <1>8 DEF RestoreAcquired, RInv, MembersOK, Inside, lockVars, vars
  <2>6. UNCHANGED vars /\ owner' = t
    BY <1>8 DEF RestoreAcquired, lockVars
  <2>7. \A s \in Threads \ {t} :
           op'[s] = op[s] /\ suspensions'[s] = suspensions[s] /\ (owner' = s <=> owner = s)
    BY <1>8, <2>1 DEF RestoreAcquired, RInv, MembersOK
  <2>8. owner' = NoThread <=> recursion' = 0
    BY <2>3, <2>6
  <2> QED
    BY <2>4, <2>5, <2>6, <2>7, <2>8, MemberStepsKeep, Zenon
<1>9. CASE UNCHANGED recursiveVars
  BY <1>0, <1>9 DEF recursiveVars, lockVars, vars, RInv, MembersOK, SavedCounts, Inside, Newest
<1> QED
  BY <1>1, <1>2, <1>3, <1>4, <1>5, <1>6, <1>7, <1>8, <1>9 DEF RecursiveNext

\* _owner, which lock() reads without synchronisation, always is the id of the
\* thread inside the ticket lock, in none of its calls, with a count to unlock.
THEOREM OwnerIsTheOneInside == RecursiveSpec => []OwnerIsInside
<1>1. RInv => OwnerIsInside
  BY DEF RInv, MembersOK, Inside, OwnerIsInside
<1> QED
  BY <1>1, InitRInv, NextRInv, PTL DEF RecursiveSpec

\* A thread that has just been given the ticket lock, in lock() or in the
\* destructor of a suspension, finds the count 0: the non-atomic _recursion is
\* never inherited from the previous owner.
THEOREM NobodyInheritsACount == RecursiveSpec => []FreshOwnerStartsAtZero
<1>1. RInv => FreshOwnerStartsAtZero
  BY InsideIsOwner, NoThreadAssumption DEF RInv, MembersOK, Inside, FreshOwnerStartsAtZero
<1> QED
  BY <1>1, InitRInv, NextRInv, PTL DEF RecursiveSpec

-----------------------------------------------------------------------------
(* The counts *)

\* Induction over the natural numbers, for a set instead of a predicate.
LEMMA NatSetInduction ==
    ASSUME NEW S, 0 \in S, \A n \in Nat : n \in S => n + 1 \in S
    PROVE  Nat \subseteq S
<1> DEFINE T == Nat \ S
           Less == {ss \in Nat \X Nat : ss[1] < ss[2]}
<1> SUFFICES ASSUME T # {} PROVE FALSE
  OBVIOUS
<1>1. IsWellFoundedOn(Less, Nat)
  BY NatLessThanWellFounded DEF OpToRel
<1>2. PICK n \in T : \A m \in T : <<m, n>> \notin Less
  <2> HIDE DEF Less
  <2> QED
    BY <1>1, WFMin, Zenon
<1>3. n \in Nat /\ n \notin S /\ n # 0 /\ n - 1 \in Nat /\ n = (n - 1) + 1
  BY <1>2
<1>4. <<n - 1, n>> \in Less
  BY <1>3
<1>5. n - 1 \in S
  BY <1>2, <1>3, <1>4
<1> QED
  BY <1>3, <1>5

Counted == [owned : BOOLEAN, recursion : Nat]

\* The partial sums of the counts of some suspensions, the last of which is Total.
Sums(f, ss) ==
    /\ f \in [0 .. Len(ss) -> Nat] /\ f[0] = 0
    /\ \A k \in 1 .. Len(ss) : f[k] = f[k - 1] + ss[k].recursion

LEMMA TotalIsSum ==
    ASSUME NEW ss \in Seq(Counted)
    PROVE  \E f : Sums(f, ss) /\ Total(ss) = f[Len(ss)]
<1> DEFINE N == Len(ss)
           count(k) == ss[k].recursion
           Plus(x, k) == x + count(k)
           Is(r, n) == r = [k \in 0 .. n |-> IF k = 0 THEN 0 ELSE Plus(r[k - 1], k)]
           Built == {n \in Nat : \E r : Is(r, n)}
<1>0. N \in Nat /\ \A k \in 1 .. N : count(k) \in Nat
  <2>1. N \in Nat /\ \A k \in 1 .. N : ss[k] \in Counted
    BY ElementOfSeq, LenProperties
  <2> QED
    BY <2>1 DEF Counted
<1> HIDE DEF N, count
<1>1. Nat \subseteq Built
  <2>1. 0 \in Built
    <3>1. Is([k \in 0 .. 0 |-> 0], 0)
      OBVIOUS
    <3> QED
      BY <3>1, Zenon
  <2>2. ASSUME NEW n \in Nat, n \in Built PROVE n + 1 \in Built
    <3>1. PICK r : Is(r, n)
      BY <2>2, Zenon
    <3> DEFINE q == [k \in 0 .. n + 1 |-> IF k = n + 1 THEN Plus(r[n], n + 1) ELSE r[k]]
    <3> HIDE DEF Plus
    <3>2. \A k \in 0 .. n : r[k] = IF k = 0 THEN 0 ELSE Plus(r[k - 1], k)
      BY <3>1
    <3>3. \A k \in 0 .. n + 1 : q[k] = IF k = 0 THEN 0 ELSE Plus(q[k - 1], k)
      BY <3>2
    <3>4. Is(q, n + 1)
      BY <3>3
    <3> HIDE DEF q, Is
    <3> QED
      BY <3>4
  <2> HIDE DEF Built
  <2> QED
    BY <2>1, <2>2, NatSetInduction
<1> DEFINE f == CHOOSE r : Is(r, N)
<1>2. Is(f, N)
  <2>1. \E r : Is(r, N)
    BY <1>0, <1>1, Zenon
  <2> HIDE DEF Is
  <2> QED
    BY <2>1, Zenon
<1>3. Total(ss) = f[N]
  BY DEF Total, N, count
<1> HIDE DEF f
<1>4. f = [k \in 0 .. N |-> IF k = 0 THEN 0 ELSE f[k - 1] + count(k)]
  BY <1>2, Zenon
<1>5. \A k \in 0 .. N : f[k] = IF k = 0 THEN 0 ELSE f[k - 1] + count(k)
  BY <1>4, Zenon
<1>6. DOMAIN f = 0 .. N
  BY <1>4
<1> DEFINE Good == {n \in Nat : n <= N => f[n] \in Nat}
<1>7. Nat \subseteq Good
  <2>1. 0 \in Good
    BY <1>0, <1>5
  <2>2. ASSUME NEW n \in Nat, n \in Good PROVE n + 1 \in Good
    <3>1. CASE n + 1 <= N
      <4>1. n + 1 \in 1 .. N /\ n + 1 \in 0 .. N /\ n + 1 # 0 /\ (n + 1) - 1 = n /\ n <= N
        BY <1>0, <3>1
      <4>2. f[n + 1] = f[n] + count(n + 1) /\ f[n] \in Nat /\ count(n + 1) \in Nat
        BY <1>0, <1>5, <2>2, <4>1
      <4> QED
        BY <4>2
    <3> QED
      BY <3>1
  <2> HIDE DEF Good
  <2> QED
    BY <2>1, <2>2, NatSetInduction
<1>8. \A k \in 0 .. N : f[k] \in Nat
  BY <1>0, <1>7
<1>9. f \in [0 .. N -> Nat] /\ f[0] = 0 /\ \A k \in 1 .. N : f[k] = f[k - 1] + count(k)
  BY <1>0, <1>4, <1>5, <1>8
<1> QED
  BY <1>3, <1>9 DEF Sums, N, count

\* One suspension more adds its count.
LEMMA TotalStep ==
    ASSUME NEW ss \in Seq(Counted), NEW ls \in Seq(Counted), Len(ls) = Len(ss) + 1,
           \A i \in 1 .. Len(ss) : ls[i] = ss[i]
    PROVE  /\ Total(ls) = Total(ss) + ls[Len(ls)].recursion
           /\ Total(ss) \in Nat /\ ls[Len(ls)].recursion \in Nat
<1> DEFINE N == Len(ss)
<1>0. N \in Nat /\ Len(ls) = N + 1 /\ ls[N + 1] \in Counted
  BY ElementOfSeq, LenProperties
<1>1. PICK f : Sums(f, ss) /\ Total(ss) = f[Len(ss)]
  BY TotalIsSum, Zenon
<1>2. PICK g : Sums(g, ls) /\ Total(ls) = g[Len(ls)]
  BY TotalIsSum, Zenon
<1> DEFINE Same == {n \in Nat : n <= N => g[n] = f[n]}
<1>3. \A k \in 1 .. N : f[k] = f[k - 1] + ss[k].recursion
  BY <1>1 DEF Sums
<1>4. \A k \in 1 .. N + 1 : g[k] = g[k - 1] + ls[k].recursion
  BY <1>0, <1>2 DEF Sums
<1>5. f[0] = 0 /\ g[0] = 0 /\ f[N] \in Nat
  BY <1>0, <1>1, <1>2 DEF Sums
<1>6. Nat \subseteq Same
  <2>1. 0 \in Same
    BY <1>5
  <2>2. ASSUME NEW n \in Nat, n \in Same PROVE n + 1 \in Same
    <3>1. CASE n + 1 <= N
      <4>1. n + 1 \in 1 .. N /\ n + 1 \in 1 .. N + 1 /\ (n + 1) - 1 = n /\ n <= N
        BY <1>0, <3>1
      <4>2. f[n + 1] = f[n] + ss[n + 1].recursion /\ g[n + 1] = g[n] + ls[n + 1].recursion
        BY <1>3, <1>4, <4>1
      <4> QED
        BY <2>2, <4>1, <4>2
    <3> QED
      BY <3>1
  <2> HIDE DEF Same
  <2> QED
    BY <2>1, <2>2, NatSetInduction
<1>7. g[N] = f[N]
  BY <1>0, <1>6
<1>8. g[N + 1] = g[N] + ls[N + 1].recursion
  <2>1. N + 1 \in 1 .. N + 1 /\ (N + 1) - 1 = N
    BY <1>0
  <2> QED
    BY <1>4, <2>1
<1>9. ls[N + 1].recursion \in Nat
  BY <1>0 DEF Counted
<1> QED
  BY <1>0, <1>1, <1>2, <1>5, <1>7, <1>8, <1>9

LEMMA TotalOfNone == Total(<<>>) = 0
<1>1. <<>> \in Seq(Counted) /\ Len(<<>>) = 0
  BY EmptySeq
<1>2. PICK f : Sums(f, <<>>) /\ Total(<<>>) = f[Len(<<>>)]
  BY <1>1, TotalIsSum, Zenon
<1> QED
  BY <1>1, <1>2 DEF Sums

\* The balance of the counts, with the bound that lock() checked before it waited.
Waiting == \A t \in Threads : op[t] = "lock" => calls[t] < MaxDepth

BInv == RInv /\ RecursionIsBalanced /\ Waiting

\* A step of thread t that changes its calls to c and its suspensions to ss.
LEMMA BalanceStep ==
    ASSUME BInv, RInv', NEW t \in Threads, NEW c \in 0 .. MaxDepth, NEW ss \in Seq(Suspension),
           calls' = [calls EXCEPT ![t] = c], suspensions' = [suspensions EXCEPT ![t] = ss],
           \A u \in Threads \ {t} :
               op'[u] = op[u] /\ (owner' = u <=> owner = u) /\ (owner = u => recursion' = recursion),
           c = Total(ss) + IF owner' = t THEN recursion' ELSE 0,
           op'[t] = "lock" => c < MaxDepth
    PROVE  BInv'
<1>0. /\ \A u \in Threads : calls[u] \in 0 .. MaxDepth /\ suspensions[u] \in Seq(Suspension)
      /\ \A u \in Threads : calls[u] = Total(suspensions[u]) + IF owner = u THEN recursion ELSE 0
  BY DEF BInv, RecursionIsBalanced, RecursiveTypeOK, Saved
<1>1. /\ calls' \in [Threads -> 0 .. MaxDepth] /\ suspensions' \in [Threads -> Seq(Suspension)]
      /\ calls'[t] = c /\ suspensions'[t] = ss
      /\ \A u \in Threads \ {t} : calls'[u] = calls[u] /\ suspensions'[u] = suspensions[u]
  BY DEF BInv, RecursionIsBalanced, RecursiveTypeOK
<1>2. Waiting'
  BY <1>1 DEF BInv, Waiting
<1>3. \A u \in Threads : calls'[u] = Total(suspensions'[u]) + IF owner' = u THEN recursion' ELSE 0
  BY <1>0, <1>1
<1>4. recursion' \in 0 .. MaxDepth
  <2>1. /\ recursion' \in Nat /\ owner' \in Threads \cup {NoThread} /\ MaxDepth \in Nat
        /\ (owner' = NoThread => recursion' = 0)
    BY NoThreadAssumption DEF RInv, MembersOK
  <2>2. CASE owner' \in Threads
    <3>1. suspensions'[owner'] \in Seq(Counted)
      <4>1. Suspension \subseteq Counted
        BY NoThreadAssumption DEF Suspension, Counted
      <4> QED
        BY <1>1, <2>2, <4>1, SeqMonotonic
    <3>2. Total(suspensions'[owner']) \in Nat
      <4>1. PICK f : Sums(f, suspensions'[owner'])
                     /\ Total(suspensions'[owner']) = f[Len(suspensions'[owner'])]
        BY <3>1, TotalIsSum
      <4>2. Len(suspensions'[owner']) \in 0 .. Len(suspensions'[owner'])
        BY <3>1, LenProperties
      <4> QED
        BY <4>1, <4>2 DEF Sums
    <3>3. calls'[owner'] = Total(suspensions'[owner']) + recursion' /\ calls'[owner'] \in 0 .. MaxDepth
      BY <1>1, <1>3, <2>2
    <3> QED
      BY <2>1, <3>2, <3>3
  <2> QED
    BY <2>1, <2>2
<1>5. RecursiveTypeOK'
  BY <1>1, <1>4 DEF RInv, IInv, MembersOK, RecursiveTypeOK
<1> QED
  BY <1>2, <1>3, <1>5 DEF BInv, RecursionIsBalanced, Saved

LEMMA InitBInv == RecursiveInit => BInv
<1> SUFFICES ASSUME RecursiveInit PROVE BInv
  OBVIOUS
<1>1. RInv
  BY InitRInv
<1>2. /\ \A t \in Threads : suspensions[t] = <<>> /\ calls[t] = 0 /\ op[t] = "client" /\ owner # t
      /\ recursion = 0 /\ MaxDepth \in Nat /\ owner = NoThread
  BY NoThreadAssumption DEF RecursiveInit
<1>3. suspensions \in [Threads -> Seq(Suspension)] /\ calls \in [Threads -> 0 .. MaxDepth]
  BY <1>2, EmptySeq DEF RecursiveInit
<1>4. RecursiveTypeOK
  BY <1>1, <1>2, <1>3 DEF RInv, IInv, MembersOK, RecursiveTypeOK
<1>5. \A t \in Threads : Saved(t) = 0
  BY <1>2, TotalOfNone DEF Saved
<1> QED
  BY <1>1, <1>2, <1>4, <1>5 DEF BInv, RecursionIsBalanced, Waiting

LEMMA NextBInv == BInv /\ [RecursiveNext]_recursiveVars => BInv'
<1> SUFFICES ASSUME BInv, [RecursiveNext]_recursiveVars PROVE BInv'
  OBVIOUS
<1>0. RInv /\ RInv' /\ RecursionIsBalanced /\ Waiting /\ RecursiveTypeOK /\ MembersOK /\ MaxDepth \in Nat
  BY NextRInv, NoThreadAssumption DEF BInv, RecursionIsBalanced, RInv
<1>1. /\ \A u \in Threads : calls[u] \in 0 .. MaxDepth /\ suspensions[u] \in Seq(Suspension)
      /\ \A u \in Threads : calls[u] = Total(suspensions[u]) + IF owner = u THEN recursion ELSE 0
      /\ \A u \in Threads : Total(suspensions[u]) \in Nat
      /\ calls \in [Threads -> 0 .. MaxDepth] /\ suspensions \in [Threads -> Seq(Suspension)]
      /\ op \in [Threads -> {"client", "lock", "unlock", "restore"}]
      /\ recursion \in 0 .. MaxDepth
  <2>1. Suspension \subseteq Counted
    BY NoThreadAssumption DEF Suspension, Counted
  <2>2. \A u \in Threads : suspensions[u] \in Seq(Suspension) /\ suspensions[u] \in Seq(Counted)
    BY <1>0, <2>1, SeqMonotonic DEF RecursiveTypeOK
  <2>3. ASSUME NEW u \in Threads PROVE Total(suspensions[u]) \in Nat
    <3>1. PICK f : Sums(f, suspensions[u]) /\ Total(suspensions[u]) = f[Len(suspensions[u])]
      BY <2>2, TotalIsSum
    <3>2. Len(suspensions[u]) \in 0 .. Len(suspensions[u])
      BY <2>2, LenProperties
    <3> QED
      BY <3>1, <3>2 DEF Sums
  <2> QED
    BY <1>0, <2>2, <2>3 DEF RecursionIsBalanced, RecursiveTypeOK, Saved
<1>2. ASSUME NEW u \in Threads
      PROVE  calls = [calls EXCEPT ![u] = calls[u]] /\ suspensions = [suspensions EXCEPT ![u] = suspensions[u]]
  BY <1>1
<1>3. ASSUME NEW t \in Threads, Lock(t) PROVE BInv'
  <2>1. CASE owner = t
    <3> DEFINE c == calls[t] + 1
    <3>1. /\ c \in 0 .. MaxDepth /\ c = Total(suspensions[t]) + recursion + 1
          /\ calls' = [calls EXCEPT ![t] = c] /\ recursion' = recursion + 1 /\ op[t] = "client"
          /\ UNCHANGED <<owner, suspensions, op>>
      BY <1>0, <1>1, <1>3, <2>1 DEF Lock
    <3>2. c = Total(suspensions[t]) + IF owner' = t THEN recursion' ELSE 0
      BY <1>1, <2>1, <3>1
    <3>3. suspensions' = [suspensions EXCEPT ![t] = suspensions[t]]
      BY <1>2, <3>1
    <3> HIDE DEF c
    <3> QED
      BY <1>0, <1>1, <2>1, <3>1, <3>2, <3>3, BalanceStep, Zenon
  <2>2. CASE owner # t
    <3>1. /\ UNCHANGED <<owner, recursion, suspensions, calls>> /\ calls[t] < MaxDepth
          /\ op' = [op EXCEPT ![t] = "lock"]
      BY <1>3, <2>2 DEF Lock
    <3>2. \A u \in Threads \ {t} : op'[u] = op[u]
      BY <1>1, <3>1
    <3> QED
      BY <1>0, <1>1, <1>2, <2>2, <3>1, <3>2, BalanceStep
  <2> QED
    BY <2>1, <2>2
<1>4. ASSUME NEW t \in Threads, LockAcquired(t) PROVE BInv'
  <2> DEFINE c == calls[t] + 1
  <2>1. owner = NoThread /\ recursion = 0
    BY <1>0, <1>4, InsideIsOwner DEF LockAcquired, RInv, Inside
  <2>2. /\ calls[t] < MaxDepth /\ calls' = [calls EXCEPT ![t] = c] /\ owner' = t /\ recursion' = recursion + 1
        /\ op' = [op EXCEPT ![t] = "client"] /\ UNCHANGED suspensions
    BY <1>0, <1>4 DEF LockAcquired, Waiting
  <2>3. \A u \in Threads \ {t} : op'[u] = op[u] /\ owner # u
    BY <1>1, <2>1, <2>2, NoThreadAssumption
  <2>4. c \in 0 .. MaxDepth /\ c = Total(suspensions[t]) + recursion' /\ op'[t] # "lock"
    BY <1>0, <1>1, <2>1, <2>2, NoThreadAssumption
  <2>5. c = Total(suspensions[t]) + IF owner' = t THEN recursion' ELSE 0
    BY <2>2, <2>4
  <2> HIDE DEF c
  <2> QED
    BY <1>0, <1>1, <1>2, <2>2, <2>3, <2>4, <2>5, BalanceStep, Zenon
<1>5. ASSUME NEW t \in Threads, Unlock(t) PROVE BInv'
  <2> DEFINE c == calls[t] - 1
  <2>1. /\ owner = t /\ calls' = [calls EXCEPT ![t] = c] /\ recursion' = recursion - 1 /\ UNCHANGED suspensions
        /\ owner' = IF recursion = 1 THEN NoThread ELSE t
        /\ op' \in {op, [op EXCEPT ![t] = "unlock"]} /\ op[t] = "client"
    BY <1>5 DEF Unlock
  <2>2. recursion > 0 /\ NoThread # t
    BY <1>0, <1>1, <2>1, NoThreadAssumption DEF RInv
  <2>3. c \in 0 .. MaxDepth /\ c = Total(suspensions[t]) + recursion - 1
    BY <1>0, <1>1, <2>1, <2>2
  <2>4. c = Total(suspensions[t]) + IF owner' = t THEN recursion' ELSE 0
    BY <1>1, <2>1, <2>2, <2>3
  <2>5. op'[t] # "lock" /\ \A u \in Threads \ {t} : op'[u] = op[u] /\ owner # u /\ owner' # u
    BY <1>1, <2>1, NoThreadAssumption
  <2> HIDE DEF c
  <2> QED
    BY <1>0, <1>1, <1>2, <2>1, <2>3, <2>4, <2>5, BalanceStep, Zenon
<1>6. ASSUME NEW t \in Threads, InnerLock(t) \/ InnerWake(t) \/ InnerUnlock(t) PROVE BInv'
  <2>1. /\ UNCHANGED <<owner, recursion, suspensions, calls>>
        /\ op' \in {op, [op EXCEPT ![t] = "client"]}
    BY <1>6 DEF InnerLock, InnerWake, InnerUnlock
  <2>2. /\ \A u \in Threads \ {t} : op'[u] = op[u]
        /\ op'[t] = "lock" => op[t] = "lock"
    BY <1>1, <2>1
  <2>3. op'[t] = "lock" => calls[t] < MaxDepth
    BY <1>0, <2>2 DEF Waiting
  <2> QED
    BY <1>0, <1>1, <1>2, <2>1, <2>2, <2>3, BalanceStep
<1>7. CASE UNCHANGED recursiveVars
  BY <1>0, <1>7 DEF BInv, RecursionIsBalanced, RecursiveTypeOK, TypeOK, Waiting, Saved, recursiveVars, lockVars, vars
<1>8. ASSUME NEW t \in Threads, NEW ss \in Seq(Suspension), NEW e \in Suspension,
             suspensions' = [suspensions EXCEPT ![t] = ss], UNCHANGED calls,
             op'[t] # "lock",
             \/ ss = Append(suspensions[t], e) /\ recursion' = recursion - e.recursion
             \/ /\ suspensions[t] # <<>> /\ e = Newest(t) /\ ss = Older(t)
                /\ recursion' = recursion + e.recursion,
             \A u \in Threads \ {t} :
                 op'[u] = op[u] /\ (owner' = u <=> owner = u) /\ (owner = u => recursion' = recursion),
             owner # t /\ owner' = t => recursion = 0,
             owner # t /\ owner' # t => e.recursion = 0,
             owner = t /\ owner' # t => recursion' = 0
      PROVE  BInv'
  <2>1. Suspension \subseteq Counted /\ e.recursion \in Nat
    BY NoThreadAssumption DEF Suspension, Counted
  <2>2. ss \in Seq(Counted) /\ suspensions[t] \in Seq(Counted) /\ suspensions[t] \in Seq(Suspension)
    BY <1>1, <2>1, SeqMonotonic
  <2>3. Total(ss) + recursion' = Total(suspensions[t]) + recursion /\ Total(ss) \in Nat
    <3>1. CASE ss = Append(suspensions[t], e) /\ recursion' = recursion - e.recursion
      <4>1. /\ Len(ss) = Len(suspensions[t]) + 1 /\ ss[Len(ss)] = e
            /\ \A i \in 1 .. Len(suspensions[t]) : ss[i] = suspensions[t][i]
        BY <2>2, <3>1, AppendProperties
      <4>2. Total(ss) = Total(suspensions[t]) + e.recursion
        BY <2>2, <4>1, TotalStep
      <4> QED
        BY <1>1, <2>1, <3>1, <4>2
    <3>2. CASE suspensions[t] # <<>> /\ e = Newest(t) /\ ss = Older(t) /\ recursion' = recursion + e.recursion
      <4>1. /\ Len(suspensions[t]) \in Nat \ {0} /\ e = suspensions[t][Len(suspensions[t])]
            /\ Len(ss) = Len(suspensions[t]) - 1
            /\ \A i \in 1 .. Len(suspensions[t]) - 1 : ss[i] = suspensions[t][i]
        BY <2>2, <3>2, NewestAndOlder
      <4>2. Len(suspensions[t]) = Len(ss) + 1 /\ \A i \in 1 .. Len(ss) : suspensions[t][i] = ss[i]
        BY <4>1
      <4>3. Total(suspensions[t]) = Total(ss) + e.recursion /\ Total(ss) \in Nat
        BY <2>2, <4>1, <4>2, TotalStep
      <4> QED
        BY <1>1, <2>1, <3>2, <4>3
    <3> QED
      BY <1>8, <3>1, <3>2
  <2>4. calls[t] = Total(ss) + IF owner' = t THEN recursion' ELSE 0
    <3>1. CASE owner = t /\ owner' = t
      BY <1>1, <2>3, <3>1
    <3>2. CASE owner = t /\ owner' # t
      BY <1>1, <1>8, <2>3, <3>2
    <3>3. CASE owner # t /\ owner' = t
      BY <1>1, <1>8, <2>3, <3>3
    <3>4. CASE owner # t /\ owner' # t
      BY <1>1, <1>8, <2>1, <2>3, <3>4
    <3> QED
      BY <3>1, <3>2, <3>3, <3>4
  <2>5. calls' = [calls EXCEPT ![t] = calls[t]]
    BY <1>1, <1>8
  <2> QED
    BY <1>0, <1>1, <1>8, <2>4, <2>5, BalanceStep, Zenon
<1>9. ASSUME NEW t \in Threads, Suspend(t) PROVE BInv'
  <2> DEFINE e == [owned |-> owner = t, recursion |-> IF owner = t THEN recursion ELSE 0]
             ss == Append(suspensions[t], e)
  <2>1. e \in Suspension /\ e.recursion = IF owner = t THEN recursion ELSE 0
    BY <1>0, <1>1 DEF Suspension
  <2>2. /\ suspensions' = [suspensions EXCEPT ![t] = ss] /\ UNCHANGED calls /\ op[t] = "client"
        /\ \/ owner = t /\ owner' = NoThread /\ recursion' = 0 /\ op' = [op EXCEPT ![t] = "unlock"]
           \/ owner # t /\ UNCHANGED <<owner, recursion, op>>
    <3>1. CASE owner = t
      <4>1. e = [owned |-> TRUE, recursion |-> recursion]
        BY <3>1, Zenon
      <4> QED
        BY <1>9, <3>1, <4>1 DEF Suspend
    <3>2. CASE owner # t
      <4>1. e = [owned |-> FALSE, recursion |-> 0]
        BY <3>2, Zenon
      <4> QED
        BY <1>9, <3>2, <4>1 DEF Suspend
    <3> QED
      BY <3>1, <3>2
  <2> HIDE DEF e
  <2>3. ss \in Seq(Suspension)
    BY <1>1, <2>1, AppendProperties
  <2>4. op'[t] # "lock" /\ \A u \in Threads \ {t} : op'[u] = op[u]
    BY <1>1, <2>2
  <2>5. recursion' = recursion - e.recursion /\ (owner = t => owner' = NoThread /\ NoThread # t)
    BY <1>1, <2>1, <2>2, NoThreadAssumption
  <2>6. \A u \in Threads \ {t} : (owner' = u <=> owner = u) /\ (owner = u => recursion' = recursion)
    BY <2>2, NoThreadAssumption
  <2> HIDE DEF ss
  <2>7. ss = Append(suspensions[t], e)
    BY DEF ss
  <2> QED
    BY <1>8, <2>1, <2>2, <2>3, <2>4, <2>5, <2>6, <2>7, Zenon
<1>10. ASSUME NEW t \in Threads, suspensions[t] # <<>>
       PROVE  /\ Newest(t) \in Suspension /\ Older(t) \in Seq(Suspension) /\ Newest(t).recursion \in Nat
              /\ Newest(t).recursion > 0 <=> Newest(t).owned
  BY <1>0, <1>1, <1>10, NewestAndOlder, NewestSuspension DEF RInv
<1>11. ASSUME NEW t \in Threads, Restore(t) PROVE BInv'
  <2>1. CASE Newest(t).owned /\ owner # t
    <3>1. UNCHANGED <<owner, recursion, suspensions, calls>> /\ op' = [op EXCEPT ![t] = "restore"]
      BY <1>11, <2>1 DEF Restore
    <3>2. op'[t] # "lock" /\ \A u \in Threads \ {t} : op'[u] = op[u]
      BY <1>1, <3>1
    <3> QED
      BY <1>0, <1>1, <1>2, <2>1, <3>1, <3>2, BalanceStep
  <2>2. CASE ~(Newest(t).owned /\ owner # t)
    <3>1. /\ suspensions[t] # <<>> /\ recursion' = recursion + Newest(t).recursion
          /\ suspensions' = [suspensions EXCEPT ![t] = Older(t)]
          /\ op[t] = "client" /\ UNCHANGED <<op, owner, calls>>
      BY <1>11, <2>2 DEF Restore
    <3>2. owner # t => Newest(t).recursion = 0 /\ recursion' = recursion
      BY <1>1, <1>10, <2>2, <3>1
    <3> QED
      BY <1>8, <1>10, <3>1, <3>2, Zenon
  <2> QED
    BY <2>1, <2>2
<1>12. ASSUME NEW t \in Threads, RestoreAcquired(t) PROVE BInv'
  <2>1. owner = NoThread /\ recursion = 0 /\ suspensions[t] # <<>>
    BY <1>0, <1>12, InsideIsOwner DEF RestoreAcquired, RInv, Inside
  <2>2. /\ owner' = t /\ recursion' = recursion + Newest(t).recursion
        /\ suspensions' = [suspensions EXCEPT ![t] = Older(t)]
        /\ op' = [op EXCEPT ![t] = "client"] /\ UNCHANGED calls
    BY <1>12 DEF RestoreAcquired
  <2>3. op'[t] # "lock" /\ \A u \in Threads \ {t} : op'[u] = op[u] /\ owner # u /\ owner' # u
    BY <1>1, <2>1, <2>2, NoThreadAssumption
  <2> QED
    BY <1>8, <1>10, <2>1, <2>2, <2>3, Zenon
<1> QED
  BY <1>3, <1>4, <1>5, <1>6, <1>7, <1>9, <1>11, <1>12 DEF RecursiveNext

\* The recursion count and the counts its suspensions have saved add up to the
\* lock() calls a thread has to unlock, for every nesting of suspensions and
\* also when the lock was taken again inside of one.
THEOREM RecursionIsBalancedHolds == RecursiveSpec => []RecursionIsBalanced
<1>1. BInv => RecursionIsBalanced
  BY DEF BInv
<1> QED
  BY <1>1, InitBInv, NextBInv, PTL DEF RecursiveSpec

=============================================================================
